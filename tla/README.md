# A TLA+ model of libchrome's concurrency core

libchrome is Chromium's `base` library with `mojo`, `ipc`, `dbus` and a few
smaller libraries. Most of its 3241 files are sequential library code, platform
glue, tests and vendored tools. What is hard to get right, and hard to test, is
its own concurrency machinery: events and their waiters, the task scheduler, its
shutdown and its worker pools, the message pipes of mojo and what becomes of them
when a process dies, and the lock-free memory that processes share for metrics. This project models that machinery,
component by component, checks it with TLC on small instances and proves with
TLAPS what matters most for every instance.

## 1. Inventory

| Component | State | Operations | Interacts through | Hard because |
|---|---|---|---|---|
| `base/synchronization` `WaitableEvent` (POSIX) | per event: lock, `signaled_`, list of waiters; per waiter: `fired_`, `signaling_event_` | `Signal`, `Reset`, `IsSignaled`, `Wait`, `TimedWait`, `WaitMany` | locks, condition variables, waiters on the stack of the waiting thread | a waiter on several lists, timeouts racing with signals, lock order, lifetime of waiters and events |
| `base/synchronization` `WaitableEventWatcher` | a reference-counted asynchronous waiter, a cancel flag | `StartWatching`, `StopWatching`, `Fire` | waiter list of the event, posted tasks | cancellation racing with a posted callback |
| `base/task_scheduler` `TaskTracker` and `Sequence` | atomic counters of blocking and of undelayed tasks, `shutdown_event_`, flush callback, background cap, preempted sequences, task queues | `WillPostTask`, `WillScheduleSequence`, `RunAndPopNextTask`, `Shutdown`, `FlushForTesting`, `FlushAsyncForTesting` | four independent locks, `OnCanScheduleSequence` callbacks | counters and locks that are not updated together |
| `base/task_scheduler` worker pool | idle stack, workers, `max_tasks_`, shared priority queue | `GetWork`, `DidRunTask`, `WakeUpOneWorker`, `AdjustMaxTasks`, cleanup | pool lock, queue transactions, one event per worker | a wakeup lost between "queue is empty" and "I am idle" |
| `base/task_scheduler` delayed tasks, service thread, single-thread runners | delayed task heap, worker per runner | `AddDelayedTask`, `PostTask` | service thread | start-up and shutdown order |
| `base/message_loop`, `base/task/sequence_manager` | incoming and work queues, enqueue orders, fences | post, reload, select, run | pump wake-ups | wake exactly once, order across queues |
| `base/metrics` persistent memory | block list in shared memory | `Allocate`, `MakeIterable`, iteration | compare-and-swap between processes | a process that dies in the middle |
| `mojo/core/ports` | ports of each node, routes, message queues, proxies | create, send, close, merge, accept events | events between nodes | ports move while messages are under way |
| `mojo/core` dispatchers, `mojo` bindings, `ipc` | handle table, data pipes, watchers, routers | send, read, watch, close | ports, platform channels | reentrancy, closing while in use |
| `base` lifetime helpers, timers | reference counts, weak pointer flags, lazy instances, observers | create, release, notify | atomics | creation and destruction races |
| everything else (`base` containers, strings, JSON, files; `crypto`, `dbus`, `ui`, `components`, `device`; build tools) | - | - | - | sequential data processing or platform I/O |

`PROJECT.json` lists every component with its status and the hazards, each at
the line where it bites.

What makes the components modelled so far correct:

- `WaitableEvent`: a signal of an automatic event releases exactly one wait or
  stays in the event; nobody sleeps on a signaled event; a waiter leaves every
  list before its stack frame goes; a wait that returns may destroy the event,
  because the `Signal` that woke it is over; locks are taken without a cycle.
- `TaskTracker`: shutdown waits for all it must wait for, and for nothing else,
  and returns; a sequence never runs on two workers and is never forgotten; the
  cap on background sequences is kept and no slot leaks; a flush returns when,
  and only when, it should.
- `mojo/core/ports`: wherever the ends of a pipe move, and however pipes are
  merged, what one end sends the other reads once and in order; an end is in one
  place; a closure is not lost, and is told only after the last message; ports
  that nobody can reach are closed; proxies go away.
- `mojo/core` node controllers: having to be introduced first changes nothing for
  the routes; when a node dies, every open end whose peer is gone is told, and no
  proxy is left behind, if one end of a pipe moves and only that end closes (a
  closure sent towards a node that dies is lost, section 4).
- worker pool: no wake-up is lost between the thread that pushes and the worker
  about to sleep; a worker that sleeps can be reached; the limits on running
  tasks are adjusted exactly for blocked ones; a started pool keeps a worker.
- persistent memory: blocks never overlap; the queue of iterable blocks is a list
  whoever dies while linking; an iterator gets every block once and in order;
  nobody waits for a dead process.

## 2. Plan

Done:

1. `WaitableEvent`, with its proofs.
2. `TaskTracker`: posting, running, shutdown, flush, background cap.
3. `Ports`: `mojo/core/ports`, merging included, with the abstract specification
   `MessagePipe` as a refinement target and the proofs of `MessagePipe`.
4. `PortsFailure`: `Ports` composed with the node controllers' introductions,
   broadcasts and lost connections.
5. `WorkerPool`: idle stack, excess workers, blocking scopes, thread creation.
6. `PersistentMemory`: the lock-free segment, with processes that die, as a
   refinement of `IterableLog`.
7. Proofs: the safety properties of `WaitableEvent`, `TaskTracker`, `WorkerPool` and
   `PersistentMemory`, and its refinement of `IterableLog`.
8. Proofs about `Ports`, merges included: types, expected events, order, one place per
   end, and that carried ports are ready; without merges, the refinement of `MessagePipe`.

Left, in this order:

9. Proofs that nothing is lost in `Ports`: `NothingLost` and `NoOrphanedPort`.
10. `WorkerPool` composed with `TaskTracker` in place of the set `scheduled`, so
   that workers which leave at shutdown also leave the pool.
11. `EventWatcher`: an asynchronous waiter on `WaitableEvent`.

Each module has its parameters as CONSTANTS with named assumptions, one action
per atomic step of the code, invariants in named parts, and no RECURSIVE operator.

## 3. Modules

### WaitableEvent

Models `src/base/synchronization/waitable_event_posix.cc`, all of it.

| Variable | In the code |
|---|---|
| `signaled`, `waiters`, `lock` | `kernel_->signaled_`, `waiters_`, the holder of `lock_` when it is held across steps |
| `fired`, `signaling_event` | the fields of the thread's `SyncWaiter` |
| `pc`, `call`, `next` | where the thread is, what it called, its loop index |
| `result` | what the call returns |
| `consumed`, `woke` | history: signals used up by the current wait; waiters that accepted the current `Signal` |

A critical section that touches one kernel only is one step. Three parts are
finer, because others can see the middle of them: `Signal` fires its waiters one
by one (`SignalAllFire`, `SignalOneFire`); `EnqueueMany` takes its locks one by
one, in address order (`EnqueueManyLocks`); a waiter that was woken or timed out
leaves the lists one lock at a time (`TimedWaitDequeues`, `WaitManyDequeues`).
Events are natural numbers because the code orders locks by address. Timeouts
are a nondeterministic choice: a timed wait may leave its loop at any moment.
A thread has at most one `SyncWaiter`, named by the thread.

### TaskTracker

Models `src/base/task_scheduler/task_tracker.cc`, `sequence.cc`, the shutdown
behavior that `task.cc` gives a delayed task, the posting functions of
`scheduler_worker_pool.cc`, and the loop of `SchedulerWorker::RunWorker`.

| Variable | In the code |
|---|---|
| `started`, `num_blocking` | the two parts of `State::bits_` |
| `event` | `shutdown_event_`: null, or an event (manual reset) |
| `num_undelayed`, `callback` | `num_incomplete_undelayed_tasks_`, `flush_callback_for_testing_` |
| `num_background`, `max_background`, `preempted` | the state under `background_lock_` |
| `queue` | `Sequence::queue_`; the task that runs stays at the front until `Pop` |
| `scheduled`, `delayed` | the pool's priority queue and the `DelayedTaskManager`, as sets |
| `poster`, `worker`, `shutter`, `flusher`, `async` | the threads and where they are |
| `posts` | the number of posts, which is also the clock that stamps tasks |

A step is one atomic read-modify-write or one critical section. `State::bits_`
is accessed by atomic increments that return the new value, so reading and
changing it is one step; signaling `shutdown_event_` is another. The four locks
are never nested around another component's work, except that `FlushForTesting`
holds `flush_lock_` while it evaluates its condition: its two reads are two
steps, and everybody else who needs `flush_lock_` waits (`FlushLockFree`).

A worker's round begins with `while (!ShouldExit())` (`BeginRound`); then `GetWork`
returns a sequence (`TakeTask`) or null (`GetsNoWork`). These are separate steps: a
worker that has begun its round may take a sequence after shutdown is complete, and
no other may. A worker that finds that it should exit stays idle for good, with
whatever is queued left behind.

Abstractions:

- `ShouldExit` is whether shutdown is complete; `JoinForTesting` and the cleanup of
  workers (see `WorkerPool`) are left out. An idle worker may begin a round at any
  time: who wakes it up is the subject of `WorkerPool`.

- A poster that is idle may also play the service thread and push a delayed task
  that is ripe; when it is ripe is nondeterministic.
- A worker takes any scheduled sequence: the order of the priority queue is left
  out, so the results hold for every order.
- `std::numeric_limits<int>::max()` is `Unbounded`, more than all sequences and
  workers together.
- The number of posts is a coarse clock. `sequenced_time` is taken from it when
  the task is pushed, and times may be equal, as they may be in the code.
- A sequence that a worker hands back goes to the pool in the step that pops the
  task or manages the background cap; nobody can see it in between.
- Condition variables have no spurious wakeups here; the code's loop would only
  evaluate its condition once more.
- Left out: histograms, tracing, the number of tasks posted during shutdown (it
  only feeds a histogram), the thread-local state set up around a task.

### Ports and MessagePipe

`Ports` models `src/mojo/core/ports/node.cc`, with `port.h`, `message_queue.cc`
and the part of `src/mojo/core/node_controller.cc` that carries events between
nodes.

| Variable | In the code |
|---|---|
| `ports` | `ports_` of all nodes: from address to the fields of `Port` |
| `names` | the generator of port names |
| `stack` | per node and thread: the `ForwardEvent` calls a thread has still to make |
| `chan` | per pair of nodes: the events in the channel, first in first out |
| `held` | the ports that embedders hold handles to |
| `sent`, `received`, `closed` | per end of a pipe: what the embedder sent and read, and the closed ends |
| `mate`, `merged` | history: the other end of each end's pipe, which a merge changes, and the ends that merges used up |

An address `<<node, id>>` stands for the pair `peer_node_name`, `peer_port_name`.
A member function of `Node` is an operator from a world (a record of the ports,
the name generator, the closed ends and the events forwarded so far) to the world
after the call, under the function's own name: `OnUserMessage`, `OnPortAccepted`,
`OnObserveProxy`, `OnObserveProxyAck`, `OnObserveClosure`, `BeginProxying`,
`TryRemoveProxy`, `MergePortsInternal`, `DestroyAllPortsWithPeer` and so on
(`Proxied` is `ConvertToProxy`). The actions are the calls an embedder makes
(`SendUserMessage` and the ways it fails, `GetMessage`, `ClosePort`,
`MergeLocalPorts`), the IO thread answering a request to merge a reserved port
(`MergePorts`), a thread making its next `ForwardEvent` call (`AcceptLocalEvent`,
`SendPeerEvent`), and the IO thread accepting an event from a channel
(`OnEventMessage`).

What a handler does under its locks is one step. The events it sends are sent
after the locks are released, each in a step of its own, so the other thread of
the node may come in between: an event for the same node is a nested
`AcceptEvent` on the calling thread, any other is written to the channel. Events
from channels are accepted on the IO thread only (the DCHECK at
`node_controller.cc:961`). `CallingThread` says whether embedders call on the IO
thread, so that there is one thread per node, or on another one.

Abstractions:

- A message is its sender's end and its number. It carries at most one port.
- An end is never carried by its own pipe, directly or through other pipes
  (`CarriesAssumption`); nobody could read such a message.
- A closed port is erased at once. `PortRef`s that outlive it, and calls through
  them that return an error, are left out.
- `BeginProxying` and `ForwardUserMessagesFromProxy` take the port's lock several
  times; each is one step here, apart from the events it sends. The loop of the latter is
  a recursive function, bounded by the length of the queue.
- `ClosePort` acts on receiving ports only, as the code does.
- `UserData`, `PortStatusChanged`, message filters and the `signalable` flags of
  `GetStatus` are left out: they tell the embedder when to look, not what it sees.
- Every two nodes have a channel from the start; `PortsFailure` adds introductions.
- `MergePortsInternal` is one step apart from the events it sends. In the code the
  local events that the first port's removal causes are handled, nested, before the
  second port is looked at (`node.cc:910-936`); here they are handled after both. Its last part
  (`node.cc:941`), which undoes a merge when forwarding fails, is left out:
  forwarding cannot fail here.
- `ReadBeforeMerge = FALSE` keeps the precondition of `node.h:149`: embedders do not
  read from a port that they merge later.
- Ports to be merged stay where they are until they are merged.

`MessagePipe` is what a pipe promises to the embedders: counters of messages
sent, sequences of messages read, the closed ends, and the ends that are told of a
closed peer. `Ports` instantiates it with `told` as the ends whose port, or whose
port descriptor under way, accepts no more messages, and checks its `Spec` as the
property `ImplementsMessagePipe`.

### PortsFailure

`PortsFailure` extends `Ports` with what `src/mojo/core/node_controller.cc` does to
connect nodes and to notice their deaths, and with `LostConnectionToNode` and
`DestroyAllPortsWithPeer` of `node.cc`.

| Variable | In the code |
|---|---|
| `crashed` | the nodes whose process is gone |
| `peers` | `peers_` of each node's controller |
| `pending` | `pending_peer_messages_`: events kept until their node is introduced |

A crash takes a node's ports, handles, unfinished calls and unread messages.
What it had written can still be read; the peer sees the error after that
(`OnChannelError`). An event for a node that is not a peer asks the broker for an
introduction (`SendEvent`, `OnRequestIntroduction`, `OnIntroduce`); a refusal is a
lost connection. A dead proxy is broadcast by way of the broker (`BroadcastEvent`,
`RelaysBroadcast`).

Abstractions: the broker does not die; pipe partners and the broker know each
other from the start; a node has one thread, so that a handler's events are sent
before the next message is read, also in `OnIntroduce`, where the code erases the
pending messages after `LostConnectionToNode` has sent its events; tokens,
platform handles, and channels between Windows processes that the broker relays
are left out. `EventsExpected` is not claimed here: an event may meet a port that
a crash has left in another state, which the code ignores.

### WorkerPool

Models `src/base/task_scheduler/scheduler_worker_pool_impl.cc` with
`scheduler_worker.cc`, `scheduler_worker_stack.cc`, `priority_queue.cc` and
`src/base/threading/scoped_blocking_call.cc`.

| Variable | In the code |
|---|---|
| `workers`, `idle`, `unused`, `event` | `workers_`, `idle_workers_stack_`, the workers with a `last_used_time_`, the signaled `wake_up_event_`s |
| `queue`, `transaction` | `shared_priority_queue_`, and the worker whose `Transaction` holds its lock |
| `max_tasks`, `max_background`, `num_background`, `num_pending`, `num_pending_background` | the counters under `lock_` |
| `num_wake_ups` | `num_wake_ups_before_start_` |
| `polling`, `service` | `polling_max_tasks_`, and the service thread's place in `AdjustMaxTasksFunction` |
| `worker` | each worker's place in `RunWorker`, its sequence, blocking scope and delegate fields |
| `poster`, `left`, `workload` | the threads that post, the tasks each sequence still holds, the program |
| `failures` | the number of threads that could not be created |

A critical section under `lock_` is one step. `GetWork` holds the queue's
transaction over several, between which others may hold `lock_`. Workers that wait
past the reclaim time time out and clean up; tasks may enter a `MAY_BLOCK` or
`WILL_BLOCK` scope, upgrade it, and stay in it for ever.

Abstractions: time is whether a `MAY_BLOCK` scope is older than the threshold; the
queue is a set of sequences from which foreground ones come first, their order
among themselves being left open; each sequence is posted to by one thread, and a
task has one outermost scope. Left out: the exit of workers at shutdown,
`JoinForTesting` and the other `ForTesting` members, histograms, COM.

### PersistentMemory and IterableLog

`PersistentMemory` models `Allocate`, `MakeIterable`, `Iterator::GetNext` and
`DelayedPersistentAllocation::Get` of
`src/base/metrics/persistent_memory_allocator.cc`, one step per atomic operation on
the segment.

| Variable | In the code |
|---|---|
| `freeptr`, `tailptr`, `flags` | the fields of `SharedMetadata` |
| `block` | the `BlockHeader` at each reference |
| `reference` | `*reference_` of a `DelayedPersistentAllocation` |
| `writer`, `reader` | each thread's place and local variables |
| `last_record`, `record_count` | the fields of the `Iterator` that the readers share |
| `log`, `handed` | history: the blocks in the order they were linked, how many the iterator has passed |

References and sizes are in bytes, with the code's alignment, header sizes and
page rule. A writer may be killed between any two steps.

Abstractions: memory is sequentially consistent, where the code uses acquire and
release orders for some operations; setting a flag, which the code does in a retry
loop, is one step. Requests are no larger than a page, so the early return of
`AllocateImpl` for larger ones (line 644) is left out. Left out too is its check for a
`new_freeptr` above `mem_size_` (line 706): the requested size was checked against the
free space on line 665, and rounding it up to the end of the page cannot pass the end of
a segment made of whole pages (`MemoryAssumption`). Of `ChangeType`, the way
`DelayedPersistentAllocation` uses it (without clearing) is modelled. Left out: attaching to an existing segment and its checks of corrupt
headers, clearing, `Reset` and `GetNextOfType` of the iterator, files, histograms of
memory use.

`IterableLog` is what users of the queue may count on: records are only appended,
each once, and handed out in that order. `PersistentMemory` maps its history to it;
the property is `IteratesInOrder`. What ties the history to the segment is
`QueueIsLog`.

## 4. Runs

| Run | Question | Bounds | Distinct states |
|---|---|---|---|
| `WaitableEvent_calls` | the six invariants; does every call return that may? | 3 threads, 1 manual and 1 automatic event, `WaitMany` in either order | 498 000 |
| `TaskTracker_safety` | is the blocking count exact, does shutdown wait, one place per sequence, cap kept | one sequence per shutdown behavior, two of them background sequences with a cap of 1, 2 posters, 2 workers, 3 posts | 3.7 million |
| `TaskTracker_liveness` | do `Shutdown()` and the flush return, does the callback run, are preempted sequences run? | 2 background sequences, cap 0 or 1, 1 poster, 2 workers, a flusher, an asynchronous flush, either kind of shutdown, 2 posts | 671 000 |
| `WorkerPool_pool` | are stack and counters exact, is anyone out of reach, is all work taken? | 3 workers at most; three workloads of two sequences each, foreground, mixed and background; one thread may fail to start | 347 000 |
| `Ports_threads` | closure, asserted states, no loss, refinement of `MessagePipe` | 2 nodes, both ends of a pipe move and may close, a message each, 2 threads per node | 365 000 |
| `Ports_merge` | order, places, closure, carried ports and routes when pipes are merged | 2 nodes, 4 pipes, of which one is merged across nodes or on a node with another, 2 messages through it, one of them with a port, 2 ends may close | 368 000 |
| `PortsFailure_lost_node` | what do the survivors see? | 4 nodes, the broker on its own; an end moves twice; two nodes may die | 142 000 |
| `PersistentMemory_shared` | disjoint blocks, intact queue, exact iteration, one delayed block, no waiting | three casts of 4 threads, of which one may die, in a segment of 3 pages | 316 000 |

Why the bounds are enough for the interesting cases: three threads are one
signaler and two waiters of which one waits on several events, or two signalers
that race for one waiter; two events in opposite orders are what a lock cycle
needs. For the tracker, two posters race for one empty sequence, two workers run two sequences
or hand one over, and three posts let one task run, one wait in the same
sequence and one be preempted or arrive during shutdown. For the ports, an end
that moves twice leaves two adjacent proxies, which is where removal is hard; two
moving ends make the announcements of their proxies cross. In `Ports_merge` two ends
of one node are joined through another node, so that of two messages the second, over
the route made shorter, arrives before the first, at a receiving port or at a proxy
that has to hold it back; and a merged pipe that carries a port makes a proxy bind and
send on what it carries. A relayed end whose second and
third node may die loses its proxy, its target or both, before or after the
introduction. For the pool, one worker more than `max_tasks` lets a blocked task be
compensated and the excess worker go; two sequences race for the last idle worker.
In the segment, three blocks of different sizes reach a page's end and the
segment's end, and three writers are one that dies, one that helps and one that
fails its exchange. Deadlock checking is off: threads stop when all posts are made,
embedders may stop sending, a writer finishes, and a `Wait` that nobody signals
blocks legitimately.

`GraphSettles` and `LossNoticed` are checked where one end of each pipe moves, a
route has one merge at most, and a node has one thread. Otherwise a proxy may stay
behind, see below; messages and closures still get through, which is what
`Ports_threads` shows.

### What the code does and its comments deny

Four runs state what a comment, an assertion or a test says and are violated:

- `TaskTracker_late_post`: between the decrement to zero and the signal of
  `shutdown_event_`, a `BLOCK_SHUTDOWN` post is accepted; a second worker, which
  asked whether it should exit before the signal, starts its task after shutdown is
  complete, against the DCHECK in `BeforeRunTask`. The worker that signals the event
  leaves. The comment on
  `ShutdownWaitsForPriorTasks` says what does hold: tasks whose post began before
  shutdown are always waited for.
- `Ports_stranded_route`: both ends of a pipe move between two nodes, one of them
  twice. A proxy passes an `ObserveProxy` on to a port that is itself a proxy and
  has by then been acknowledged and erased; `OnObserveProxy` drops the event, so the
  proxy that sent it never gets its `ObserveProxyAck`. It forwards until an end
  closes, although `InitiateProxyRemoval` says the acknowledgement comes eventually.

- `WorkerPool_background`: `WillBlockEntered` raises the limit on background tasks and
  returns without a wake-up when the pool has fewer workers than `max_tasks_`. A
  worker that found only a background sequence and the limit reached is idle by
  then, so the sequence waits until the blocked task is over.
- `PortsFailure_broker`: the broker's `OnBroadcast` sends a dead proxy's name to each of
  its peers and not to its own node. A port on the broker's node that pointed at
  the proxy is never told.

Smaller things met while modelling, with the instance that shows them:

- With `Flushers = {f1, f2}` in `TaskTracker_liveness.cfg`, `FlushesEnd` fails:
  `flush_cv_->Signal()` wakes one of two threads in `FlushForTesting()` and nothing
  wakes the other.
- The flush callback can be run by a worker that saw an earlier zero: after its
  decrement (`task_tracker.cc:773`) a post is counted, the callback is set, and
  then the worker takes it, although the tracker was never idle since.
- With `CallingThread = "user"` and one move per end (`NoStrandedProxy` in the
  instance of `Ports_threads.cfg`), a proxy is stranded too: a port buffers before
  the message that carries it is written to the channel (`node.cc:840`), and an
  `ObserveProxy` that it forwards in between arrives before the port does and is dropped.
- After `SetHasShutdownStartedForTesting()`, `IsShutdownComplete()` becomes true when
  the last blocking task ends; `task_tracker.h:179` says it will not. The workers then
  leave with tasks still queued, and a thread in `FlushForTesting()` waits for ever:
  only `PerformShutdown` signals `flush_cv_` for it (`LeftWithoutSignal`, which
  `FlushesEnd` excepts; `task_tracker.h:119` says "Returns immediately when shutdown
  completes").
- With `Pipes` as `<<<<1, 1>>, <<2, 1>>, <<1, 1>>>>`, `Merges = {<<2, 3>>, <<1, 5>>}`
  and two messages from end 1, `GraphSettles` fails, with one thread per node: after
  both merges a proxy is stranded on the route that leaves node 1 and comes back,
  as in `Ports_stranded_route`.
- With `MayClose = {5, 6}` in `PortsFailure_lost_node.cfg`, `LossNoticed` fails: an
  `ObserveClosure` sent towards a node that dies is lost, and the port that sent it is
  gone, so nobody is left whose death would be broadcast.
- With `ReadBeforeMerge = TRUE`, messages that follow the merge wait for ever behind
  those that were read before it: the merged port forwards with the numbers of the
  old pipe. `node.h:149` and `message_pipe.h:320` forbid it; nothing checks it.
- A process that dies between storing the reference of a
  `DelayedPersistentAllocation` and `MakeIterable` leaves a block that everybody uses
  and no iterator finds (`persistent_memory_allocator.cc:1181`).
- `AllocateImpl` keeps a size that it rounded up to the end of a page when its
  exchange fails, and asks for the larger size at the next place; the block is
  larger than asked for, never smaller, which `BlocksDisjoint` allows.
- `AddPeer` publishes a new channel before the messages kept for it are written, so an
  event of another thread may overtake them (`node_controller.cc:504`). With one
  thread per node, as here, this cannot happen.

### Fairness

`WaitableEvent`: weak fairness of each thread's steps inside a call, no fairness
for starting calls. A thread that can run is eventually scheduled; locks are held
for bounded code. `TaskTracker`: weak fairness of each poster, worker, flusher and
of the thread in `Shutdown`. It says that tasks end, that the pool keeps giving
workers sequences until shutdown is complete, when they leave their loop, and that
delayed tasks ripen; no call has to be made. So `EverySequenceDrains` says nothing once shutdown is
complete, and `FlushesEnd` needs the signal of `PerformShutdown` then. Posting ends because of `MaxPosts`: the code itself says that an infinite number of
`BLOCK_SHUTDOWN` tasks prevents shutdown from completing. `WorkerPool`: weak fairness of
each worker's steps, of each poster, of `Start` and of the service thread; none for
the end of a blocking scope, for time-outs or for entering scopes, so the queue
drains however long tasks block. `PersistentMemory`: weak fairness of each thread
that has not been killed. `PortsFailure`: weak fairness of the network's steps as a
whole (while anything is left to handle, something is handled), none for embedders
and crashes; `MaxSends` bounds what embedders send. `Ports` needs none: what it says
about settled routes is an invariant.

## 5. Proofs

Each component's proofs are in a module of their own. All theorems hold for every
value of the constants that meets the modules' named assumptions; TLC evaluates
those on every run. Each proof goes the same way: an inductive invariant `IndInv`,
of which TLC was asked first whether the instances of section 4 keep it, a lemma per
action that it is preserved, a theorem `Invariance` (`Invariant` in
`WaitableEventProofs` and `PortsProofs`) that it always holds, and a theorem per property. The facts
about sequences, finite sets and numbers that several of them need (removing the
first occurrence of an element, least and greatest elements, division) are lemmas of
`DataFacts`.

### WaitableEventProofs

For any set of threads, any finite set of events, any reset policies and any arrays
given to `WaitMany`:

| Theorem | Statement |
|---|---|
| `TypeCorrect` | `Spec => []TypeOK` |
| `NoSignalIsLost` | `Spec => []NoLostSignal` |
| `WakeupsAreNotMissed` | `Spec => []NoMissedWakeup` |
| `NoWaiterDangles` | `Spec => []NoDanglingWaiter` |
| `WaitReturnsAfterSignal` | `Spec => []SignalOutlivesNoWait` |
| `LocksNeverCycle` | `Spec => []NoLockCycle` |

The assumptions: events are natural numbers, and finitely many
(`AddressesAssumption`: they are addresses; used by `LocksNeverCycle` only); the
arrays of `WaitMany` are non-empty and have no repetitions, which the code DCHECKs;
`None` is neither a thread nor an event. None of the properties is inductive alone.
`IndInv` adds what each thread's `pc` says about locks and lists: a thread that fires
waiters holds the event's lock; a lock held across steps belongs to a thread at a
`pc` that holds locks; a waiter is on the list of an event only while its thread is
blocked or has not yet come to that event in its dequeue loop, and at most once; a
waiter that is not fired is on all its lists.

`LocksNeverCycle` rests on `InOrder`: of the locks that a `WaitMany` needs, it holds
those of the lowest addresses. In a cycle of threads, each wanting a lock that the
next one holds, consider the thread that wants the greatest address. Whoever holds
that lock and wants another wants a greater one, a contradiction. The greatest
address exists because there are finitely many.

### TaskTrackerProofs

For any finite sets of sequences, posters and workers, any flushers, any number of
posts and any cap:

| Theorem | Statement |
|---|---|
| `TypeCorrect` | `Spec => []TypeOK` |
| `OnePlacePerSequence` | `Spec => []SequenceInOnePlace` |
| `CapIsKept` | `Spec => []BackgroundCapKept` |
| `BlockersCounted` | `Spec => []BlockingCountExact` |
| `ShutdownIsSafe` | `Spec => []ShutdownWaitsForPriorTasks` |
| `FlushIsSafe` | `Spec => FlushMeansIdle`, an action property |

The sets are finite because threads and sequences are; the properties count them.
`IndInv` takes `SequenceInOnePlace` apart into statements about pairs of places
(`PlacedOnce`, `PlacedApart`, `PlacedIfBusy`), which a step can be followed through
without counting. For the two counters it adds that every task has an id of its own
and is in one place (`TasksUnique`), so that a step adds one task to the counted set,
removes one, or moves one. `ShutdownWaitsForPriorTasks` is not inductive: between the
decrement to zero and the signal of `shutdown_event_` it says nothing.
`NothingPriorLeft` says the same from the decrement on: a worker that has made it
(`pc = "complete"`) counts as completion. New blocking tasks may be counted there
(the violated run `TaskTracker_late_post`), but their posts began after shutdown did.

### WorkerPoolProofs

For any number of workers, any finite set of sequences, and any workloads:

| Theorem | Statement |
|---|---|
| `TypeCorrect` | `Spec => []TypeOK` |
| `IdleStackIsExact` | `Spec => []IdleStackExact` |
| `WorkersStayReachable` | `Spec => []NoWorkerLost` |
| `CountersAreExact` | `Spec => []CountsExact` |

`IdleStackExact` and `NoWorkerLost` need each other and need to know which workers
can be on the stack: `GoodPool` states them of a pool and its workers, and the
operators that the actions compose (wake one worker, create one, push on the stack,
remove from it) each have a lemma that they lead from a good pool to a good pool.
The counters are exact because a blocking scope has raised `max_tasks_`, is pending,
or is about to raise it, and never two of these (`Scoped`), which upgrades from
`MAY_BLOCK` to `WILL_BLOCK` and the service thread's `AdjustMaxTasks` both rely on.
`Transactions` says that the queue does not change under the worker that looked at
it, across the critical sections in between. `PollsOnceStarted` is
kept apart, since it follows from the rest in the next state. `max_tasks` is 0 before
`Start` and positive from then on, and `Start` creates a worker, which is what
makes "the last worker is never cleaned up" provable.

### PersistentMemoryProofs

For any threads and requests, any size of the segment and of its pages, and any
writers killed at any step:

| Theorem | Statement |
|---|---|
| `TypeCorrect` | `Spec => []TypeOK` |
| `NothingTakenForCorruption` | `Spec => []NeverCorrupt` |
| `BlocksAreDisjoint` | `Spec => []BlocksDisjoint` |
| `QueueHoldsTheLog` | `Spec => []QueueIsLog` |
| `ReadersMissNothing` | `Spec => []NothingMissed` |
| `GettersShareTheirBlock` | `Spec => []SameSpace` |
| `ImplementsIterableLog` | `Spec => IteratesInOrder`, the refinement of `IterableLog` |

The assumptions are those of `IsMemoryAcceptable`, that the first page has room for a
block, and `PageAssumption`: the page size is a multiple of the alignment.
`IsMemoryAcceptable` (`persistent_memory_allocator.cc:290`) does not check the last;
it is true of every page size in use, and without it a page could end in the middle
of an alignment unit.

`IndInv` follows memory from the exchange of `freeptr` to the filled header: what a
writer has claimed and not yet given a header is its `Extent`, and extents and blocks
are disjoint (`Space`, `Headers`, `Disjoint`). A block belongs to its writer until it
is linked (`Owned`), so nobody else links it. A writer's idea of the tail is a block
of the queue that is not ahead of the tail pointer (`Tails`), and a reader's idea of
the last record one that is not ahead of the iterator (`Lasts`); therefore an exchange
that succeeds always moves one block forward, which makes each step a step of
`IterableLog` or none. `Counts` relates `record_count_` to the readers that have
moved the iterator and not counted their record yet, which is what the code's check
for a loop in the list depends on. `Delayed` does the same for `*reference_`.

### MessagePipeProofs

`PipesAreReliable`, for any number of pipes:
`Spec => [](ReadsWhatWasSent /\ ToldWhenFinished)` of `MessagePipe`. The invariant is
the conjunction of the two with the types: that an end is told of a closed peer
only when nothing is left to read stays true because a closed end sends nothing
more. With the refinement (`Refinement` of `PortsProofs`) this is what embedders of `Ports`
get.

### PortsInvariant, PortsFacts and PortsProofs

For any nodes, any pipes, any ends that move, close, are carried or are merged, with one
or two threads per node:

| Theorem | Statement |
|---|---|
| `TypeCorrect` | `Spec => []TypeOK` |
| `OnlyExpectedEvents` | `Spec => []EventsExpected` |
| `ReadInOrder` | `Spec => []ReceivedInOrder` |
| `OnePlacePerEnd` | `Spec => []EndInOnePlace` |
| `CarriedPortsReady` | `Spec => []AttachedPortsReady`, the first half of `CarriedPortsSafe` |
| `Refinement` | `Merges = {}` implies `Spec => ImplementsMessagePipe` |

`Refinement` needs that nothing is merged because `MessagePipe` joins ends for good, and a
merge joins them anew; the run `Ports_threads` checks it under the same condition. The others
hold with merges.

The assumptions on the constants are `PipesAssumption` (every pipe connects two nodes
that exist), `CarriesAssumption`, `MergesAssumption` (an end is not merged with
itself, and does not move before it is merged) and `CallingThreadAssumption`.

`PortsInvariant` defines the inductive invariant `IInv`. Its core, `Safe`, is stated of the
ports, the handles and the events under way wherever they are, in a stack or in a channel
(`Toks` numbers them), so that moving an event from a stack to a channel changes nothing.
Three values that the code does not have are quantified existentially: `o` gives the end
that every address ever used belonged to, `d` the end that events sent towards an end
reach after merges, and `V` what the port or the descriptor of each end knows of a closure.
The parts of `Safe`:

- `WellTyped`: the types, with fresh names unused.
- `Carry`: a port is held, or carried by one message that is queued or not yet sent, or
  neither, and never two of these; ports of the first names are at home.
- `Moves`: the descriptor of a moving port names a place that does not exist yet and a
  referring port that buffers; there is one such descriptor, or one `PortAccepted`, per
  buffering port. That is what `EventsExpected` needs.
- `Single`: an end that is neither closed nor merged has one receiving port or one descriptor.
- `Routes`: a proxy's peer, and a receiving port's, lead (by `o` and `d`) where they should.
- `Numbers`: what a port expects next is what its embedder has read; every message
  towards an end carries its own number, and was sent.
- `Closures`: a closure that is told, queued or under way is true, and gives the last number
  that was sent.
- `Notified`: `V` says of every open end what its place knows, so that moving to another
  place changes nothing.
- `Unmerged`: where nothing may be merged the ends are joined as they were made.

`Places` adds on whose stack and in which channel an event may be. `Safe` is not preserved in
the middle of a handler as it stands: a handler takes its event out, changes ports, and
forwards others before it returns. `Good` states `Safe` of a world, with the events
forwarded so far, and the one in hand (`Hand`). `PortsFacts` proves that each elementary change
keeps `Safe` (a message queued, taken or read, a port launched or born, ports closed, two
ports spliced, a message numbered, an event sent or accepted). `PortsProofs` composes
those to a lemma per handler (`OnUserMessage`, `OnPortAccepted`, `OnObserveProxy`, ..., also the
loop of `ForwardUserMessagesFromProxy`, whose length does not matter) and a lemma per
action. `ReceivedInOrder` and `AttachedPortsReady` are parts of `Safe`; `EndInOnePlace` counts
with the help of `Single`. For the refinement each step lemma also says what becomes of `V`:
nothing, except that `OnObserveClosure` at a receiving port tells one end (`Follows`). So a
step that closes ends is a `Close`, one that notes a closure a `Tell` or, as long as
messages are left to read, nothing, and all that only moves ports and events stutters.

### Only model-checked

Of `Ports`: `NothingLost`, `ClosureKnown` and `GraphSettles`, and the second half of
`CarriedPortsSafe` (`NoOrphanedPort`). `Safe` says that
whatever is under way may be there. These say that something must be there: that no
message is dropped when a proxy goes away, which needs for every proxy a bound on the
messages that can still come its way. `ReadInOrder` and `OnlyExpectedEvents` do not depend on
them. Of `PortsFailure`: `IntroductionsSuffice`, `LossNoticed`, `LossKnown`; a crash takes away what
`Safe` relies on. The liveness properties of all modules: liveness under fairness and
ENABLED are out of the prover's reach, and so is what a recursive definition computes for
every input.

## 6. Not modelled

See the inventory and `PROJECT.json`, which give each component's reason. Windows,
Mac and Fuchsia variants are not in the scope: the POSIX code is what this
repository builds. Most of the repository is sequential library code, platform
I/O, generated and vendored code and tests, which a model would only repeat; the
map therefore covers a small share of the files, those with concurrent state of
their own. Message loops and the sequence manager, bindings, watchers and timers are
concurrent too and have not been reached; what is planned next is in section 2.
