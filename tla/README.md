# TLA+ models of QEMU 1.4

This directory is a verification development for QEMU 1.4.0 (`src/qemu-1.4.0/`).
It models the parts of the emulator whose correctness depends on the order in
which threads, coroutines, callbacks and the guest take their steps, checks them
with TLC on small instances, and proves theorems about them, for every size,
with TLAPS. All paths below are relative to `src/qemu-1.4.0/`.

`PROJECT.json` is the machine-readable side: every run with its properties, the
source lines each definition stands for, one mutant per property (a plausible
bug that makes TLC report the property), the findings, and the list of hazards.

## 1. Inventory

QEMU is one process. Virtual CPUs run guest code (translated, or in KVM);
everything else (devices, block layer, monitor) runs in the main loop under the
*global mutex*. Three kinds of concurrency matter:

* **threads**: the worker pool that executes blocking I/O, the migration
  thread, and virtual CPUs that write guest memory at any time under KVM;
* **coroutines and callbacks** under the global mutex: cooperative, but every
  yield, completion callback or nested event loop lets other code run between
  two lines of a function;
* **the other side**: a guest that reads and writes rings and memory, a
  migration destination, a disk image that may lose power.

| Component | State | Operations | Interacts with | What is hard; what makes it correct |
|---|---|---|---|---|
| Worker thread pool (`thread-pool.c`) | list of elements, request queue, semaphore, thread counters, notifier | submit, cancel, worker loop, completion handler | block drivers (`raw-posix`), AioContext | lock-free writes of `ret`/`state`, lazily created and self-terminating threads, cancellation racing the worker, callbacks that re-enter the pool; each request runs at most once and completes once, none is stranded |
| Coroutine locks (`qemu-coroutine-lock.c`) | CoQueues, `locked`, `reader`/`writer`, `unlock_bh_queue` | lock, unlock, rdlock, wrlock, bottom half | block drivers, 9pfs, `bdrv_drain_all` | wake-up through a bottom half, newcomers overtake the woken, entering coroutines from a loop that may be re-entered; exclusion, no lost wake-up |
| RAM migration (`arch_init.c`, `page_cache.c`) | dirty bitmap and counter, search position, page cache | setup, iterate, pending, complete, cancel, cache resize, load | migration thread, guest, KVM dirty log | guest writes between every two reads, deltas against a cached copy, retries after failure; the destination ends with the guest's memory |
| XBZRLE codec (`xbzrle.c`) | none | encode, decode | RAM migration | length limits; decode(encode) is the identity |
| Migration thread (`migration.c`) | `MigrationState` | connect, iterate, complete, cancel, error | monitor, `savevm.c`, RAM migration | cancel and error from two threads; one final state |
| AioContext (`async.c`, `aio-posix.c`) | handlers, bottom halves, walking counters | schedule, delete, set handler, poll | everything in the block layer | lists changed while they are walked, nested polls |
| Mirror job (`block/mirror.c`, `blockjob.c`, `util/hbitmap.c`) | dirty, in-flight and COW bitmaps, bitmap iterator, job flags | iterate, read and write completion, complete, cancel, pause, resume | block layer, guest writes, monitor | completion while chunks are in flight or dirty again, an iterator over a bitmap that changes, failures under three policies; the target is a copy, a cancelled job ends |
| Stream and commit jobs (`block/stream.c`, `commit.c`) | job flags | copy, change of the backing chain | block layer | sequential copies |
| Block layer (`block.c`) | throttling queue, tracked requests | throttle, wait for overlap, drain | all of the above | FIFO of throttled requests, no deadlock of overlapping ones |
| qcow2 (`block/qcow2*.c`) | L1, L2 and refcount tables, two metadata caches and their dependencies, allocations in flight | read, write, copy on write, link, discard, flush, reopen | block layer, host crash | order of metadata writes under eviction, overlapping requests with the lock dropped, crash at any moment; refcounts never too low, flushed data survives |
| QED (`block/qed.c`) | allocating-write queue | allocate, write, flush | block layer, crash | as qcow2 |
| virtio ring (`hw/virtio.c`) and network transmit queue (`hw/virtio-net.c`, `hw/virtio-pci.c`) | 16-bit indices, `signalled_used`, notification flags; `tx_waiting`, `async_tx`, bottom half or timer | pop, push, notify, set notification; handlers, flush, completion, status, VM state, load | guest driver, network backend, VM state | index wrap, suppression of notifications in both directions, stop and migration between two steps; no lost buffer, interrupt or packet |
| everything else | | | | device models, translation, UI, network, monitor, tools: see `components` in `PROJECT.json` for why each is left out |

The hazards of this code, each at its line and with the properties that would
catch it, are `hazards` in `PROJECT.json`; those of components not modelled yet
carry the name of the module that is planned for them.

## 2. Plan

Order: what corrupts data or hangs the whole emulator comes first.

1. `ThreadPool` with the abstract `AioRequest`: **done**, checked and proved.
2. `CoroutineLock`: **done**, checked, and all its safety invariants proved.
3. `RamMigration`: **done**, checked, and all its safety invariants proved.
4. `VirtioRing` and `VirtioNetTx`: **done**, checked, and all their safety
   invariants proved.
5. `Qcow2`: **done**, checked, and all its safety invariants proved.
6. `Mirror`: **done**, checked, and all its safety invariants proved.
7. `MigrationThread`: the state machine of `migration.c` against cancel, error
   and a second `migrate`; composed with the handlers of `RamMigration`.
8. `AioContext`: bottom halves and handlers with nested polls; invariant: a node
   is freed only when no walk can reach it; liveness: a scheduled bottom half runs.
9. `BlockRequests` (throttling and overlapping requests, on the CoQueue of
   `CoroutineLock`), `Xbzrle` (pure operators against `XbzrleEncode` and
   `XbzrleDecode` of `RamMigration`).

## 3. Modules

| Module | Content |
|---|---|
| `AioRequest` | abstract life of one request: submitted, running, finished or cancelled, callback, released |
| `ThreadPool` | `thread-pool.c`; refines `AioRequest` |
| `ThreadPoolProofs` | inductive invariant, theorems about `ThreadPool`, and the refinement |
| `ListLemmas` | elements, length and injectivity of Append, Tail, Front, `<<e>> \o s`, RemoveAt and concatenation |
| `CoroutineLock` | `qemu-coroutine-lock.c`, with the event loop and `bdrv_drain_all` as its environment |
| `CoroutineLockProofs` | inductive invariant and theorems about `CoroutineLock` |
| `RamMigration` | RAM migration of `arch_init.c`, `page_cache.c`, and the destination's `ram_load` |
| `RamMigrationProofs` | inductive invariant and theorems about `RamMigration` |
| `VirtioRing` | a virtqueue of `hw/virtio.c` and the guest driver at its other end |
| `VirtioNetTx` | the transmit queue of `hw/virtio-net.c` on a `VirtioRing` |
| `VirtioNetTxProofs` | inductive invariant and theorems about `VirtioNetTx` |
| `Qcow2` | allocation, metadata caches and crash recovery of `block/qcow2*.c` |
| `Qcow2Proofs` | inductive invariant and theorems about `Qcow2` |
| `Mirror` | `block/mirror.c` with the job framework of `blockjob.c` and the bitmap iterator |
| `MirrorProofs` | inductive invariant and theorems about `Mirror` |
| `NatLemmas` | least elements, quotients and remainders of natural numbers |
| `MCThreadPool`, `MCCoroutineLock`, `MCRamMigration`, `MCVirtioNetTx`, `MCQcow2`, `MCMirror` | symmetry sets and constants for TLC |

### 3.1 ThreadPool

Everything under the global mutex is one actor (`mpc`); each worker thread has
its own program counter `wpc[t]`. One critical section of the pool's lock is one
action; posting and waiting for the semaphore, `func`, the write of `ret`, the
write of `state` and the notifier handler's reads of `state`, all outside the
lock, are actions of their own. `Reqs` are the addresses of elements, reused
after `qemu_aio_release`. Variables keep their names in the source (`head`,
`request_list`, `cur_threads`, `idle_threads`, `new_threads`,
`pending_threads`, `pending_cancellations`).

* *Main actor*: `Submit`, `SubmitPost`, `CancelSteal`, `CancelBlock`,
  `CancelWake`, `AioWait` (a `qemu_aio_wait` that blocks), `AioWaitIdle`,
  `SpawnThreadBH`, and the completion handler: `NotifierReady`, `WalkSkip`,
  `WalkCallback`, `WalkRelease`, `CallbackReturn`, `WalkEnd`. While a callback
  runs the main actor may submit, cancel and, with `CallbackMayPoll`, poll
  again: `completing` is the stack of running callbacks, `walk` the elements the
  innermost walk has still to visit (the walk restarts at the head after a
  callback, as `goto restart` does).
* *Workers*: `WorkerStart`, `WorkerSemWait`, `WorkerTimeout`, `WorkerTimedOut`,
  `WorkerTake`, `WorkerFunc`, `WorkerDone`, `WorkerNotify`.
  `sem_timedwait` may time out at any moment.

Properties: `TokensMatch` (each token of the semaphore stands for one queued
request), `ThreadAccounting`, `SpawnPromise`, `NoStrandedRequest`,
`ListsConsistent`, `NoLostCompletion`, and `ImplementsAio`: under the mapping at
the end of the module the pool implements `AioRequest!Spec`, so `func` runs at
most once, never after a successful cancellation, and the callback is called
once and with what `func` returned (never with the uninitialised `ret`).
Liveness: `CancelTerminates`, `QueuedServed`, `CompletionProgress`.

### 3.2 CoroutineLock

Coroutines are cooperative, so the state is one call stack whose top runs.
Below it is the main loop; a coroutine inside `bdrv_drain_all` polls as well.
`looping` is the set of pollers inside `qemu_co_queue_next_bh`: `BhRun` clears
`scheduled` and enters the loop, `BhNext` enters one woken coroutine, `BhReturn`
leaves the loop. `MutexLock`, `MutexUnlock`, `RwlockRdlock`, `RwlockWrlock`,
`RwlockUnlockWriter` and `RwlockUnlockReader` are the functions of the file, each
up to the point where it yields or returns; the environment of a coroutine is
`AioYield`, `AioDone`, `Start`, `Terminate`, `DrainAll` and `DrainReturn`. A
coroutine holds one lock at a time, as the users of these locks do.

`MutualExclusion` relates the flags and counters to the coroutines that believe
they hold the lock. `OnePlace` says that a coroutine is on the stack, in one
queue, woken, or in I/O, never in two of them. `NoLostWakeup` names, for every
waiter, who will wake it. `OnlyWritersWait` is the assumption behind "Wakeup
only one waiting writer". `DrainComplete` is the assertion of `bdrv_drain_all`.

### 3.3 RamMigration

Handlers run under the global mutex and are cut into actions only where a
running guest can write between two reads: the bit is cleared (`ScanFound`), the
page is tested (`ChooseFormat`), and then its byte, its contents or its
difference is read (`SendDup`, `SendNormal`, `SendMiss`, `SkipUnmodified`,
`SendDelta`, `DeltaOverflow` and `SendOverflow`). `StartBlock` is the call of
`ram_save_block`, `ScanAdvance` and `ScanStop` the rest of its loop. The
handlers are `RamSaveSetup`, `RamSavePending`, `RamSaveIterate`, `IterateEnd`,
`IterateFail`, `RamSaveComplete`, `CompleteEnd`, `RamMigrationCancel`;
`CacheResize` is `migrate_set_cache_size`, and `RamListChange` a change of
`ram_list.version`.

Data is abstracted: a page is a tuple of `Width` bytes, a delta the function of
the bytes that differ, and the encoder may overflow on any page that has changed
(its length is not modelled). The stream is reliable and ordered and the
destination does not answer, so each record is loaded when it is put: `dst` is
the destination's memory, its static `block`, and `bad` when it has refused a
record. Torn reads of a page are not modelled: the guest writes whole pages
between actions.

`NoPageForgotten` is the core: whatever differs at the destination is in the
bitmap, in the dirty log, or in hand. `CacheCoherent`: the cache equals the
destination, which is what makes deltas correct. `DirtyCount`, `MemoryMigrated`,
`StreamWellFormed` and `SaveBlockReturns` complete the picture.

### 3.4 VirtioRing and VirtioNetTx

`VirtioRing` holds both ends of a virtqueue. Device and driver run on different
threads and meet only in guest memory, so every access the other side can observe
is an action of its own: reading `avail.idx` for `vring_avail_event` (`Enable`)
and storing it (`Store`), taking a head (`PopHead`), the read and the store that
follow it (`PopEvent`, `PopPublish`), the used entry with the index (`PushElem`), and `vring_notify`.
Indices wrap at `IdxRange`, twice `IdxHalf` (2^16 in the code, 4 in the run). The
ring is no larger than `IdxHalf` and its size divides the range, because every
caller of `virtio_add_queue` asks for a power of two (for this queue
`virtio_net_init` and `virtio_net_set_multiqueue`): otherwise
`vring_avail_ring(vq, idx % vq->vring.num)` would jump when an index wraps. The driver (external) is modelled from what
`virtio.c` expects of it: it adds buffers, kicks if told to, takes used buffers
back, and before it sleeps asks for an interrupt and looks again. It uses its
heads in turn. Memory is sequentially consistent: the model takes the barriers of
the code as sufficient and does not check them.

`VirtioNetTx` adds the transmit path: `HandleTxBh` and `HandleTxTimer`, `TxBh`,
`TxTimer`, `virtio_net_flush_tx` cut into the steps above, a backend that takes a
packet at once or queues it (`SendBusy`, `TxComplete`), and `VmStop`, `VmStart`,
`Migrate`, `Reset` and `DriverOk` with `virtio_net_set_status` in each
(`SetStatus`). Where `assert(vm_running)` of `virtio_net_flush_tx` fails the program
ends: no step follows. One configuration of `Configs` is chosen in the initial
state.

`BufferInOnePlace` accounts for every buffer of the ring; `NoLostInterrupt` and
`NoStall` say that suppressed notifications are never missed, in either
direction; `StoppedDeviceQuiet` says what a stop leaves: nothing scheduled, and
nobody who enters the device but a completion of the backend; `SendsWhileRunning`
is the assertion on `vm_running`, which such a completion violates (finding 6);
`BufferReturned` is liveness: each buffer comes back.

### 3.5 Qcow2

The file under the image has a volatile write cache: `cur` is what a read
returns, `poss` the values each place may have after a crash. What a request does
while it holds `s->lock` is one action, computed by operators that follow the
functions of `qcow2-cache.c`, `qcow2-refcount.c` and `qcow2-cluster.c` one by one
on the record `q`. This loses no crash: between two flushes `poss` only grows, so
the worst moments inside an action are just before its flushes, and `FileFlush`
records there whether the image was safe. Data is written without the lock, in
actions of its own (`WriteData`, `WriteInPlace`, `Cow`).

A request goes from `WriteStart` (in place, wait, or allocate) over `WriteData`
and `Cow` to `Link`; one that had to wait starts again (`WriteAgain`). `Read`
matters for what it evicts. The hit counts of `qcow2-cache.c` are abstracted: a
miss in the L2 cache may replace any table that is not in use, also while an entry
is unused (hits decay). In the refcount cache the choice is a parameter, `RbPick`;
the run's cache has one entry and so no choice. `Discard`, `GuestFlush` and `Crash` complete it.
Each L2 table maps one guest cluster of two sectors, and the first guest cluster
is shared with a snapshot, so that copy on write of tables and data happens.
`acc` is the set of contents a crash may leave in a sector, `vis` what the guest
sees.

### 3.6 Mirror

Everything is one thread; `job.pc` names where the coroutine is suspended, and
nothing else runs while it is not (`Running`). `Scan` is the first part of
`mirror_run`; `Pass`, `NextChunk`, `StartOp`, `FlushDone`, `FlushFails`,
`Drained`, `Exit` are its loop and `mirror_iteration`; `ReadDone`, `ReadFails`,
`WriteDone`, `WriteFails` the completions, which enter the coroutine wherever it
is. `IterNext` keeps the behaviour that makes the iterator delicate: it works on
a copy of the current word of the bitmap and on a summary of the later words (the
two lowest of seven levels). The target does not open its backing file before
`mirror_complete`; until then a write to a new cluster loses what it does not
cover, which the COW bitmap must prevent. Time is abstracted: a slice may expire
in any pass but the first one after a sleep.

## 4. Runs

| Run | Instance | Result |
|---|---|---|
| `threadpool` | 2 threads, 2 elements, nested callbacks to depth 2, fairness | all invariants, the refinement and the three liveness properties hold (about 44 000 states) |
| `threadpool_nested` | 2 threads, 3 elements, nested callbacks to depth 2, symmetry | **violated**: see finding 1 |
| `colock` | 2 requests and a draining job, a mutex and a read/write lock, fairness; deadlock checked | all invariants, `WokenRuns` and `WaiterWoken` hold |
| `colock_drain` | as above, the job may drain below `unlock_bh` | **violated**: see finding 2 |
| `ram_migration` | 2 blocks with a hole, 3 guest writes, caches of 1 and 2 pages | all properties hold (about 860 000 states) |
| `ram_dup` | 1 block, XBZRLE, any page contents | **violated**: see finding 3 |
| `ram_hang` | 2 blocks, fairness | **violated**: see finding 4 |
| `virtio_net_tx` | ring of 2, 2-bit indices, 6 configurations, fairness | all properties hold (about 474 000 states) |
| `virtio_stop` | as `virtio_net_tx`, a VM that is stopped and a backend that queues packets | **violated**: see finding 6 |
| `qcow2_crash` | 2 requests, 2 guest clusters, 6 host clusters in 2 refcount blocks, caches of 2 and 1 tables, 1 crash, 1 discard, symmetry | all invariants hold (about 103 000 states) |
| `mirror` | 4 chunks in 2 clusters and 2 bitmap words, 2 operations in flight, 3 buffers, 12 setups, 1 guest write, 1 I/O error, fairness | all properties hold (about 306 000 states) |
| `mirror_tail` | as `mirror`, with a partial last chunk | **violated**: see finding 5 |

`threadpool` does not check deadlock because of finding 1; the RAM and
mirror runs do not because a finished migration or job may stop, `qcow2_crash`
because each request is issued once, and the virtio runs because a driver with
nothing to do sleeps.

**Why the bounds are enough.** Thread pool: two threads are the smallest pool in
which the backlog of `spawn_thread`, a timeout against a second idle thread and
two completions at once happen; two elements, submitted again and again, allow one
queued while both threads are still busy with what they have finished, and two
walks inside one another. Larger pools are the subject of the proofs, which cover
every invariant of this run and the refinement. Coroutine locks: a holder, a
woken waiter and a newcomer are three coroutines, one of which drains as well.
RAM: three pages of which two share a slot of the larger cache, and all three of
the smaller; three writes let a page be sent, changed, sent as a delta and
changed again while another page is dirtied; the hole leaves bits that no search
clears. In `ram_migration` the guest writes no page of one byte value while
XBZRLE is on (`TamePages`): with such pages the migration is incorrect, which is
what `ram_dup` shows. Without XBZRLE it writes such pages too. Virtio: with a ring
of two and four index values an index wraps after two laps of the ring, the
least that `RingAssumption` allows (the code has at least 64 laps). Qcow2: two writes meet in one cluster,
in neighbouring ones, or across the snapshot; a refcount cache of one table and
two refcount blocks force evictions in every order. Mirror: two clusters
and two words let the iterator leave a word and an operation join clusters; one
guest write suffices to dirty
a chunk that is in flight, was copied, or was passed by the iterator; three
buffers make a cluster wait for buffers while another chunk is copied. With two
guest writes the run no longer ends in reasonable time.

**Experiments without a run.** One set of configurations in `MCVirtioNetTx` and
one property of `Mirror` show behaviours that no assertion or comment of the code
denies, so no run expects them. `BurstConfigs`: `virtio_net_tx_complete` ignores how
many packets `virtio_net_flush_tx` sent; when that is a full burst, the rest of
the queue waits for the guest's next notification (`NoStall` fails). `SwapIsCopy`
with `PlainSetups`: after `mirror_complete`, a write error with policy stop and a
cancel, the job leaves its loop with `ret` 0 and `should_complete` set, and the
target, not a copy, takes the place of the source.

**Fairness.** `threadpool`: weak fairness of every step a thread can take by
itself (workers, the walk, a cancellation that has been woken); strong fairness
of taking a token of the semaphore (`sem_timedwait` takes one that is there, so
timeouts cannot win for ever), of the bottom half and the notifier handler (each
iteration of the main loop runs what is ready, whatever runs between two
iterations), and of the return of callbacks. Nobody has to submit, cancel or
wait, and no timeout has to fire. `colock`: the running coroutine goes on, I/O
completes, the event loop comes back to a scheduled bottom half, and whoever
holds a lock unlocks it after finitely many I/O requests (strong fairness,
because it runs only when its I/O has completed). There is no fairness between
coroutines that compete for a lock, and nothing says a writer ever gets one.
`ram_migration` and `ram_hang`: weak fairness of `ram_save_block`'s own steps,
which are a loop in one thread; the guest, the handlers and failures owe nothing.
`virtio_net_tx`: weak fairness of a handler that has begun (it holds the global
mutex), of the main loop for a notification, a bottom half or timer, and a
backend's completion, of starting a stopped VM again, and of the driver's steps
once it has buffers to kick, take back or an interrupt; it never has to add one.
`mirror`: weak fairness of the job's own steps (it is entered when its timer
fires), and of the completion of every request on either disk; no command ever
has to come.

## 5. Findings

1. **Nested poll inside a completion callback** (`thread-pool.c:176`,
   `threadpool_nested`): the handler clears the notifier before it walks the
   elements, so a callback that calls `qemu_aio_wait` blocks although all other
   elements have finished and nobody will set the notifier again.
2. **`bdrv_drain_all` below `unlock_bh`** (`qemu-coroutine-lock.c:41`,
   `colock_drain`): coroutines behind the one that drains stay in
   `unlock_bh_queue` while the bottom half is not scheduled; the drain ends with
   requests pending, against the assertion in `block.c`.
3. **Stale XBZRLE cache after a page of one byte value** (`arch_init.c:464`,
   `ram_dup`): such a page is sent without updating its cached copy; the next
   delta, or the skip of an "unmodified" page, leaves the destination with wrong
   memory.
4. **Endless search after a change of the block list** (`arch_init.c:444`,
   `ram_hang`): `last_seen_block` is NULL, so the round never ends when nothing
   has to be sent.
5. **In-flight bit of a partial last chunk** (`block/mirror.c:91`,
   `mirror_tail`): the bits of an operation are set for its chunks rounded up and
   cleared for its chunks rounded down. When the length of the disk is not a
   multiple of the granularity, a second write of the last chunk makes
   `mirror_iteration` wait for I/O that was done long ago, and since the job is
   not asleep there, a cancel does not reach it either.
6. **Completion of a packet after the VM was stopped** (`hw/virtio-net.c:915`,
   `virtio_stop`): stopping the VM cancels the bottom half and the timer, but a
   packet that the backend has queued stays queued. When it is sent,
   `virtio_net_tx_complete` calls `virtio_net_flush_tx`, whose
   `assert(n->vdev.vm_running)` (line 929) fails and ends the program.

## 6. Proofs

`ThreadPoolProofs` proves, for every finite set of threads, every set of
elements, every `max_threads` not above the number of threads and every depth of
nested polls (`PoolAssumption` in `ThreadPool`, which TLC evaluates in its runs):
`TypeCorrect`, `TokensAlwaysMatch`, `AccountingHolds`, `PromiseKept`,
`NobodyForgotten`, `ListsStayConsistent`, `CompletionsNotLost`, and `Refinement`:
the pool implements `AioRequest`.

The invariants are not inductive one by one. `TypeOK` needs the accounting (a
decrement does not go below zero because somebody is counted) and `TokensMatch`
(a worker with a token finds a request); `TokensMatch` needs `ListsConsistent`
(the request a cancellation steals is in the queue); `NoLostCompletion` needs to
know whom a worker works for and what the walk has still to visit. `IInv` is
their conjunction with four facts about private state: `JobsOK` (a worker that
runs `func` owns an active element, alone), `WalkOK` (a walk visits only elements
of the list, each once), `CallbacksOK` and `CancelOK`. `Invariance` is
`Spec => []IInv`; one step lemma per group of conjuncts (`TypeStep`,
`AccountingStep`, `PromiseStep`, `ListsStep`, `CompletionStep`) has one case per
action. Counting arguments go through `CountMove` (one thread moves, the counts
of the places it leaves and enters change by one), list arguments through
`ListLemmas`.

`Refinement` rests on `IInv` and one more fact, `ResultReady` (a worker that is
about to publish its element has written a result). `AioActions` restates the
instance's actions with `Phase` and `Result` of one element, `AioMoves` and
`AioStutter` say what a change of one element, or of none, does to them, and
`AioStep` finds for each action of the pool the action of `AioRequest` it is:
`Submit`, `WorkerTake` (`Start`), `WorkerDone` (`Finish`), `CancelSteal`
(`Cancel`), `WalkCallback` (`Deliver`), `WalkRelease` and `CallbackReturn`
(`Release`), and a stutter for all others, `WorkerFunc` included.

`CoroutineLockProofs` proves, for every finite set of coroutines and any two
disjoint sets of mutexes and read/write locks (`LockAssumption`), with and
without drains below the bottom half: `TypeCorrect`, `ExclusionHolds`,
`OnePlaceHolds`, `WakeupsNotLost` and `OnlyWritersWaitHolds`; and, without drains
below the bottom half, `DrainLeavesNothing` (`DrainComplete`).

Here, too, the invariants lean on each other: a waiter queues itself only while
the lock is held, so `NoLostWakeup` needs `MutualExclusion` to turn the flag
`locked[m]` or the count `reader[w]` into a coroutine that will unlock; the
reader that is not the last one leaves another reader behind because the count
is a cardinality; `OnlyWritersWait` needs `OnePlace` (who moves is in no queue);
and `TypeOK` needs exclusion for `reader[w] - 1`. `IInv` is the conjunction with
one more fact, `KindOK` (a coroutine in a mutex function has a mutex). Queue
operations enter through `WaitFacts`, `WakeFacts` and `BhNextFacts`, changes of
`pc` and `lk` through `GoesFacts` and `HoldersGo`.

`Qcow2Proofs` proves, for any requests, clusters, refcount blocks, cache sizes,
crashes and discards, and any choice of the table that a cache drops
(`Qcow2Assumption`): `RefcountsSurviveCrashes`
(`CrashRefcounts`), `GuestDataSafe` (`GuestData`), `NoCircularDependency` and
`Qcow2Typed`. Each action is a chain of up to ten operators, so the invariant `Good`
is about an image `st` and not about the variable, and there is one lemma per
operator (`...Sound`), then one per action (`...Good`). `Good` has five parts:

- `Sound(q, H, {}, q)`, below, with `H` the clusters that requests have allocated
  and not linked yet;
- `RequestsOk`: two requests never hold the same cluster, and one that allocates has
  an L2 table of its own to link it in;
- `Apart`: no two requests allocate for the same guest cluster (`Conflicts` made
  them wait), so a link never replaces an entry that another request relies on;
- `Transfers`: how far the data of each request have got. A write in place still has
  the cluster it looked up; after `WriteData` the new cluster holds the request's
  sectors, and after `Cow` what the guest saw in the others;
- `Visible`: what the guest reads through the tables in memory is what it wrote last.

`Sound(st, H, L, ref)` is `Valid` (types; the cached tables are dirty or equal to the
file; not both caches wait), `Safe` and `Faithful`. `Safe` is about refcounts:

- `Exclusive`: no cluster has two users, counting every L2 entry in memory or
  possible on the disk;
- `CountsNow`, `CountsOnDisk`: the refcounts suffice in memory, and every one
  possible on the disk suffices for every reference possible on the disk;
- `CountsForL2`: unless the L2 cache waits for the refcounts, those on the disk
  suffice for the references in memory too, and for those to the clusters in `L`,
  which an L2 table is about to refer to;
- `CountsForRb`: unless the refcounts wait for the L2 tables, those in memory
  suffice for all references that the disk may still have;
- `Held`: the clusters in `H` have a refcount and no user.

The last three are what `CrashRefcounts` lacks to be inductive: they say why the
next write-back is harmless, and a flush of one cache lets the other one's
dependency be dropped because the two sides then agree (`NoDependencySound`). A
write-back may go wrong in `l2_allocate` only when the L1 entry is half written;
`L1EntrySurvives` is about that moment. A crash picks one of the possible values of
each place, so what holds for all of them holds for the reopened image
(`ReopenedSound`).

`Faithful` says the same of the guest's data, and is what `GuestData` lacks. `acc` is
what the guest has to accept in a sector after a crash: what was there at its last
flush and what was written since, or anything once the cluster has been discarded
and not flushed.

- `DataOnDisk`: the guest accepts what may be behind every L2 entry that the disk may
  have; unless it is empty or the snapshot's, such an entry is the one in memory, or
  the guest has discarded the cluster;
- `DataNow`: it accepts what is behind the entries in memory;
- `DataForL2`: unless the L2 cache waits for the refcounts or for a flush, it also
  accepts what a crash may leave there, and the clusters of `L` hold on the disk what
  they hold in memory. The dependencies that `OrderLink` sets before the new entry is
  made put a flush of the file between the data and the table (`OrderLinkSound`);
- `SnapshotFiled`, `SnapshotCached`: the clusters and the L2 tables of the snapshot
  are as they were;
- `SameGuest(st, ref)`: the operators on caches and tables leave `acc`, `vis` and the
  data of `ref` alone, so facts about them carry from one end of a chain to the other
  (`CarriesData`).

The invariant turned out to give more than the property once said: what the guest
reads equals what it wrote last also in sectors that a request is just writing, so
`GuestData` now says so.

`DrainLeavesNothing` has the hypothesis `~ DrainInBh`, without which it is false
(run `colock_drain`). `OnePlace` says where a coroutine may be; the theorem needs
the converse, and `StackInv` adds it: `Placed` (a coroutine that exists is on the
stack, doing I/O, woken or queued on its lock), `Suspended` (whoever has entered
another coroutine is draining, and is a job), `Loopers` (whoever is inside
`qemu_co_queue_next_bh` polls) and `OneLoop` (only one poller is, the top of the
stack or the one below it). With no I/O in flight and no bottom half scheduled or
running nobody is woken, so nobody holds a lock, so by `NoLostWakeup` nobody is
queued.

`RamMigrationProofs` proves, for any list of blocks, width of a page, size of the
cache and number of guest writes and attempts (`RamAssumption`): `TypeCorrect`,
`DirtyCountExact` and `StreamSound`; and `NothingForgotten`, `CacheIsDestination`
and `MigrationCorrect` under the hypothesis `NoDupWrites`: XBZRLE is off, or the
guest writes no page of one byte value. Without the hypothesis they are false: such
a page is sent without the cache being told (run `ram_dup`). That `MemoryMigrated`
holds at the end needs that no dirty page escapes the search of `ram_save_block`,
so `IInv` has, besides the properties, `Swept`: what the search has passed since
it started at `last_seen_block` and `last_offset`, in the first round and in the
second, is clean. The others say where `ram_save_block` may be (`Control`), that
the destination is in the block the next record may continue (`SameBlock`), who
uses the cache (`CacheUse`), that a cached page does not turn into one that
bypasses the cache (`Variety`), and `Coherent`, which extends `CacheCoherent` to
the last stage, in which the cache is not updated any more.

`MirrorProofs` proves, for clusters, words of the bitmap and numbers of buffers of
any size, disks of any number of whole target clusters, and any number of guest
writes and errors (`MirrorAssumption`; it excludes a disk that ends inside a target
cluster and a partial last chunk on a target with copy on write, where
`mirror_iteration` also cuts the last cluster short): `TypeCorrect`; `SoundOperations` under the hypothesis
`~ PartialTail`, without which the in-flight bitmap is not exact (run
`mirror_tail`); and `CopyCorrect` without a hypothesis. The heart of `IInv` is
`Data`: a chunk of the target that differs from the source is dirty, will be when
the guest's write in flight completes, or is being copied; and a chunk an operation
has read is still what the source has, or is tracked in the same way. `OpsOK` (no
two operations on one chunk) and `Rounded` and `CowOK` (an operation has all of a
cluster that the target does not have yet) keep a copy from destroying another.
`IterOK` and `IterPast` say where the iterator is. `Advance` and `End` are
recursive functions; that they exist and what they return is shown by taking a
least counterexample (`NatMin`), which needs no induction theorem.

`VirtioNetTxProofs` proves, for rings and indices of any size, any burst limit and
any configuration (`RingAssumption`): `TypeCorrect`, `InterruptNotLost` and
`QuietWhileStopped` (`StoppedDeviceQuiet`); and, each under the weakest hypothesis on the configuration,

- `NothingSentWhileStopped` if a VM with a busy backend is not stopped
  (`NoStopWhileBusy`; run `virtio_stop` shows the assertion fail otherwise);
- `NoBufferLost` if a device with a busy backend is not reset or loaded
  (`NoResetWhileBusy`: `virtio_reset` leaves `async_tx.elem` and `inuse` as they
  are for a driver that starts with all its buffers, `virtio_net_load` starts
  without the packet);
- `PacketNotStranded` if, besides, the burst limit is used only by
  `virtio_net_tx_bh`, which alone continues a burst (`BurstServed`;
  `BurstConfigs` shows the stall otherwise).

`IInv` has six parts. `Typed` has the types; `Custody` says in which places of the
code a handler, the backend or nobody holds a buffer; `Interrupts` says what
`vring_notify` has to compare with, and that a used index the driver has not seen
is either signalled or about to be; `Lifecycle` says what may be pending while the
VM or the driver is stopped. `InOrder` counts slots from `drv.lastUsed`: the used
ring, the device and the available ring follow each other without gaps, and hold
different heads, for any number of turns (`SubAdd` for distances modulo the range,
`SlotAdd` for slots modulo the ring, where the ring has to divide the range).
`Looking` says for each place in which the device stops looking at the queue why
the next kick will not be suppressed, or who comes back.

Every safety property that a passing run checks is stated by a theorem. Only
model-checked: liveness (fairness is out of the prover's reach).

## 7. Not modelled

In the modelled files: failure of `qemu_thread_create`; failure of `cache_init`
in `ram_save_setup`; memory blocks freed for good during a migration; the table
of block lengths that `ram_load` compares; statistics and rate computation;
`qemu_co_queue_wait_insert_head`, which belongs to throttling. Virtio: descriptor
chains and their validation, the receive and control queues, several queues, link
state, vhost, weak memory. Qcow2: lazy refcounts, growth of the L1 and refcount
tables and of refcount blocks, L2 tables that map several guest clusters, requests
that span clusters, compressed and zero clusters, creating and deleting snapshots,
encryption, errors of metadata I/O. Mirror: the rate limit's amounts, sync mode
`none`, a backing file that cannot be opened, the nested event loop of
`block_job_cancel_sync`, the upper levels of the bitmap. Outside these files: the
components with status `not_modelled` in `PROJECT.json`, with the reason or the
planned module of each.
