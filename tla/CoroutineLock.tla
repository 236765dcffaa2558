--------------------------- MODULE CoroutineLock ---------------------------
(***************************************************************************)
(* The coroutine locks of qemu-coroutine-lock.c: CoMutex and CoRwlock,     *)
(* built on CoQueue and on one global queue of woken coroutines that a     *)
(* bottom half, unlock_bh, empties.                                        *)
(*                                                                         *)
(* Coroutines are cooperative: whatever holds the global mutex is one call *)
(* stack, and only its top runs.  The stack holds the coroutines that have *)
(* been entered; below them is the main loop.  A poller (the main loop, or *)
(* a coroutine inside bdrv_drain_all, which calls qemu_aio_wait) enters    *)
(* coroutines whose I/O has completed and runs unlock_bh.  "looping" is    *)
(* the set of pollers inside qemu_co_queue_next_bh: the loop of a poller   *)
(* goes on when the coroutine it has entered yields or terminates.         *)
(*                                                                         *)
(* A coroutine holds at most one lock at a time, as the block drivers and  *)
(* 9pfs do, and drops it before it terminates or drains.                   *)
(***************************************************************************)
EXTENDS Integers, FiniteSets, Sequences, SequencesExt

CONSTANTS
    Coroutines,
    Mutexes, Rwlocks,
    Drainers,         \* coroutines (block jobs) that call bdrv_drain_all
    MainLoop,         \* the poller below all coroutines
    NoLock,
    DrainInBh         \* may a coroutine that unlock_bh has entered drain?

ASSUME LockAssumption ==
    /\ IsFiniteSet(Coroutines)
    /\ Drainers \subseteq Coroutines
    /\ Mutexes \cap Rwlocks = {}
    /\ NoLock \notin Mutexes \cup Rwlocks
    /\ MainLoop \notin Coroutines
    /\ DrainInBh \in BOOLEAN

VARIABLES
    unlock_bh_queue,  \* woken coroutines, oldest first
    scheduled,        \* unlock_bh is scheduled
    queue,            \* queue[l]: the CoQueue of lock l, oldest first
    locked,           \* locked[m] of a CoMutex
    writer, reader,   \* writer[w] and reader[w] of a CoRwlock
    stack,            \* entered coroutines, the running one last
    looping,          \* pollers inside qemu_co_queue_next_bh
    inflight,         \* coroutines that have yielded for I/O
    pc,               \* pc[c]: where coroutine c is
    lk                \* lk[c]: the lock it wants or holds

bhVars == <<unlock_bh_queue, scheduled>>
lockVars == <<queue, locked, writer, reader>>
callVars == <<stack, looping, inflight>>
coVars == <<pc, lk>>
vars == <<bhVars, lockVars, callVars, coVars>>

Locks == Mutexes \cup Rwlocks
Pollers == Coroutines \cup {MainLoop}
Wanting == {"lock", "rdlock", "wrlock"}
Holding == {"locked", "rdlocked", "wrlocked"}

Top == IF stack = <<>> THEN MainLoop ELSE Last(stack)
Running(c) == stack # <<>> /\ Last(stack) = c
\* The top of the stack is in aio_poll, and not inside the bottom half.
AtPoll == (stack # <<>> => pc[Top] = "drain") /\ Top \notin looping

\* pc[c] and lk[c] become p and l.
Goes(c, p, l) == pc' = [pc EXCEPT ![c] = p] /\ lk' = [lk EXCEPT ![c] = l]

Init ==
    /\ unlock_bh_queue = <<>> /\ scheduled = FALSE
    /\ queue = [l \in Locks |-> <<>>]
    /\ locked = [m \in Mutexes |-> FALSE]
    /\ writer = [w \in Rwlocks |-> FALSE]
    /\ reader = [w \in Rwlocks |-> 0]
    /\ stack = <<>> /\ looping = {} /\ inflight = {}
    /\ pc = [c \in Coroutines |-> "none"]
    /\ lk = [c \in Coroutines |-> NoLock]

-----------------------------------------------------------------------------
(* CoQueue.                                                                *)

\* Mutant of Enqueue: the coroutine is inserted at the head.
EnqueueHead(q, c) == <<c>> \o q

\* QTAILQ_INSERT_TAIL in qemu_co_queue_wait
Enqueue(q, c) == Append(q, c)

\* qemu_co_queue_wait: the coroutine queues itself and yields to its caller;
\* it continues at the test of the lock function that has called it.
CoQueueWait(c, l) ==
    /\ queue' = [queue EXCEPT ![l] = Enqueue(@, c)]
    /\ stack' = Front(stack)

\* Mutant of BhSchedule: the bottom half is not scheduled.
BhScheduleForgotten == scheduled' = scheduled

\* qemu_bh_schedule(unlock_bh)
BhSchedule == scheduled' = TRUE

\* Mutant of Rest: the woken coroutine stays in the queue.
RestAll(q) == q

\* QTAILQ_REMOVE of the first entry in qemu_co_queue_next
Rest(q) == Tail(q)

\* qemu_co_queue_next: the first waiter, if there is one, is woken.
CoQueueNext(l) ==
    \/ queue[l] = <<>> /\ UNCHANGED <<queue, bhVars>>
    \/ /\ queue[l] # <<>>
       /\ queue' = [queue EXCEPT ![l] = Rest(@)]
       /\ unlock_bh_queue' = Append(unlock_bh_queue, Head(queue[l]))
       /\ BhSchedule

\* Mutant of CoQueueRestartAll: only the first waiter is woken.
CoQueueRestartOne(l) == CoQueueNext(l)

\* qemu_co_queue_restart_all: qemu_co_queue_next until the queue is empty.
CoQueueRestartAll(l) ==
    \/ queue[l] = <<>> /\ UNCHANGED <<queue, bhVars>>
    \/ /\ queue[l] # <<>>
       /\ queue' = [queue EXCEPT ![l] = <<>>]
       /\ unlock_bh_queue' = unlock_bh_queue \o queue[l]
       /\ BhSchedule

-----------------------------------------------------------------------------
(* The event loop.                                                         *)

\* A poller runs unlock_bh: aio_bh_poll clears scheduled and calls
\* qemu_co_queue_next_bh.
BhRun ==
    /\ AtPoll
    /\ scheduled /\ scheduled' = FALSE
    /\ looping' = looping \cup {Top}
    /\ UNCHANGED <<unlock_bh_queue, lockVars, stack, inflight, coVars>>

\* Mutant of BhNext: the bottom half enters one coroutine and returns.
BhNextOnce ==
    /\ Top \in looping /\ looping' = looping \ {Top}
    /\ unlock_bh_queue # <<>> /\ unlock_bh_queue' = Tail(unlock_bh_queue)
    /\ stack' = Append(stack, Head(unlock_bh_queue))
    /\ UNCHANGED <<scheduled, lockVars, inflight, coVars>>

\* One iteration of qemu_co_queue_next_bh: the next coroutine is entered.
BhNext ==
    /\ Top \in looping
    /\ unlock_bh_queue # <<>> /\ unlock_bh_queue' = Tail(unlock_bh_queue)
    /\ stack' = Append(stack, Head(unlock_bh_queue))
    /\ UNCHANGED <<scheduled, lockVars, looping, inflight, coVars>>

\* The queue is empty: the bottom half returns.
BhReturn ==
    /\ Top \in looping /\ looping' = looping \ {Top}
    /\ unlock_bh_queue = <<>>
    /\ UNCHANGED <<bhVars, lockVars, stack, inflight, coVars>>

\* A poller handles a new request: a coroutine is created and entered.
Start(c) ==
    /\ AtPoll
    /\ pc[c] = "none" /\ Goes(c, "ready", NoLock)
    /\ stack' = Append(stack, c)
    /\ UNCHANGED <<bhVars, lockVars, looping, inflight>>

\* The I/O of a coroutine has completed and the completion handler enters it.
AioDone(c) ==
    /\ AtPoll
    /\ c \in inflight /\ inflight' = inflight \ {c}
    /\ stack' = Append(stack, c)
    /\ UNCHANGED <<bhVars, lockVars, looping, coVars>>

-----------------------------------------------------------------------------
(* The running coroutine.                                                  *)

\* c calls the lock function p on lock l, or has been woken inside it.
Locking(c, p, l) ==
    /\ Running(c)
    /\ pc[c] = "ready" \/ (pc[c] = p /\ lk[c] = l)

\* Mutant of MutexBusy: "if" for "while", a woken coroutine does not look again.
MutexBusyOnce(c, m) == locked[m] /\ pc[c] = "ready"

\* The loop condition of qemu_co_mutex_lock.
MutexBusy(c, m) == locked[m]

\* qemu_co_mutex_lock
MutexLock(c, m) ==
    /\ Locking(c, "lock", m)
    /\ \/ /\ MutexBusy(c, m)
          /\ CoQueueWait(c, m)
          /\ Goes(c, "lock", m)
          /\ UNCHANGED locked
       \/ /\ ~ MutexBusy(c, m)
          /\ locked' = [locked EXCEPT ![m] = TRUE]
          /\ Goes(c, "locked", m)
          /\ UNCHANGED <<queue, stack>>
    /\ UNCHANGED <<bhVars, writer, reader, looping, inflight>>

\* qemu_co_mutex_unlock
MutexUnlock(c) ==
    /\ Running(c)
    /\ pc[c] = "locked" /\ Goes(c, "ready", NoLock)
    /\ locked' = [locked EXCEPT ![lk[c]] = FALSE]
    /\ CoQueueNext(lk[c])
    /\ UNCHANGED <<writer, reader, callVars>>

\* Mutant of OneMore: the readers are not counted.
OneMoreAsFlag(n) == 1

\* lock->reader++
OneMore(n) == n + 1

\* qemu_co_rwlock_rdlock
RwlockRdlock(c, w) ==
    /\ Locking(c, "rdlock", w)
    /\ \/ /\ writer[w]
          /\ CoQueueWait(c, w)
          /\ Goes(c, "rdlock", w)
          /\ UNCHANGED reader
       \/ /\ ~ writer[w]
          /\ reader' = [reader EXCEPT ![w] = OneMore(@)]
          /\ Goes(c, "rdlocked", w)
          /\ UNCHANGED <<queue, stack>>
    /\ UNCHANGED <<bhVars, locked, writer, looping, inflight>>

\* The loop condition of qemu_co_rwlock_wrlock.
WriterMustWait(w) == writer[w] \/ reader[w] # 0

\* qemu_co_rwlock_wrlock
RwlockWrlock(c, w) ==
    /\ Locking(c, "wrlock", w)
    /\ \/ /\ WriterMustWait(w)
          /\ CoQueueWait(c, w)
          /\ Goes(c, "wrlock", w)
          /\ UNCHANGED writer
       \/ /\ ~ WriterMustWait(w)
          /\ writer' = [writer EXCEPT ![w] = TRUE]
          /\ Goes(c, "wrlocked", w)
          /\ UNCHANGED <<queue, stack>>
    /\ UNCHANGED <<bhVars, locked, reader, looping, inflight>>

\* Mutant of LastReader: the count is looked at before it is decremented.
LastReaderStale(w) == reader[w] = 0

\* The reader that unlocks is the last one: the count is zero after it.
LastReader(w) == reader[w] - 1 = 0

\* qemu_co_rwlock_unlock by a writer ...
RwlockUnlockWriter(c) ==
    /\ Running(c)
    /\ pc[c] \in {"rdlocked", "wrlocked"} /\ Goes(c, "ready", NoLock)
    /\ writer[lk[c]]
    /\ writer' = [writer EXCEPT ![lk[c]] = FALSE]
    /\ CoQueueRestartAll(lk[c])
    /\ UNCHANGED <<locked, reader, callVars>>

\* ... and by a reader.
RwlockUnlockReader(c) ==
    /\ Running(c)
    /\ pc[c] \in {"rdlocked", "wrlocked"} /\ Goes(c, "ready", NoLock)
    /\ ~ writer[lk[c]]
    /\ reader' = [reader EXCEPT ![lk[c]] = @ - 1]
    /\ \/ LastReader(lk[c]) /\ CoQueueNext(lk[c])
       \/ ~ LastReader(lk[c]) /\ UNCHANGED <<queue, bhVars>>
    /\ UNCHANGED <<locked, writer, callVars>>

\* The coroutine starts I/O and yields, with or without a lock.
AioYield(c) ==
    /\ Running(c)
    /\ pc[c] \in {"ready"} \cup Holding
    /\ inflight' = inflight \cup {c}
    /\ stack' = Front(stack)
    /\ UNCHANGED <<bhVars, lockVars, looping, coVars>>

\* The request is complete and the coroutine terminates.
Terminate(c) ==
    /\ Running(c)
    /\ pc[c] = "ready" /\ Goes(c, "none", NoLock)
    /\ stack' = Front(stack)
    /\ UNCHANGED <<bhVars, lockVars, looping, inflight>>

\* A block job calls bdrv_drain_all, which polls.
DrainAll(c) ==
    /\ Running(c) /\ c \in Drainers
    /\ DrainInBh \/ looping = {}
    /\ pc[c] = "ready" /\ Goes(c, "drain", NoLock)
    /\ UNCHANGED <<bhVars, lockVars, callVars>>

\* qemu_aio_wait finds neither a bottom half to run nor I/O to wait for.
Drained(c) ==
    /\ Running(c) /\ pc[c] = "drain" /\ c \notin looping
    /\ ~ scheduled /\ inflight = {}

\* bdrv_drain_all returns.
DrainReturn(c) ==
    /\ Drained(c)
    /\ Goes(c, "ready", NoLock)
    /\ UNCHANGED <<bhVars, lockVars, callVars>>

Unlock(c) == MutexUnlock(c) \/ RwlockUnlockWriter(c) \/ RwlockUnlockReader(c)

Coroutine(c) ==
    \/ \E m \in Mutexes : MutexLock(c, m)
    \/ \E w \in Rwlocks : RwlockRdlock(c, w) \/ RwlockWrlock(c, w)
    \/ Unlock(c)
    \/ AioYield(c) \/ Terminate(c) \/ DrainAll(c) \/ DrainReturn(c)

Next ==
    \/ BhRun \/ BhNext \/ BhReturn
    \/ \E c \in Coroutines : Start(c) \/ AioDone(c) \/ Coroutine(c)

Spec == Init /\ [][Next]_vars

\* Fairness.  The running coroutine goes on running, a bottom half that has
\* been entered goes on, I/O completes, a poller that comes back to its loop
\* again and again runs the scheduled bottom half, a coroutine that holds a
\* lock unlocks it after finitely many I/O requests, and a request ends after
\* finitely many locks.  Nobody has to start a request, lock or drain, and
\* there is no fairness between the coroutines that compete for a lock.
Fairness ==
    /\ WF_vars(BhNext) /\ WF_vars(BhReturn)
    /\ SF_vars(BhRun)
    /\ \A c \in Coroutines :
        /\ WF_vars(Coroutine(c))
        /\ SF_vars(AioDone(c))
        /\ SF_vars(Unlock(c))
        /\ SF_vars(Terminate(c))

FairSpec == Spec /\ Fairness

-----------------------------------------------------------------------------
(* Properties.                                                             *)

\* The types of the variables; a reader count is never negative, which
\* qemu_co_rwlock_unlock asserts.
TypeOK ==
    /\ unlock_bh_queue \in Seq(Coroutines) /\ scheduled \in BOOLEAN
    /\ queue \in [Locks -> Seq(Coroutines)]
    /\ locked \in [Mutexes -> BOOLEAN]
    /\ writer \in [Rwlocks -> BOOLEAN]
    /\ reader \in [Rwlocks -> Nat]
    /\ stack \in Seq(Coroutines)
    /\ looping \subseteq Pollers
    /\ inflight \subseteq Coroutines
    /\ pc \in [Coroutines -> {"none", "ready", "drain"} \cup Wanting \cup Holding]
    /\ lk \in [Coroutines -> Locks \cup {NoLock}]

Holders(p, l) == {c \in Coroutines : pc[c] = p /\ lk[c] = l}

\* The locks exclude what they have to: a mutex has one holder and is locked
\* exactly while it has one, a writer is alone, reader counts the readers;
\* although an unlocked lock is up for grabs before the coroutine that was
\* woken for it runs.
MutualExclusion ==
    /\ \A m \in Mutexes :
        /\ locked[m] <=> Holders("locked", m) # {}
        /\ \A c, d \in Holders("locked", m) : c = d
    /\ \A w \in Rwlocks :
        /\ writer[w] <=> Holders("wrlocked", w) # {}
        /\ \A c, d \in Holders("wrlocked", w) : c = d
        /\ reader[w] = Cardinality(Holders("rdlocked", w))
        /\ writer[w] => reader[w] = 0

\* A coroutine is in one place at a time: on the call stack, in the CoQueue of
\* the lock it wants, woken, or doing I/O; a coroutine waits in one CoQueue
\* through its one link co_queue_next, and is never entered while it is
\* already entered ("Co-routine re-entered recursively").
OnePlace ==
    /\ IsInjective(unlock_bh_queue) /\ IsInjective(stack)
    /\ \A l \in Locks :
        /\ IsInjective(queue[l])
        /\ \A c \in ToSet(queue[l]) :
            /\ pc[c] \in Wanting /\ lk[c] = l
            /\ c \notin ToSet(unlock_bh_queue) \cup ToSet(stack) \cup inflight
    /\ \A c \in ToSet(unlock_bh_queue) :
        pc[c] \in Wanting /\ c \notin ToSet(stack) \cup inflight
    /\ \A c \in ToSet(stack) : pc[c] # "none" /\ c \notin inflight
    /\ \A c \in inflight : pc[c] \in {"ready"} \cup Holding

\* A coroutine that waits has somebody who will wake it: if it is queued, the
\* lock is held, or another coroutine has been woken for the lock and has not
\* run yet; if it has been woken, unlock_bh is scheduled or running.
NoLostWakeup ==
    /\ \A l \in Locks :
        queue[l] # <<>> =>
            \/ \E c \in Coroutines : pc[c] \in Holding /\ lk[c] = l
            \/ \E c \in ToSet(unlock_bh_queue) \cup ToSet(stack) :
                pc[c] \in Wanting /\ lk[c] = l
    /\ unlock_bh_queue # <<>> => scheduled \/ looping # {}

\* "Wakeup only one waiting writer": when the last reader unlocks, the first
\* coroutine in the queue is a writer, because only writers wait for readers.
OnlyWritersWait ==
    \A w \in Rwlocks :
        ~ writer[w] => \A c \in ToSet(queue[w]) : pc[c] = "wrlock"

\* "If requests are still pending there is a bug somewhere": when qemu_aio_wait
\* tells bdrv_drain_all that there is nothing left to wait for, no request is.
DrainComplete ==
    \A c \in Coroutines :
        Drained(c) => \A d \in Coroutines \ Drainers : pc[d] = "none"

\* A woken coroutine runs.
WokenRuns ==
    \A c \in Coroutines :
        (c \in ToSet(unlock_bh_queue)) ~> (c \notin ToSet(unlock_bh_queue))

\* Whoever waits for a mutex, or as a reader, is woken: waiters are served in
\* order, so new requests that take the lock first delay it, but not for ever.
\* (A writer can wait for ever while readers come and go.)
WaiterWoken ==
    \A c \in Coroutines, l \in Locks :
        (c \in ToSet(queue[l]) /\ pc[c] \in {"lock", "rdlock"})
            ~> (c \notin ToSet(queue[l]))
=============================================================================
