----------------------------- MODULE ThreadPool -----------------------------
(***************************************************************************)
(* The worker-thread pool of the block layer (thread-pool.c): requests are *)
(* submitted and cancelled by code that holds the global mutex, executed   *)
(* by detached worker threads, and completed by an event notifier handler  *)
(* that runs in the AIO context of the main loop (or of a nested           *)
(* qemu_aio_wait).                                                         *)
(*                                                                         *)
(* Everything that runs under the global mutex is ONE actor, the main one  *)
(* (program counter mpc); each worker t has the program counter wpc[t].  A *)
(* critical section of the pool's lock is one action; what the code does   *)
(* outside the lock (posting and waiting for the semaphore, running func,  *)
(* writing ret, writing state, reading state in the notifier handler) is   *)
(* an action of its own.  An element is named by a member of Reqs; once    *)
(* released (state "free") it may be allocated again.                      *)
(***************************************************************************)
EXTENDS Naturals, FiniteSets, Sequences, SequencesExt

CONSTANTS
    Threads,          \* identities of worker threads, reused after they exit
    Reqs,             \* identities of ThreadPoolElements
    Results,          \* what func may return
    Garbage,          \* what unallocated or uninitialised memory holds
    NoReq,            \* no element
    MaxThreads,       \* max_threads
    MaxDepth,         \* bound: callbacks running inside one another
    CallbackMayPoll   \* may a completion callback call qemu_aio_wait?

ASSUME PoolAssumption ==
    /\ IsFiniteSet(Threads)
    /\ MaxThreads \in Nat \ {0}
    /\ MaxThreads <= Cardinality(Threads)
    /\ MaxDepth \in Nat \ {0}
    /\ CallbackMayPoll \in BOOLEAN
    /\ NoReq \notin Reqs
    /\ Garbage \notin Results

VARIABLES
    head,             \* all elements, newest first; under the global mutex
    request_list,     \* queued elements, oldest first
    state,            \* state[r]: the enum ThreadState, or "free"
    ret,              \* ret[r]: result, garbage until func has returned
    cb,               \* cb[r]: does the element have a completion callback?
    sem,              \* count of the semaphore
    notifier,         \* the event notifier is set
    bh,               \* new_thread_bh is scheduled
    cur_threads, idle_threads, new_threads, pending_threads,
    wpc,              \* wpc[t]: where worker t is
    job,              \* job[t]: the element worker t works on
    mpc,              \* where the main actor is
    walk,             \* elements event_notifier_ready still has to visit
    completing,       \* stack of elements whose callback is running
    pending_cancellations,
    target,           \* the element thread_pool_cancel waits for
    woken             \* check_cancel was broadcast since the wait began

elemVars == <<state, ret, cb>>
lists == <<head, request_list>>
signals == <<sem, notifier, bh>>
counters == <<cur_threads, idle_threads, new_threads, pending_threads>>
workerVars == <<wpc, job>>
mainVars == <<mpc, walk, completing>>
cancelVars == <<pending_cancellations, target, woken>>
vars == <<elemVars, lists, signals, counters, workerVars, mainVars, cancelVars>>

WorkerPCs == {"none", "created", "waiting", "gotsem", "timedout",
              "running", "ret", "done"}

Finished(r) == state[r] \in {"done", "canceled"}
Workers(pcs) == {t \in Threads : wpc[t] \in pcs}
Alive == Workers(WorkerPCs \ {"none"})
WorkerGoes(t, from, to) == wpc[t] = from /\ wpc' = [wpc EXCEPT ![t] = to]

\* Mutant of Unlink: the element is not taken off the list.
UnlinkForgotten(s, e) == s

\* QLIST_REMOVE and QTAILQ_REMOVE
Unlink(s, e) == RemoveAt(s, CHOOSE i \in DOMAIN s : s[i] = e)

\* qemu_aio_release: the element's memory is given back.
AioRelease(elem) ==
    /\ state' = [state EXCEPT ![elem] = "free"]
    /\ ret' = [ret EXCEPT ![elem] = Garbage]
    /\ cb' = [cb EXCEPT ![elem] = FALSE]

\* thread_pool_init, and the static initialisers of the counters.
Init ==
    /\ head = <<>> /\ request_list = <<>>
    /\ state = [r \in Reqs |-> "free"]
    /\ ret = [r \in Reqs |-> Garbage]
    /\ cb = [r \in Reqs |-> FALSE]
    /\ sem = 0 /\ notifier = FALSE /\ bh = FALSE
    /\ cur_threads = 0 /\ idle_threads = 0
    /\ new_threads = 0 /\ pending_threads = 0
    /\ wpc = [t \in Threads |-> "none"]
    /\ job = [t \in Threads |-> NoReq]
    /\ mpc = "app" /\ walk = <<>> /\ completing = <<>>
    /\ pending_cancellations = 0 /\ target = NoReq /\ woken = FALSE

-----------------------------------------------------------------------------
(* Creating threads.                                                       *)

\* do_spawn_thread, for a caller that has already brought the program counters
\* to w and pending_threads to p: creates one thread of the backlog.
DoSpawnThread(w, p) ==
    \/ /\ new_threads = 0
       /\ wpc' = w /\ pending_threads' = p
       /\ UNCHANGED new_threads
    \/ /\ new_threads > 0
       /\ \E t \in Threads : w[t] = "none" /\ wpc' = [w EXCEPT ![t] = "created"]
       /\ pending_threads' = p + 1
       /\ new_threads' = new_threads - 1

\* Mutant of SpawnThread: only the first thread is asked for.
SpawnThreadOnce ==
    /\ cur_threads' = cur_threads + 1
    /\ new_threads' = new_threads + 1
    /\ bh' = (bh \/ cur_threads = 0)

\* spawn_thread: extends the backlog; the bottom half creates the first thread,
\* a thread that is being created creates the next.
SpawnThread ==
    /\ cur_threads' = cur_threads + 1
    /\ new_threads' = new_threads + 1
    /\ bh' = (bh \/ pending_threads = 0)

\* Mutant of MayGrow: the limit is off by one.
MayGrowOffByOne == idle_threads = 0 /\ cur_threads <= MaxThreads

\* When a submission needs one more thread.
MayGrow == idle_threads = 0 /\ cur_threads < MaxThreads

-----------------------------------------------------------------------------
(* Worker threads: worker_thread.                                          *)

\* First critical section: account for the start, create the next thread, go
\* idle.
WorkerStart(t) ==
    /\ wpc[t] = "created"
    /\ DoSpawnThread([wpc EXCEPT ![t] = "waiting"], pending_threads - 1)
    /\ idle_threads' = idle_threads + 1
    /\ UNCHANGED <<elemVars, lists, signals, cur_threads, job, mainVars, cancelVars>>

\* qemu_sem_timedwait succeeds.
WorkerSemWait(t) ==
    /\ WorkerGoes(t, "waiting", "gotsem")
    /\ sem > 0 /\ sem' = sem - 1
    /\ UNCHANGED <<elemVars, lists, notifier, bh, counters, job, mainVars, cancelVars>>

\* qemu_sem_timedwait gives up after ten seconds.  A token may be posted
\* before the thread gets the lock.
WorkerTimeout(t) ==
    /\ WorkerGoes(t, "waiting", "timedout")
    /\ UNCHANGED <<elemVars, lists, signals, counters, job, mainVars, cancelVars>>

\* Mutant of WorkLeft: the list is not looked at again after a timeout.
WorkLeftIgnored == FALSE

\* The loop condition of a thread that timed out.
WorkLeft == request_list # <<>>

\* After the timeout the thread takes the lock: with work in the list it
\* waits again, otherwise it exits.
WorkerTimedOut(t) ==
    /\ \/ /\ WorkLeft
          /\ WorkerGoes(t, "timedout", "waiting")
          /\ UNCHANGED <<idle_threads, cur_threads>>
       \/ /\ ~ WorkLeft
          /\ WorkerGoes(t, "timedout", "none")
          /\ idle_threads' = idle_threads - 1
          /\ cur_threads' = cur_threads - 1
    /\ UNCHANGED <<elemVars, lists, signals, new_threads, pending_threads, job,
                   mainVars, cancelVars>>

\* The thread owns a token: it takes the first request.  With an empty list
\* the code would dereference NULL; TokensMatch rules that out.
WorkerTake(t) ==
    /\ WorkerGoes(t, "gotsem", "running")
    /\ request_list # <<>>
    /\ idle_threads' = idle_threads - 1
    /\ job' = [job EXCEPT ![t] = Head(request_list)]
    /\ request_list' = Tail(request_list)
    /\ state' = [state EXCEPT ![Head(request_list)] = "active"]
    /\ UNCHANGED <<ret, cb, head, signals, cur_threads, new_threads,
                   pending_threads, mainVars, cancelVars>>

\* Mutant of WorkerFunc: state is published before ret is written.
WorkerFuncEarlyState(t) ==
    /\ WorkerGoes(t, "running", "ret")
    /\ state' = [state EXCEPT ![job[t]] = "done"]
    /\ UNCHANGED <<ret, cb, lists, signals, counters, job, mainVars, cancelVars>>

\* func returns and its result is written to ret ...
WorkerFunc(t) ==
    /\ WorkerGoes(t, "running", "ret")
    /\ \E v \in Results : ret' = [ret EXCEPT ![job[t]] = v]
    /\ UNCHANGED <<state, cb, lists, signals, counters, job, mainVars, cancelVars>>

\* ... and only then, after a write barrier and without the lock, state.
WorkerDone(t) ==
    /\ WorkerGoes(t, "ret", "done")
    /\ state' = [state EXCEPT ![job[t]] = "done"]
    /\ UNCHANGED <<ret, cb, lists, signals, counters, job, mainVars, cancelVars>>

\* Mutant of CancelIsPending: off by one.
CancelIsPendingOffByOne == pending_cancellations > 1

\* Whether the worker has to broadcast check_cancel.
CancelIsPending == pending_cancellations > 0

\* The critical section after the request: wake a canceller, set the notifier,
\* go idle.  The element may have been released by now: the worker does not
\* touch it again.
WorkerNotify(t) ==
    /\ WorkerGoes(t, "done", "waiting")
    /\ woken' = (woken \/ CancelIsPending)
    /\ notifier' = TRUE
    /\ idle_threads' = idle_threads + 1
    /\ job' = [job EXCEPT ![t] = NoReq]
    /\ UNCHANGED <<elemVars, lists, sem, bh, cur_threads, new_threads,
                   pending_threads, mainVars, pending_cancellations, target>>

Worker(t) ==
    \/ WorkerStart(t) \/ WorkerSemWait(t) \/ WorkerTimeout(t)
    \/ WorkerTimedOut(t) \/ WorkerTake(t) \/ WorkerFunc(t)
    \/ WorkerDone(t) \/ WorkerNotify(t)

-----------------------------------------------------------------------------
(* The main actor: submission and cancellation.                            *)

\* thread_pool_submit_aio up to the end of its critical section.  Callers
\* without a callback come through thread_pool_submit.
Submit(r, c) ==
    /\ mpc = "app" /\ mpc' = "post"
    /\ state[r] = "free"
    /\ state' = [state EXCEPT ![r] = "queued"]
    /\ cb' = [cb EXCEPT ![r] = c]
    /\ head' = <<r>> \o head
    /\ request_list' = Append(request_list, r)
    /\ \/ MayGrow /\ SpawnThread
       \/ ~ MayGrow /\ UNCHANGED <<cur_threads, new_threads, bh>>
    /\ UNCHANGED <<ret, sem, notifier, idle_threads, pending_threads,
                   workerVars, walk, completing, cancelVars>>

\* Mutant of SubmitPost: no token is posted while no thread is idle.
SubmitPostIdle ==
    /\ mpc = "post" /\ mpc' = "app"
    /\ sem' = IF idle_threads > 0 THEN sem + 1 ELSE sem
    /\ UNCHANGED <<elemVars, lists, notifier, bh, counters, workerVars, walk,
                   completing, cancelVars>>

\* qemu_sem_post, after the lock was dropped.
SubmitPost ==
    /\ mpc = "post" /\ mpc' = "app"
    /\ sem' = sem + 1
    /\ UNCHANGED <<elemVars, lists, notifier, bh, counters, workerVars, walk,
                   completing, cancelVars>>

\* Mutant of Stealable: the semaphore is decremented without looking at it.
StealableBlindly(r) == state[r] = "queued"

\* No worker has claimed a token for the queued request: qemu_sem_timedwait
\* with a timeout of zero succeeds.
Stealable(r) == state[r] = "queued" /\ sem > 0

\* thread_pool_cancel steals a queued request together with a token.
CancelSteal(r) ==
    /\ mpc = "app"
    /\ r \in ToSet(head)
    /\ Stealable(r)
    /\ sem' = sem - 1
    /\ request_list' = Unlink(request_list, r)
    /\ state' = [state EXCEPT ![r] = "canceled"]
    /\ notifier' = TRUE
    /\ UNCHANGED <<ret, cb, head, bh, counters, workerVars, mainVars, cancelVars>>

\* Otherwise it waits for the request to finish.  (With a finished request the
\* call returns at once and leaves everything as it was: no action.)
CancelBlock(r) ==
    /\ mpc = "app" /\ mpc' = "cancelwait"
    /\ r \in ToSet(head)
    /\ ~ Stealable(r) /\ ~ Finished(r)
    /\ pending_cancellations' = pending_cancellations + 1
    /\ target' = r
    /\ woken' = FALSE
    /\ UNCHANGED <<elemVars, lists, signals, counters, workerVars, walk, completing>>

\* qemu_cond_wait returns, after a broadcast or spuriously, and the loop
\* condition is tested again.
CancelWake ==
    /\ mpc = "cancelwait"
    /\ woken' = FALSE
    /\ \/ /\ Finished(target)
          /\ pending_cancellations' = pending_cancellations - 1
          /\ mpc' = "app"
          /\ target' = NoReq
       \/ /\ ~ Finished(target)
          /\ UNCHANGED <<pending_cancellations, mpc, target>>
    /\ UNCHANGED <<elemVars, lists, signals, counters, workerVars, walk, completing>>

-----------------------------------------------------------------------------
(* The main actor: event loop, bottom half and completion.                 *)

\* A caller of qemu_aio_wait enters aio_poll; inside a callback this nests.
AioWait ==
    /\ mpc = "app" /\ mpc' = "wait"
    /\ completing = <<>> \/ (CallbackMayPoll /\ Len(completing) < MaxDepth)
    /\ UNCHANGED <<elemVars, lists, signals, counters, workerVars, walk,
                   completing, cancelVars>>

\* At its top level the main loop polls everything by itself.
InMainLoop == mpc = "app" /\ completing = <<>>

\* spawn_thread_bh_fn, run by the main loop or by aio_poll, which then
\* returns without waiting.
SpawnThreadBH ==
    /\ InMainLoop \/ mpc = "wait"
    /\ mpc' = "app"
    /\ bh /\ bh' = FALSE
    /\ DoSpawnThread(wpc, pending_threads)
    /\ UNCHANGED <<elemVars, lists, sem, notifier, cur_threads, idle_threads,
                   job, walk, completing, cancelVars>>

\* aio_poll finds no bottom half to run and, by thread_pool_active, no request
\* to wait for.
AioWaitIdle ==
    /\ mpc = "wait" /\ mpc' = "app"
    /\ ~ bh /\ head = <<>>
    /\ UNCHANGED <<elemVars, lists, signals, counters, workerVars, walk,
                   completing, cancelVars>>

\* The notifier fires: event_notifier_ready clears it and starts at the head
\* of the list.
NotifierReady ==
    /\ InMainLoop \/ (mpc = "wait" /\ ~ bh /\ head # <<>>)
    /\ mpc' = "walk"
    /\ notifier /\ notifier' = FALSE
    /\ walk' = head
    /\ UNCHANGED <<elemVars, lists, sem, bh, counters, workerVars, completing,
                   cancelVars>>

\* An unfinished element is passed over.
WalkSkip ==
    /\ mpc = "walk" /\ walk # <<>>
    /\ ~ Finished(Head(walk))
    /\ walk' = Tail(walk)
    /\ UNCHANGED <<elemVars, lists, signals, counters, workerVars, mpc,
                   completing, cancelVars>>

HasCallback(elem) == state[elem] = "done" /\ cb[elem]

\* A finished element with a callback leaves the list and its callback starts.
WalkCallback ==
    /\ mpc = "walk" /\ mpc' = "app"
    /\ walk # <<>> /\ walk' = <<>>
    /\ HasCallback(Head(walk))
    /\ head' = Unlink(head, Head(walk))
    /\ completing' = Append(completing, Head(walk))
    /\ UNCHANGED <<elemVars, request_list, signals, counters, workerVars, cancelVars>>

\* A cancelled element, or one without a callback, is just released.
WalkRelease ==
    /\ mpc = "walk" /\ walk # <<>>
    /\ Finished(Head(walk)) /\ ~ HasCallback(Head(walk))
    /\ head' = Unlink(head, Head(walk))
    /\ AioRelease(Head(walk))
    /\ walk' = Tail(walk)
    /\ UNCHANGED <<request_list, signals, counters, workerVars, mpc, completing,
                   cancelVars>>

\* The callback returns: the element is released and the walk restarts, for
\* the callback may have changed the list.
CallbackReturn ==
    /\ mpc = "app" /\ mpc' = "walk"
    /\ completing # <<>> /\ completing' = Front(completing)
    /\ AioRelease(Last(completing))
    /\ walk' = head
    /\ UNCHANGED <<lists, signals, counters, workerVars, cancelVars>>

\* Mutant of WalkEnd: the notifier is cleared after the walk, too.
WalkEndClear ==
    /\ mpc = "walk" /\ mpc' = "app"
    /\ walk = <<>>
    /\ notifier' = FALSE
    /\ UNCHANGED <<elemVars, lists, sem, bh, counters, workerVars, walk,
                   completing, cancelVars>>

\* The walk is over: back to the main loop or to the caller of qemu_aio_wait.
WalkEnd ==
    /\ mpc = "walk" /\ mpc' = "app"
    /\ walk = <<>>
    /\ UNCHANGED <<elemVars, lists, signals, counters, workerVars, walk,
                   completing, cancelVars>>

Main ==
    \/ \E r \in Reqs, c \in BOOLEAN : Submit(r, c)
    \/ SubmitPost
    \/ \E r \in Reqs : CancelSteal(r) \/ CancelBlock(r)
    \/ CancelWake
    \/ AioWait \/ SpawnThreadBH \/ AioWaitIdle
    \/ NotifierReady \/ WalkSkip \/ WalkCallback \/ WalkRelease
    \/ CallbackReturn \/ WalkEnd

Next == Main \/ \E t \in Threads : Worker(t)

Spec == Init /\ [][Next]_vars

\* Fairness.  Runnable threads run, func returns, callbacks return, and a
\* waiting worker is not overtaken by its own timeout for ever: each
\* sem_timedwait takes a token that is there when it is called, so some waiter
\* gets it.  Every iteration of the main loop runs the scheduled bottom halves
\* and the handlers that are ready, whatever the code between two iterations
\* submits or cancels.  Nobody has to submit, cancel or wait, and no timeout
\* has to fire.
Fairness ==
    /\ \A t \in Threads :
        /\ WF_vars(WorkerStart(t)) /\ WF_vars(WorkerTimedOut(t))
        /\ WF_vars(WorkerTake(t)) /\ WF_vars(WorkerFunc(t))
        /\ WF_vars(WorkerDone(t)) /\ WF_vars(WorkerNotify(t))
    /\ SF_vars(\E t \in Threads : WorkerSemWait(t))
    /\ WF_vars(SubmitPost)
    /\ WF_vars(woken /\ CancelWake)
    /\ SF_vars(SpawnThreadBH) /\ SF_vars(NotifierReady) /\ WF_vars(AioWaitIdle)
    /\ WF_vars(WalkSkip \/ WalkCallback \/ WalkRelease \/ WalkEnd)
    /\ SF_vars(CallbackReturn)

FairSpec == Spec /\ Fairness

-----------------------------------------------------------------------------
(* Properties.                                                             *)

\* The types of the variables.  That the counters, the semaphore and
\* pending_cancellations are natural numbers says that no decrement in
\* worker_thread or thread_pool_cancel goes below zero.
TypeOK ==
    /\ head \in Seq(Reqs) /\ request_list \in Seq(Reqs)
    /\ state \in [Reqs -> {"free", "queued", "active", "done", "canceled"}]
    /\ ret \in [Reqs -> Results \cup {Garbage}]
    /\ cb \in [Reqs -> BOOLEAN]
    /\ sem \in Nat /\ notifier \in BOOLEAN /\ bh \in BOOLEAN
    /\ cur_threads \in Nat /\ idle_threads \in Nat
    /\ new_threads \in Nat /\ pending_threads \in Nat
    /\ wpc \in [Threads -> WorkerPCs]
    /\ job \in [Threads -> Reqs \cup {NoReq}]
    /\ mpc \in {"app", "post", "cancelwait", "wait", "walk"}
    /\ walk \in Seq(Reqs) /\ completing \in Seq(Reqs)
    /\ pending_cancellations \in Nat
    /\ target \in Reqs \cup {NoReq}
    /\ woken \in BOOLEAN

\* Every token of the semaphore, free or held by a worker on its way to the
\* list, stands for exactly one queued request (or for the one about to be
\* posted): QTAILQ_FIRST in worker_thread never yields NULL, and no request
\* lacks its token, however cancellation and workers race for it.
TokensMatch ==
    sem + Cardinality(Workers({"gotsem"})) + (IF mpc = "post" THEN 1 ELSE 0)
        = Len(request_list)

\* The counters of the pool count what their comments say: the threads that
\* exist or are in the backlog, the threads being created, the threads in the
\* semaphore wait; and the pool never exceeds max_threads.
ThreadAccounting ==
    /\ cur_threads = Cardinality(Alive) + new_threads
    /\ pending_threads = Cardinality(Workers({"created"}))
    /\ idle_threads = Cardinality(Workers({"waiting", "gotsem", "timedout"}))
    /\ cur_threads <= MaxThreads

\* The backlog of spawn_thread is never forgotten: a thread being created, or
\* the bottom half, will create the next one.
SpawnPromise == new_threads > 0 => pending_threads > 0 \/ bh

\* Idle threads exit after a timeout, but never the last one while a request
\* is queued: submission counts on a thread that is about to give up, and that
\* thread looks at the list again.
NoStrandedRequest == request_list # <<>> => cur_threads > 0

\* The queue holds the queued elements, the list of all elements and the
\* stack of running callbacks hold the allocated ones, each of them once,
\* however submissions, cancellations and nested walks interleave.
ListsConsistent ==
    /\ ToSet(request_list) = {r \in Reqs : state[r] = "queued"}
    /\ IsInjective(request_list)
    /\ ToSet(head) \cup ToSet(completing) = {r \in Reqs : state[r] # "free"}
    /\ IsInjective(head) /\ IsInjective(completing)
    /\ ToSet(head) \cap ToSet(completing) = {}

\* A request that has finished is never forgotten by event_notifier_ready: the
\* notifier is set or about to be set, the running walk still comes to the
\* element, or a walk will restart after a callback.
NoLostCompletion ==
    \A r \in ToSet(head) :
        Finished(r) =>
            \/ notifier
            \/ \E t \in Threads : wpc[t] = "done" /\ job[t] = r
            \/ r \in ToSet(walk)
            \/ completing # <<>>

\* thread_pool_cancel returns: the broadcast of the worker that finishes the
\* request is not missed.
CancelTerminates == (mpc = "cancelwait") ~> (mpc # "cancelwait")

\* A queued request is taken by a worker or cancelled, although threads are
\* created one by one and exit when they have been idle.
QueuedServed == \A r \in Reqs : (state[r] = "queued") ~> (state[r] # "queued")

\* event_notifier_ready releases a finished request, unless callbacks keep
\* running (a callback that submits again is found first when the walk
\* restarts at the head).
CompletionProgress ==
    \A r \in Reqs : Finished(r) ~> (state[r] = "free" \/ completing # <<>>)

\* The life cycle of AioRequest that each element goes through.
Aio == INSTANCE AioRequest WITH
    phase <- [r \in Reqs |->
                CASE state[r] = "free" -> "idle"
                  [] state[r] = "queued" -> "submitted"
                  [] state[r] = "active" -> "running"
                  [] state[r] = "canceled" -> "cancelled"
                  [] state[r] = "done" ->
                        IF r \in ToSet(completing) THEN "callback" ELSE "finished"],
    result <- [r \in Reqs |-> IF state[r] = "done" THEN ret[r] ELSE Garbage],
    wanted <- cb

\* The pool implements AioRequest: func runs at most once and never after a
\* successful cancellation, the callback of thread_pool_submit_aio is called
\* once, after func, with what func returned.
ImplementsAio == Aio!Spec

\* aio_poll waits "until one or more AIO events have completed": it is never
\* blocked when all the requests it could wait for have completed and no
\* worker is about to say so.
NestedPollProgress ==
    ~ /\ mpc = "wait"
      /\ head # <<>> /\ \A r \in ToSet(head) : Finished(r)
      /\ ~ notifier /\ ~ bh
      /\ \A t \in Threads : wpc[t] # "done"
=============================================================================
