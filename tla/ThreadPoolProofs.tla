-------------------------- MODULE ThreadPoolProofs --------------------------
(***************************************************************************)
(* Theorems about ThreadPool, for every number of threads and elements,    *)
(* every limit and every depth of nested polling.                          *)
(***************************************************************************)
EXTENDS ThreadPool, ListLemmas, FiniteSetTheorems

-----------------------------------------------------------------------------
(* The inductive invariant: the properties of ThreadPool need each other,  *)
(* and four facts about the actors' private state.                         *)

\* A worker that runs func owns an active element, and owns it alone.
JobsOK ==
    /\ \A t \in Workers({"running", "ret"}) :
            job[t] \in Reqs /\ state[job[t]] = "active"
    /\ \A t, u \in Workers({"running", "ret"}) : job[t] = job[u] => t = u

\* event_notifier_ready only visits elements that are still in the list.
WalkOK ==
    /\ ToSet(walk) \subseteq ToSet(head)
    /\ IsInjective(walk)
    /\ mpc # "walk" => walk = <<>>

\* Elements whose callback runs have finished.
CallbacksOK == \A r \in ToSet(completing) : state[r] = "done"

\* A blocked thread_pool_cancel has announced itself.
CancelOK == mpc = "cancelwait" => pending_cancellations > 0

IInv ==
    /\ TypeOK
    /\ TokensMatch
    /\ ThreadAccounting
    /\ SpawnPromise
    /\ NoStrandedRequest
    /\ ListsConsistent
    /\ NoLostCompletion
    /\ JobsOK
    /\ WalkOK
    /\ CallbacksOK
    /\ CancelOK

-----------------------------------------------------------------------------
(* Counting threads.                                                       *)

\* How many threads are at one of the places P.
Count(w, P) == Cardinality({t \in Threads : w[t] \in P})

\* Counts of a finite set of threads are numbers.
LEMMA CountType ==
    ASSUME NEW w, NEW P
    PROVE  Count(w, P) \in Nat
<1>1. IsFiniteSet({t \in Threads : w[t] \in P})
  BY PoolAssumption, FS_Subset DEF PoolAssumption
<1> QED BY <1>1, FS_CardinalityType DEF Count

\* Nobody is there iff the count is zero.
LEMMA CountZero ==
    ASSUME NEW w, NEW P
    PROVE  Count(w, P) = 0 <=> \A t \in Threads : w[t] \notin P
<1> DEFINE A == {t \in Threads : w[t] \in P}
<1>1. IsFiniteSet(A)
  BY PoolAssumption, FS_Subset DEF PoolAssumption
<1>2. Cardinality(A) = 0 <=> A = {}
  BY <1>1, FS_EmptySet
<1> QED BY <1>2 DEF Count

\* Fewer places, fewer threads.
LEMMA CountSubset ==
    ASSUME NEW w, NEW P, NEW Q, P \subseteq Q
    PROVE  Count(w, P) <= Count(w, Q)
<1> DEFINE A == {t \in Threads : w[t] \in P}
           B == {t \in Threads : w[t] \in Q}
<1>1. IsFiniteSet(B) /\ A \in SUBSET B
  BY PoolAssumption, FS_Subset DEF PoolAssumption
<1>2. Cardinality(A) <= Cardinality(B)
  BY <1>1, FS_Subset
<1> QED BY <1>2 DEF Count

\* No thread but t moves.
Moved(w, v, t) == \A u \in Threads \ {t} : v[u] = w[u]

\* One thread moves: the counts of the places it leaves and enters change by
\* one.
LEMMA CountMove ==
    ASSUME NEW w, NEW v, NEW t \in Threads, NEW P, Moved(w, v, t)
    PROVE  /\ w[t] \in P /\ v[t] \in P => Count(v, P) = Count(w, P)
           /\ w[t] \notin P /\ v[t] \notin P => Count(v, P) = Count(w, P)
           /\ w[t] \notin P /\ v[t] \in P => Count(v, P) = Count(w, P) + 1
           /\ w[t] \in P /\ v[t] \notin P =>
                /\ Count(v, P) = Count(w, P) - 1
                /\ Count(w, P) > 0
<1> DEFINE A == {u \in Threads : w[u] \in P}
           B == {u \in Threads : v[u] \in P}
<1>1. IsFiniteSet(A) /\ IsFiniteSet(B)
  BY PoolAssumption, FS_Subset DEF PoolAssumption
<1>2. Count(w, P) = Cardinality(A) /\ Count(v, P) = Cardinality(B)
  BY DEF Count
<1> USE DEF Moved
<1>3. ASSUME w[t] \in P <=> v[t] \in P PROVE A = B
  BY <1>3
<1>4. CASE w[t] \notin P /\ v[t] \in P
  <2>1. B = A \cup {t} /\ t \notin A
    BY <1>4
  <2> QED BY <1>1, <1>2, <1>4, <2>1, FS_AddElement
<1>5. CASE w[t] \in P /\ v[t] \notin P
  <2>1. B = A \ {t} /\ t \in A
    BY <1>5
  <2>2. Cardinality(B) = Cardinality(A) - 1
    BY <1>1, <2>1, FS_RemoveElement
  <2>3. Cardinality(A) \in Nat /\ Cardinality(A) # 0
    BY <1>1, <2>1, FS_CardinalityType, FS_EmptySet
  <2> QED BY <1>2, <1>5, <2>2, <2>3
<1> QED BY <1>2, <1>3, <1>4, <1>5

\* QLIST_REMOVE and QTAILQ_REMOVE of an element that is in the list.
LEMMA UnlinkSet ==
    ASSUME NEW s \in Seq(Reqs), IsInjective(s), NEW e \in ToSet(s)
    PROVE  /\ Unlink(s, e) \in Seq(Reqs)
           /\ Len(Unlink(s, e)) = Len(s) - 1
           /\ ToSet(Unlink(s, e)) = ToSet(s) \ {e}
           /\ IsInjective(Unlink(s, e))
<1> DEFINE k == CHOOSE i \in DOMAIN s : s[i] = e
<1>1. k \in 1 .. Len(s) /\ s[k] = e
  BY Elements
<1> HIDE DEF k
<1>2. Unlink(s, e) = RemoveAt(s, k)
  BY DEF Unlink, k
<1>3. /\ RemoveAt(s, k) \in Seq(Reqs)
      /\ Len(RemoveAt(s, k)) = Len(s) - 1
      /\ ToSet(RemoveAt(s, k)) = ToSet(s) \ {s[k]}
      /\ IsInjective(RemoveAt(s, k))
  BY <1>1, RemoveAtSet
<1> QED BY <1>1, <1>2, <1>3

-----------------------------------------------------------------------------
(* Each step preserves each part of the invariant.                         *)

\* In the invariant's states counters can be decremented when they are.
LEMMA CountersPositive ==
    ASSUME IInv, NEW t \in Threads
    PROVE  /\ wpc[t] = "created" => pending_threads > 0
           /\ wpc[t] \in {"waiting", "gotsem", "timedout"} =>
                idle_threads > 0 /\ cur_threads > 0
           /\ wpc[t] = "gotsem" => request_list # <<>>
<1>1. /\ pending_threads = Count(wpc, {"created"})
      /\ idle_threads = Count(wpc, {"waiting", "gotsem", "timedout"})
      /\ cur_threads = Count(wpc, WorkerPCs \ {"none"}) + new_threads
  BY DEF IInv, ThreadAccounting, Count, Workers, Alive
<1>2. wpc[t] = "created" => pending_threads > 0
  BY <1>1, CountType, CountZero
<1>3. ASSUME wpc[t] \in {"waiting", "gotsem", "timedout"}
      PROVE  idle_threads > 0 /\ cur_threads > 0
  <2>1. Count(wpc, {"waiting", "gotsem", "timedout"}) # 0
    BY <1>3, CountZero
  <2>2. Count(wpc, WorkerPCs \ {"none"}) # 0
    BY <1>3, CountZero DEF WorkerPCs
  <2> QED BY <1>1, <2>1, <2>2, CountType DEF IInv, TypeOK
<1>4. ASSUME wpc[t] = "gotsem" PROVE request_list # <<>>
  <2>1. Count(wpc, {"gotsem"}) # 0 /\ Count(wpc, {"gotsem"}) \in Nat
    BY <1>4, CountZero, CountType
  <2>2. sem + Count(wpc, {"gotsem"}) + (IF mpc = "post" THEN 1 ELSE 0) = Len(request_list)
    BY DEF IInv, TokensMatch, Count, Workers
  <2>3. Len(request_list) > 0
    BY <2>1, <2>2 DEF IInv, TypeOK
  <2> QED BY <2>3, EmptySet
<1> QED BY <1>2, <1>3, <1>4

\* What the main actor unlinks is in the list it is unlinked from.
LEMMA WalkHead ==
    ASSUME IInv, walk # <<>>
    PROVE  /\ Head(walk) \in ToSet(head) /\ Head(walk) \in Reqs
           /\ Unlink(head, Head(walk)) \in Seq(Reqs)
           /\ ToSet(Unlink(head, Head(walk))) = ToSet(head) \ {Head(walk)}
           /\ IsInjective(Unlink(head, Head(walk)))
           /\ Tail(walk) \in Seq(Reqs)
           /\ ToSet(Tail(walk)) = ToSet(walk) \ {Head(walk)}
           /\ IsInjective(Tail(walk))
           /\ mpc = "walk"
<1>1. walk \in Seq(Reqs) /\ head \in Seq(Reqs) /\ IsInjective(walk)
      /\ IsInjective(head) /\ ToSet(walk) \subseteq ToSet(head) /\ mpc = "walk"
  BY DEF IInv, TypeOK, WalkOK, ListsConsistent
<1>2. /\ Head(walk) \in ToSet(walk) /\ Head(walk) \in Reqs
      /\ Tail(walk) \in Seq(Reqs)
      /\ ToSet(Tail(walk)) = ToSet(walk) \ {Head(walk)}
      /\ IsInjective(Tail(walk))
  BY <1>1, TailSet
<1> QED BY <1>1, <1>2, UnlinkSet

\* A queued element can be unlinked from the queue.
LEMMA QueuedUnlink ==
    ASSUME IInv, NEW r \in Reqs, state[r] = "queued"
    PROVE  /\ Unlink(request_list, r) \in Seq(Reqs)
           /\ Len(Unlink(request_list, r)) = Len(request_list) - 1
           /\ ToSet(Unlink(request_list, r)) = ToSet(request_list) \ {r}
           /\ IsInjective(Unlink(request_list, r))
<1>1. request_list \in Seq(Reqs) /\ IsInjective(request_list)
      /\ r \in ToSet(request_list)
  BY DEF IInv, TypeOK, ListsConsistent
<1> QED BY <1>1, UnlinkSet

\* The top of the stack of callbacks.
LEMMA TopCallback ==
    ASSUME IInv, completing # <<>>
    PROVE  /\ Last(completing) \in ToSet(completing)
           /\ Last(completing) \in Reqs
           /\ Front(completing) \in Seq(Reqs)
           /\ ToSet(Front(completing)) = ToSet(completing) \ {Last(completing)}
           /\ IsInjective(Front(completing))
BY FrontSet DEF IInv, TypeOK, ListsConsistent

\* The types are preserved.
LEMMA TypeStep == IInv /\ Next => TypeOK'
<1> SUFFICES ASSUME IInv, Next PROVE TypeOK'
  OBVIOUS
<1> USE DEF TypeOK
<1>0. TypeOK
  BY DEF IInv
<1>1. ASSUME NEW w \in [Threads -> WorkerPCs], NEW p \in Nat, DoSpawnThread(w, p)
      PROVE  /\ wpc' \in [Threads -> WorkerPCs]
             /\ pending_threads' \in Nat /\ new_threads' \in Nat
  <2>1. CASE new_threads = 0
    BY <1>0, <1>1, <2>1 DEF DoSpawnThread
  <2>2. CASE new_threads > 0
    <3>1. PICK t \in Threads : wpc' = [w EXCEPT ![t] = "created"]
      BY <1>0, <1>1, <2>2 DEF DoSpawnThread
    <3>2. wpc' \in [Threads -> WorkerPCs]
      BY <1>1, <3>1 DEF WorkerPCs
    <3> QED BY <1>0, <1>1, <2>2, <3>2 DEF DoSpawnThread
  <2> QED BY <1>0, <2>1, <2>2
<1>2. ASSUME NEW t \in Threads, WorkerStart(t) PROVE TypeOK'
  <2>1. pending_threads - 1 \in Nat /\ idle_threads' \in Nat
    BY <1>0, <1>2, CountersPositive DEF WorkerStart
  <2>2. [wpc EXCEPT ![t] = "waiting"] \in [Threads -> WorkerPCs]
    BY <1>0 DEF WorkerPCs
  <2>3. /\ wpc' \in [Threads -> WorkerPCs]
        /\ pending_threads' \in Nat /\ new_threads' \in Nat
    BY <1>1, <1>2, <2>1, <2>2 DEF WorkerStart
  <2> QED BY <1>0, <1>2, <2>1, <2>3
          DEF WorkerStart, elemVars, lists, signals, mainVars, cancelVars
<1>3. ASSUME NEW t \in Threads, WorkerSemWait(t) PROVE TypeOK'
  BY <1>0, <1>3 DEF WorkerSemWait, WorkerGoes, WorkerPCs,
        elemVars, lists, counters, mainVars, cancelVars
<1>4. ASSUME NEW t \in Threads, WorkerTimeout(t) PROVE TypeOK'
  BY <1>0, <1>4 DEF WorkerTimeout, WorkerGoes, WorkerPCs,
        elemVars, lists, signals, counters, mainVars, cancelVars
<1>5. ASSUME NEW t \in Threads, WorkerTimedOut(t) PROVE TypeOK'
  <2>1. wpc[t] = "timedout" => idle_threads > 0 /\ cur_threads > 0
    BY CountersPositive
  <2>2. idle_threads' \in Nat /\ cur_threads' \in Nat
    BY <1>0, <1>5, <2>1 DEF WorkerTimedOut, WorkerGoes
  <2>3. wpc' \in [Threads -> WorkerPCs]
    BY <1>0, <1>5 DEF WorkerTimedOut, WorkerGoes, WorkerPCs
  <2> QED BY <1>0, <1>5, <2>2, <2>3 DEF WorkerTimedOut,
        elemVars, lists, signals, mainVars, cancelVars
<1>6. ASSUME NEW t \in Threads, WorkerTake(t) PROVE TypeOK'
  <2>1. idle_threads > 0
    BY <1>6, CountersPositive DEF WorkerTake, WorkerGoes
  <2>2. Head(request_list) \in Reqs /\ Tail(request_list) \in Seq(Reqs)
    BY <1>0, <1>6, TailSet DEF WorkerTake
  <2> QED BY <1>0, <1>6, <2>1, <2>2 DEF WorkerTake, WorkerGoes, WorkerPCs,
        signals, mainVars, cancelVars
<1>7. ASSUME NEW t \in Threads, WorkerFunc(t) PROVE TypeOK'
  BY <1>0, <1>7 DEF WorkerFunc, WorkerGoes, WorkerPCs,
        lists, signals, counters, mainVars, cancelVars
<1>8. ASSUME NEW t \in Threads, WorkerDone(t) PROVE TypeOK'
  BY <1>0, <1>8 DEF WorkerDone, WorkerGoes, WorkerPCs,
        lists, signals, counters, mainVars, cancelVars
<1>9. ASSUME NEW t \in Threads, WorkerNotify(t) PROVE TypeOK'
  BY <1>0, <1>9 DEF WorkerNotify, WorkerGoes, WorkerPCs, CancelIsPending,
        elemVars, lists, mainVars
<1>10. ASSUME NEW r \in Reqs, NEW c \in BOOLEAN, Submit(r, c) PROVE TypeOK'
  <2>1. head' \in Seq(Reqs) /\ request_list' \in Seq(Reqs)
    BY <1>0, <1>10, AppendSet, ConsSet DEF Submit
  <2>2. cur_threads' \in Nat /\ new_threads' \in Nat
    BY <1>0, <1>10 DEF Submit, SpawnThread
  <2>3. bh' \in BOOLEAN
    BY <1>0, <1>10 DEF Submit, SpawnThread
  <2>4. state' \in [Reqs -> {"free", "queued", "active", "done", "canceled"}]
        /\ cb' \in [Reqs -> BOOLEAN]
    BY <1>0, <1>10 DEF Submit
  <2> QED BY <1>0, <1>10, <2>1, <2>2, <2>3, <2>4 DEF Submit, workerVars, cancelVars
<1>11. CASE SubmitPost
  BY <1>0, <1>11 DEF SubmitPost, elemVars, lists, counters, workerVars, cancelVars
<1>12. ASSUME NEW r \in Reqs, CancelSteal(r) PROVE TypeOK'
  BY <1>0, <1>12, QueuedUnlink DEF CancelSteal, Stealable,
        counters, workerVars, mainVars, cancelVars
<1>13. ASSUME NEW r \in Reqs, CancelBlock(r) PROVE TypeOK'
  <2>1. woken' \in BOOLEAN /\ target' \in Reqs \cup {NoReq}
    BY <1>13 DEF CancelBlock
  <2>2. pending_cancellations' \in Nat /\ mpc' = "cancelwait"
    BY <1>0, <1>13 DEF CancelBlock
  <2> QED BY <1>0, <1>13, <2>1, <2>2
          DEF CancelBlock, elemVars, lists, signals, counters, workerVars
<1>14. CASE CancelWake
  <2>1. pending_cancellations > 0
    BY <1>14 DEF CancelWake, IInv, CancelOK
  <2>2. woken' \in BOOLEAN /\ target' \in Reqs \cup {NoReq}
    BY <1>0, <1>14 DEF CancelWake
  <2>3. /\ pending_cancellations' \in Nat
        /\ mpc' \in {"app", "post", "cancelwait", "wait", "walk"}
    BY <1>0, <1>14, <2>1 DEF CancelWake
  <2> QED BY <1>0, <1>14, <2>2, <2>3
          DEF CancelWake, elemVars, lists, signals, counters, workerVars
<1>15. CASE AioWait
  BY <1>0, <1>15 DEF AioWait, elemVars, lists, signals, counters, workerVars,
        cancelVars
<1>16. CASE SpawnThreadBH
  <2>1. /\ wpc' \in [Threads -> WorkerPCs]
        /\ pending_threads' \in Nat /\ new_threads' \in Nat
    BY <1>0, <1>1, <1>16 DEF SpawnThreadBH
  <2> QED BY <1>0, <1>16, <2>1 DEF SpawnThreadBH, elemVars, lists, cancelVars
<1>17. CASE AioWaitIdle
  BY <1>0, <1>17 DEF AioWaitIdle, elemVars, lists, signals, counters,
        workerVars, cancelVars
<1>18. CASE NotifierReady
  BY <1>0, <1>18 DEF NotifierReady, elemVars, lists, counters, workerVars,
        cancelVars
<1>19. CASE WalkSkip
  BY <1>0, <1>19, WalkHead DEF WalkSkip, elemVars, lists, signals, counters,
        workerVars, cancelVars
<1>20. CASE WalkCallback
  <2>1. completing' \in Seq(Reqs) /\ head' \in Seq(Reqs) /\ walk' \in Seq(Reqs)
    BY <1>0, <1>20, WalkHead, AppendSet, EmptySet DEF WalkCallback
  <2> QED BY <1>0, <1>20, <2>1 DEF WalkCallback, elemVars, signals, counters,
        workerVars, cancelVars
<1>21. CASE WalkRelease
  BY <1>0, <1>21, WalkHead DEF WalkRelease, AioRelease, signals, counters,
        workerVars, cancelVars
<1>22. CASE CallbackReturn
  BY <1>0, <1>22, TopCallback DEF CallbackReturn, AioRelease, lists, signals,
        counters, workerVars, cancelVars
<1>23. CASE WalkEnd
  BY <1>0, <1>23 DEF WalkEnd, elemVars, lists, signals, counters, workerVars,
        cancelVars
<1> QED BY <1>2, <1>3, <1>4, <1>5, <1>6, <1>7, <1>8, <1>9, <1>10, <1>11, <1>12,
           <1>13, <1>14, <1>15, <1>16, <1>17, <1>18, <1>19, <1>20, <1>21, <1>22,
           <1>23 DEF Next, Main, Worker

\* The places the counters count.
Created == {"created"}
Idle == {"waiting", "gotsem", "timedout"}
Existing == WorkerPCs \ {"none"}
GotSem == {"gotsem"}

\* Which places belong to which.
LEMMA Places ==
    /\ "none" \notin Created /\ "none" \notin Idle
    /\ "none" \notin Existing /\ "none" \notin GotSem
    /\ "created" \in Created /\ "created" \notin Idle
    /\ "created" \in Existing /\ "created" \notin GotSem
    /\ "waiting" \notin Created /\ "waiting" \in Idle
    /\ "waiting" \in Existing /\ "waiting" \notin GotSem
    /\ "gotsem" \notin Created /\ "gotsem" \in Idle
    /\ "gotsem" \in Existing /\ "gotsem" \in GotSem
    /\ "timedout" \notin Created /\ "timedout" \in Idle
    /\ "timedout" \in Existing /\ "timedout" \notin GotSem
    /\ \A pc \in {"running", "ret", "done"} :
            pc \notin Created /\ pc \notin Idle /\ pc \in Existing /\ pc \notin GotSem
BY DEF Created, Idle, Existing, GotSem, WorkerPCs

\* One token is about to be posted.
Posting(m) == IF m = "post" THEN 1 ELSE 0

\* Posting is a number.
LEMMA PostingType ==
    ASSUME NEW m
    PROVE  /\ Posting(m) \in Nat
           /\ m = "post" => Posting(m) = 1
           /\ m # "post" => Posting(m) = 0
BY DEF Posting

\* The accounting properties in terms of Count, in a state and in the next.
LEMMA Recount ==
    /\ ThreadAccounting <=>
          /\ cur_threads = Count(wpc, Existing) + new_threads
          /\ pending_threads = Count(wpc, Created)
          /\ idle_threads = Count(wpc, Idle)
          /\ cur_threads <= MaxThreads
    /\ ThreadAccounting' <=>
          /\ cur_threads' = Count(wpc', Existing) + new_threads'
          /\ pending_threads' = Count(wpc', Created)
          /\ idle_threads' = Count(wpc', Idle)
          /\ cur_threads' <= MaxThreads
    /\ TokensMatch <=>
          sem + Count(wpc, GotSem) + Posting(mpc) = Len(request_list)
    /\ TokensMatch' <=>
          sem' + Count(wpc', GotSem) + Posting(mpc') = Len(request_list')
BY DEF ThreadAccounting, TokensMatch, Count, Workers, Alive, Created, Idle,
       Existing, GotSem, Posting

\* A worker goes from one place to another.
LEMMA WorkerMove ==
    ASSUME TypeOK, NEW t \in Threads, NEW from, NEW to, WorkerGoes(t, from, to),
           NEW P
    PROVE  /\ Count(wpc, P) \in Nat
           /\ from \in P /\ to \in P => Count(wpc', P) = Count(wpc, P)
           /\ from \notin P /\ to \notin P => Count(wpc', P) = Count(wpc, P)
           /\ from \notin P /\ to \in P => Count(wpc', P) = Count(wpc, P) + 1
           /\ from \in P /\ to \notin P => Count(wpc', P) = Count(wpc, P) - 1
<1>1. wpc[t] = from /\ wpc'[t] = to /\ Moved(wpc, wpc', t)
  BY DEF TypeOK, WorkerGoes, Moved
<1> QED BY <1>1, CountMove, CountType

\* do_spawn_thread moves one thread from the backlog to the threads that are
\* being created, or does nothing.
LEMMA SpawnMove ==
    ASSUME TypeOK, NEW w \in [Threads -> WorkerPCs], NEW p \in Nat,
           DoSpawnThread(w, p)
    PROVE  /\ Count(wpc', Created) - pending_threads' = Count(w, Created) - p
           /\ Count(wpc', Existing) + new_threads' = Count(w, Existing) + new_threads
           /\ Count(wpc', Idle) = Count(w, Idle)
           /\ Count(wpc', GotSem) = Count(w, GotSem)
<1>1. CASE new_threads = 0
  BY <1>1, CountType DEF DoSpawnThread
<1>2. CASE new_threads > 0
  <2>1. PICK t \in Threads : w[t] = "none" /\ wpc' = [w EXCEPT ![t] = "created"]
    BY <1>2 DEF DoSpawnThread
  <2>2. w[t] = "none" /\ wpc'[t] = "created" /\ Moved(w, wpc', t)
    BY <2>1 DEF Moved
  <2>3. Count(wpc', Created) = Count(w, Created) + 1
    BY <2>2, CountMove, Places
  <2>4. Count(wpc', Existing) = Count(w, Existing) + 1
    BY <2>2, CountMove, Places
  <2>5. Count(wpc', Idle) = Count(w, Idle)
    BY <2>2, CountMove, Places
  <2>6. Count(wpc', GotSem) = Count(w, GotSem)
    BY <2>2, CountMove, Places
  <2>7. pending_threads' = p + 1 /\ new_threads' = new_threads - 1
    BY <1>2 DEF DoSpawnThread
  <2>8. /\ Count(w, Created) \in Nat /\ Count(w, Existing) \in Nat
        /\ new_threads \in Nat
    BY CountType DEF TypeOK
  <2> QED BY <2>3, <2>4, <2>5, <2>6, <2>7, <2>8
<1> QED BY <1>1, <1>2 DEF TypeOK

\* The counters keep counting right, and the tokens keep matching the queue.
LEMMA AccountingStep == IInv /\ Next => ThreadAccounting' /\ TokensMatch'
<1> SUFFICES ASSUME IInv, Next PROVE ThreadAccounting' /\ TokensMatch'
  OBVIOUS
<1>0. TypeOK /\ ThreadAccounting /\ TokensMatch
  BY DEF IInv
<1>a. /\ cur_threads \in Nat /\ idle_threads \in Nat /\ new_threads \in Nat
      /\ pending_threads \in Nat /\ sem \in Nat /\ Len(request_list) \in Nat
      /\ MaxThreads \in Nat
  BY <1>0, PoolAssumption DEF TypeOK, PoolAssumption
<1>b. /\ Count(wpc, Created) \in Nat /\ Count(wpc, Idle) \in Nat
      /\ Count(wpc, Existing) \in Nat /\ Count(wpc, GotSem) \in Nat
      /\ Count(wpc', Created) \in Nat /\ Posting(mpc) \in Nat
      /\ new_threads' \in Nat /\ pending_threads' \in Nat
  BY CountType, PostingType, TypeStep DEF TypeOK
<1>c. /\ cur_threads = Count(wpc, Existing) + new_threads
      /\ pending_threads = Count(wpc, Created)
      /\ idle_threads = Count(wpc, Idle)
      /\ cur_threads <= MaxThreads
      /\ sem + Count(wpc, GotSem) + Posting(mpc) = Len(request_list)
  BY <1>0, Recount
<1>d. ASSUME cur_threads' = Count(wpc', Existing) + new_threads',
             pending_threads' = Count(wpc', Created),
             idle_threads' = Count(wpc', Idle),
             cur_threads' <= MaxThreads,
             sem' + Count(wpc', GotSem) + Posting(mpc') = Len(request_list')
      PROVE  ThreadAccounting' /\ TokensMatch'
  BY <1>d, Recount
<1>e. ASSUME UNCHANGED <<cur_threads, idle_threads, new_threads, pending_threads>>,
             Count(wpc', Existing) = Count(wpc, Existing),
             Count(wpc', Created) = Count(wpc, Created),
             Count(wpc', Idle) = Count(wpc, Idle),
             sem' + Count(wpc', GotSem) + Posting(mpc') = Len(request_list')
      PROVE  ThreadAccounting' /\ TokensMatch'
  BY <1>c, <1>d, <1>e
<1>f. /\ (sem - 1) + (Count(wpc, GotSem) + 1) + Posting(mpc) = Len(request_list)
      /\ Posting(mpc) = 1 => (sem + 1) + Count(wpc, GotSem) + 0 = Len(request_list)
      /\ Posting(mpc) = 0 => sem + Count(wpc, GotSem) + 1 = Len(request_list) + 1
      /\ (sem - 1) + Count(wpc, GotSem) + Posting(mpc) = Len(request_list) - 1
      /\ sem + (Count(wpc, GotSem) - 1) + Posting(mpc) = Len(request_list) - 1
  <2> DEFINE g == Count(wpc, GotSem)
             p == Posting(mpc)
             n == Len(request_list)
  <2>1. sem \in Nat /\ g \in Nat /\ p \in Nat /\ n \in Nat /\ sem + g + p = n
    BY <1>a, <1>b, <1>c
  <2> HIDE DEF g, p, n
  <2>2. /\ (sem - 1) + (g + 1) + p = n
        /\ p = 1 => (sem + 1) + g + 0 = n
        /\ p = 0 => sem + g + 1 = n + 1
        /\ (sem - 1) + g + p = n - 1
        /\ sem + (g - 1) + p = n - 1
    BY <2>1
  <2> QED BY <2>2 DEF g, p, n
<1>1. ASSUME NEW t \in Threads, WorkerStart(t) PROVE ThreadAccounting' /\ TokensMatch'
  <2> DEFINE w == [wpc EXCEPT ![t] = "waiting"]
             p == pending_threads - 1
  <2>1. w \in [Threads -> WorkerPCs] /\ p \in Nat /\ DoSpawnThread(w, p)
    BY <1>0, <1>1, CountersPositive DEF WorkerStart, TypeOK, WorkerPCs
  <2>2. wpc[t] = "created" /\ w[t] = "waiting" /\ Moved(wpc, w, t)
    BY <1>0, <1>1 DEF WorkerStart, TypeOK, Moved
  <2> HIDE DEF w, p
  <2>3. Count(w, Created) = Count(wpc, Created) - 1
    BY <2>2, CountMove, Places
  <2>4. Count(w, Idle) = Count(wpc, Idle) + 1
    BY <2>2, CountMove, Places
  <2>5. Count(w, Existing) = Count(wpc, Existing)
    BY <2>2, CountMove, Places
  <2>6. Count(w, GotSem) = Count(wpc, GotSem)
    BY <2>2, CountMove, Places
  <2>7. /\ Count(wpc', Created) - pending_threads' = Count(w, Created) - p
        /\ Count(wpc', Existing) + new_threads' = Count(w, Existing) + new_threads
        /\ Count(wpc', Idle) = Count(w, Idle)
        /\ Count(wpc', GotSem) = Count(w, GotSem)
    BY <1>0, <2>1, SpawnMove
  <2>8. /\ idle_threads' = idle_threads + 1 /\ cur_threads' = cur_threads
        /\ sem' = sem /\ mpc' = mpc /\ request_list' = request_list
    BY <1>1 DEF WorkerStart, lists, signals, mainVars
  <2>a. /\ cur_threads' = Count(wpc', Existing) + new_threads'
        /\ cur_threads' <= MaxThreads
    BY <1>a, <1>b, <1>c, <2>3, <2>4, <2>5, <2>7, <2>8 DEF p
  <2>b. pending_threads' = Count(wpc', Created) /\ idle_threads' = Count(wpc', Idle)
    <3>1. PICK k \in Nat, m \in Nat, q \in Nat :
            k = Count(wpc', Created) /\ m = Count(wpc, Created) /\ q = pending_threads'
      BY <1>b
    <3>2. k - q = (m - 1) - (m - 1)
      BY <1>c, <2>3, <2>7, <3>1 DEF p
    <3>3. k = q
      BY <3>2
    <3>4. idle_threads' = Count(wpc', Idle)
      BY <1>c, <2>4, <2>7, <2>8
    <3> QED BY <3>1, <3>3, <3>4
  <2>c. sem' + Count(wpc', GotSem) + Posting(mpc') = Len(request_list')
    BY <1>c, <2>6, <2>7, <2>8
  <2> QED BY <1>d, <2>a, <2>b, <2>c
<1>2. ASSUME NEW t \in Threads, WorkerSemWait(t) PROVE ThreadAccounting' /\ TokensMatch'
  <2>1. /\ Count(wpc', Created) = Count(wpc, Created)
        /\ Count(wpc', Idle) = Count(wpc, Idle)
        /\ Count(wpc', Existing) = Count(wpc, Existing)
        /\ Count(wpc', GotSem) = Count(wpc, GotSem) + 1
    BY <1>0, <1>2, WorkerMove, Places DEF WorkerSemWait
  <2>2. /\ UNCHANGED <<cur_threads, idle_threads, new_threads, pending_threads>>
        /\ sem' = sem - 1 /\ UNCHANGED <<mpc, request_list>>
    BY <1>2 DEF WorkerSemWait, lists, counters, mainVars
  <2>3. sem' + Count(wpc', GotSem) + Posting(mpc') = Len(request_list')
    BY <1>f, <2>1, <2>2
  <2> QED BY <1>e, <2>1, <2>2, <2>3
<1>3. ASSUME NEW t \in Threads, WorkerTimeout(t) PROVE ThreadAccounting' /\ TokensMatch'
  <2>1. /\ Count(wpc', Created) = Count(wpc, Created)
        /\ Count(wpc', Idle) = Count(wpc, Idle)
        /\ Count(wpc', Existing) = Count(wpc, Existing)
        /\ Count(wpc', GotSem) = Count(wpc, GotSem)
    BY <1>0, <1>3, WorkerMove, Places DEF WorkerTimeout
  <2>2. UNCHANGED <<cur_threads, idle_threads, new_threads, pending_threads, sem,
                    mpc, request_list>>
    BY <1>3 DEF WorkerTimeout, lists, signals, counters, mainVars
  <2> QED BY <1>c, <1>e, <2>1, <2>2
<1>4. ASSUME NEW t \in Threads, WorkerTimedOut(t) PROVE ThreadAccounting' /\ TokensMatch'
  <2>1. CASE WorkLeft
    <3>1. WorkerGoes(t, "timedout", "waiting") /\ UNCHANGED <<idle_threads, cur_threads>>
      BY <1>4, <2>1 DEF WorkerTimedOut
    <3>2. /\ Count(wpc', Created) = Count(wpc, Created)
          /\ Count(wpc', Idle) = Count(wpc, Idle)
          /\ Count(wpc', Existing) = Count(wpc, Existing)
          /\ Count(wpc', GotSem) = Count(wpc, GotSem)
      BY <1>0, <3>1, WorkerMove, Places
    <3>3. UNCHANGED <<new_threads, pending_threads, sem, mpc, request_list>>
      BY <1>4 DEF WorkerTimedOut, lists, signals, mainVars
    <3> QED BY <1>c, <1>e, <3>1, <3>2, <3>3
  <2>2. CASE ~ WorkLeft
    <3>1. /\ WorkerGoes(t, "timedout", "none")
          /\ idle_threads' = idle_threads - 1 /\ cur_threads' = cur_threads - 1
      BY <1>4, <2>2 DEF WorkerTimedOut
    <3>2. /\ Count(wpc', Created) = Count(wpc, Created)
          /\ Count(wpc', Idle) = Count(wpc, Idle) - 1
          /\ Count(wpc', Existing) = Count(wpc, Existing) - 1
          /\ Count(wpc', GotSem) = Count(wpc, GotSem)
      BY <1>0, <3>1, WorkerMove, Places
    <3>3. UNCHANGED <<new_threads, pending_threads, sem, mpc, request_list>>
      BY <1>4 DEF WorkerTimedOut, lists, signals, mainVars
    <3>a. /\ cur_threads' = Count(wpc', Existing) + new_threads'
          /\ cur_threads' <= MaxThreads
      <4> DEFINE x == Count(wpc, Existing)
      <4>1. /\ cur_threads \in Nat /\ x \in Nat /\ new_threads \in Nat
            /\ MaxThreads \in Nat
            /\ cur_threads = x + new_threads /\ cur_threads <= MaxThreads
        BY <1>a, <1>b, <1>c
      <4> HIDE DEF x
      <4>2. cur_threads - 1 = (x - 1) + new_threads /\ cur_threads - 1 <= MaxThreads
        BY <4>1
      <4> QED BY <4>2, <3>1, <3>2, <3>3 DEF x
    <3>b. pending_threads' = Count(wpc', Created) /\ idle_threads' = Count(wpc', Idle)
      BY <1>a, <1>b, <1>c, <3>1, <3>2, <3>3
    <3>c. sem' + Count(wpc', GotSem) + Posting(mpc') = Len(request_list')
      BY <1>c, <3>2, <3>3
    <3> QED BY <1>d, <3>a, <3>b, <3>c
  <2> QED BY <2>1, <2>2
<1>5. ASSUME NEW t \in Threads, WorkerTake(t) PROVE ThreadAccounting' /\ TokensMatch'
  <2>1. /\ Count(wpc', Created) = Count(wpc, Created)
        /\ Count(wpc', Idle) = Count(wpc, Idle) - 1
        /\ Count(wpc', Existing) = Count(wpc, Existing)
        /\ Count(wpc', GotSem) = Count(wpc, GotSem) - 1
    BY <1>0, <1>5, WorkerMove, Places DEF WorkerTake
  <2>2. Len(request_list') = Len(request_list) - 1
    BY <1>0, <1>5, TailSet DEF WorkerTake, TypeOK
  <2>3. /\ idle_threads' = idle_threads - 1
        /\ UNCHANGED <<cur_threads, new_threads, pending_threads, sem, mpc>>
    BY <1>5 DEF WorkerTake, signals, mainVars
  <2>a. /\ cur_threads' = Count(wpc', Existing) + new_threads'
        /\ cur_threads' <= MaxThreads
    BY <1>a, <1>b, <1>c, <2>1, <2>3
  <2>b. pending_threads' = Count(wpc', Created) /\ idle_threads' = Count(wpc', Idle)
    BY <1>a, <1>b, <1>c, <2>1, <2>3
  <2>c. sem' + Count(wpc', GotSem) + Posting(mpc') = Len(request_list')
    BY <1>f, <2>1, <2>2, <2>3
  <2> QED BY <1>d, <2>a, <2>b, <2>c
<1>6. ASSUME NEW t \in Threads, WorkerFunc(t) \/ WorkerDone(t)
      PROVE  ThreadAccounting' /\ TokensMatch'
  <2>1. /\ Count(wpc', Created) = Count(wpc, Created)
        /\ Count(wpc', Idle) = Count(wpc, Idle)
        /\ Count(wpc', Existing) = Count(wpc, Existing)
        /\ Count(wpc', GotSem) = Count(wpc, GotSem)
    BY <1>0, <1>6, WorkerMove, Places DEF WorkerFunc, WorkerDone
  <2>2. UNCHANGED <<cur_threads, idle_threads, new_threads, pending_threads, sem,
                    mpc, request_list>>
    BY <1>6 DEF WorkerFunc, WorkerDone, lists, signals, counters, mainVars
  <2> QED BY <1>c, <1>e, <2>1, <2>2
<1>7. ASSUME NEW t \in Threads, WorkerNotify(t) PROVE ThreadAccounting' /\ TokensMatch'
  <2>1. /\ Count(wpc', Created) = Count(wpc, Created)
        /\ Count(wpc', Idle) = Count(wpc, Idle) + 1
        /\ Count(wpc', Existing) = Count(wpc, Existing)
        /\ Count(wpc', GotSem) = Count(wpc, GotSem)
    BY <1>0, <1>7, WorkerMove, Places DEF WorkerNotify
  <2> QED BY <1>a, <1>b, <1>c, <1>d, <1>7, <2>1
          DEF WorkerNotify, lists, mainVars
<1>8. ASSUME NEW r \in Reqs, NEW c \in BOOLEAN, Submit(r, c)
      PROVE  ThreadAccounting' /\ TokensMatch'
  <2>1. Len(request_list') = Len(request_list) + 1
    BY <1>0, <1>8, AppendSet DEF Submit, TypeOK
  <2>2. Posting(mpc) = 0 /\ Posting(mpc') = 1 /\ wpc' = wpc /\ sem' = sem
    BY <1>8, PostingType DEF Submit, workerVars
  <2>3. /\ cur_threads' - new_threads' = cur_threads - new_threads
        /\ cur_threads' <= MaxThreads /\ cur_threads' \in Nat /\ new_threads' \in Nat
        /\ UNCHANGED <<idle_threads, pending_threads>>
    <3>1. cur_threads \in Nat /\ new_threads \in Nat /\ MaxThreads \in Nat
      BY <1>a
    <3>2. cur_threads <= MaxThreads
      BY <1>c
    <3> QED BY <3>1, <3>2, <1>8, SMTT(30) DEF Submit, MayGrow, SpawnThread
  <2>a. /\ cur_threads' = Count(wpc', Existing) + new_threads'
        /\ cur_threads' <= MaxThreads
    <3>1. PICK x \in Nat, n \in Nat, y \in Nat, m \in Nat :
            x = Count(wpc, Existing) /\ n = new_threads /\ y = cur_threads'
                /\ m = new_threads'
      BY <1>a, <1>b, <2>3
    <3>2. y - m = (x + n) - n
      BY <1>c, <2>3, <3>1
    <3>3. y = x + m
      BY <3>2
    <3> QED BY <3>1, <3>3, <2>2, <2>3
  <2>b. pending_threads' = Count(wpc', Created) /\ idle_threads' = Count(wpc', Idle)
    BY <1>a, <1>b, <1>c, <2>2, <2>3
  <2>c. sem' + Count(wpc', GotSem) + Posting(mpc') = Len(request_list')
    BY <1>f, <2>1, <2>2
  <2> QED BY <1>d, <2>a, <2>b, <2>c
<1>9. CASE SubmitPost
  <2>1. Posting(mpc) = 1 /\ Posting(mpc') = 0
    BY <1>9, PostingType DEF SubmitPost
  <2>2. /\ UNCHANGED <<cur_threads, idle_threads, new_threads, pending_threads>>
        /\ sem' = sem + 1 /\ UNCHANGED <<wpc, request_list>>
    BY <1>9 DEF SubmitPost, lists, counters, workerVars
  <2>3. sem' + Count(wpc', GotSem) + Posting(mpc') = Len(request_list')
    BY <1>f, <2>1, <2>2
  <2> QED BY <1>e, <2>2, <2>3
<1>10. ASSUME NEW r \in Reqs, CancelSteal(r) PROVE ThreadAccounting' /\ TokensMatch'
  <2>1. Len(request_list') = Len(request_list) - 1
    BY <1>10, QueuedUnlink DEF CancelSteal, Stealable
  <2>2. /\ UNCHANGED <<cur_threads, idle_threads, new_threads, pending_threads>>
        /\ sem' = sem - 1 /\ UNCHANGED <<mpc, wpc>>
    BY <1>10 DEF CancelSteal, Stealable, counters, workerVars, mainVars
  <2>3. sem' + Count(wpc', GotSem) + Posting(mpc') = Len(request_list')
    BY <1>f, <2>1, <2>2
  <2> QED BY <1>e, <2>2, <2>3
<1>11. ASSUME NEW r \in Reqs, CancelBlock(r) PROVE ThreadAccounting' /\ TokensMatch'
  <2>1. Posting(mpc) = 0 /\ Posting(mpc') = 0
    BY <1>11, PostingType DEF CancelBlock
  <2> QED BY <1>c, <1>d, <1>11, <2>1 DEF CancelBlock, lists, signals, counters, workerVars
<1>12. CASE CancelWake
  <2>1. Posting(mpc) = 0 /\ Posting(mpc') = 0
    BY <1>12, PostingType DEF CancelWake
  <2> QED BY <1>c, <1>d, <1>12, <2>1 DEF CancelWake, lists, signals, counters, workerVars
<1>13. CASE SpawnThreadBH
  <2>1. /\ Count(wpc', Created) - pending_threads' = Count(wpc, Created) - pending_threads
        /\ Count(wpc', Existing) + new_threads' = Count(wpc, Existing) + new_threads
        /\ Count(wpc', Idle) = Count(wpc, Idle)
        /\ Count(wpc', GotSem) = Count(wpc, GotSem)
    BY <1>0, <1>13, SpawnMove DEF SpawnThreadBH, TypeOK
  <2>2. /\ Posting(mpc) = 0 /\ Posting(mpc') = 0 /\ sem' = sem
        /\ UNCHANGED <<cur_threads, idle_threads, request_list>>
    BY <1>13, PostingType DEF SpawnThreadBH, InMainLoop, lists
  <2>a. /\ cur_threads' = Count(wpc', Existing) + new_threads'
        /\ cur_threads' <= MaxThreads
    BY <1>a, <1>b, <1>c, <2>1, <2>2
  <2>b. pending_threads' = Count(wpc', Created) /\ idle_threads' = Count(wpc', Idle)
    BY <1>a, <1>b, <1>c, <2>1, <2>2, SMTT(30)
  <2>c. sem' + Count(wpc', GotSem) + Posting(mpc') = Len(request_list')
    BY <1>c, <2>1, <2>2
  <2> QED BY <1>d, <2>a, <2>b, <2>c
<1>14. CASE AioWait \/ AioWaitIdle \/ NotifierReady \/ WalkSkip \/ WalkCallback
            \/ WalkRelease \/ CallbackReturn \/ WalkEnd
  <2>1. /\ UNCHANGED <<counters, wpc, sem, request_list>>
        /\ Posting(mpc) = 0 /\ Posting(mpc') = 0
    BY <1>14, PostingType DEF AioWait, AioWaitIdle, NotifierReady, WalkSkip, WalkCallback,
        WalkRelease, CallbackReturn, WalkEnd, InMainLoop, lists, signals, workerVars
  <2> QED BY <1>c, <1>d, <2>1 DEF counters
<1> QED BY <1>1, <1>2, <1>3, <1>4, <1>5, <1>6, <1>7, <1>8, <1>9, <1>10, <1>11,
           <1>12, <1>13, <1>14 DEF Next, Main, Worker

\* The backlog is not forgotten, and no queued request is without a thread.
LEMMA PromiseStep == IInv /\ Next => SpawnPromise' /\ NoStrandedRequest' /\ CancelOK'
<1> SUFFICES ASSUME IInv, Next PROVE SpawnPromise' /\ NoStrandedRequest' /\ CancelOK'
  OBVIOUS
<1>0. TypeOK /\ SpawnPromise /\ NoStrandedRequest /\ CancelOK
  BY DEF IInv
<1>1. ASSUME NEW w, NEW q \in Nat, DoSpawnThread(w, q)
      PROVE  new_threads' > 0 => pending_threads' > 0
  BY <1>0, <1>1 DEF DoSpawnThread, TypeOK
<1>2. SpawnPromise'
  <2>1. ASSUME NEW t \in Threads, WorkerStart(t) PROVE SpawnPromise'
    <3>1. pending_threads - 1 \in Nat
      BY <1>0, <2>1, CountersPositive DEF WorkerStart, TypeOK
    <3> QED BY <1>1, <2>1, <3>1 DEF WorkerStart, SpawnPromise
  <2>2. CASE SpawnThreadBH
    BY <1>0, <1>1, <2>2 DEF SpawnThreadBH, SpawnPromise, TypeOK
  <2>3. ASSUME NEW r \in Reqs, NEW c \in BOOLEAN, Submit(r, c) PROVE SpawnPromise'
    <3>1. CASE MayGrow
      <4>1. bh' = (bh \/ pending_threads = 0) /\ pending_threads' = pending_threads
        BY <2>3, <3>1 DEF Submit, SpawnThread
      <4>2. pending_threads = 0 \/ pending_threads > 0
        BY <1>0 DEF TypeOK
      <4> QED BY <4>1, <4>2 DEF SpawnPromise
    <3>2. CASE ~ MayGrow
      BY <1>0, <2>3, <3>2 DEF Submit, SpawnPromise
    <3> QED BY <3>1, <3>2
  <2>4. CASE UNCHANGED <<new_threads, pending_threads, bh>>
    BY <1>0, <2>4 DEF SpawnPromise
  <2>5. ASSUME NEW t \in Threads, Worker(t), ~ WorkerStart(t)
        PROVE  UNCHANGED <<new_threads, pending_threads, bh>>
    BY <2>5 DEF Worker, WorkerSemWait, WorkerTimeout, WorkerTimedOut,
        WorkerTake, WorkerFunc, WorkerDone, WorkerNotify, signals, counters
  <2>6. ASSUME NEW r \in Reqs, CancelSteal(r) \/ CancelBlock(r)
        PROVE  UNCHANGED <<new_threads, pending_threads, bh>>
    BY <2>6 DEF CancelSteal, CancelBlock, signals, counters
  <2>7. CASE \/ SubmitPost \/ CancelWake \/ AioWait \/ AioWaitIdle \/ NotifierReady
             \/ WalkSkip \/ WalkCallback \/ WalkRelease \/ CallbackReturn \/ WalkEnd
    BY <2>4, <2>7 DEF SubmitPost, CancelWake, AioWait, AioWaitIdle, NotifierReady,
        WalkSkip, WalkCallback, WalkRelease, CallbackReturn, WalkEnd, signals, counters
  <2> QED BY <2>1, <2>2, <2>3, <2>4, <2>5, <2>6, <2>7 DEF Next, Main
<1>3. NoStrandedRequest'
  <2>1. ASSUME NEW r \in Reqs, NEW c \in BOOLEAN, Submit(r, c)
        PROVE  NoStrandedRequest'
    <3>1. CASE MayGrow
      BY <1>0, <2>1, <3>1 DEF Submit, SpawnThread, NoStrandedRequest, TypeOK
    <3>2. CASE ~ MayGrow
      <4>1. cur_threads' = cur_threads
        BY <2>1, <3>2 DEF Submit
      <4>2. CASE cur_threads >= MaxThreads
        BY <1>0, <4>1, <4>2, PoolAssumption DEF PoolAssumption, NoStrandedRequest, TypeOK
      <4>3. CASE idle_threads # 0
        <5>1. idle_threads = Count(wpc, {"waiting", "gotsem", "timedout"})
          BY DEF IInv, ThreadAccounting, Count, Workers
        <5>2. PICK t \in Threads : wpc[t] \in {"waiting", "gotsem", "timedout"}
          BY <4>3, <5>1, CountZero
        <5>3. cur_threads > 0
          BY <5>2, CountersPositive
        <5> QED BY <4>1, <5>3 DEF NoStrandedRequest
      <4> QED BY <1>0, <3>2, <4>2, <4>3, PoolAssumption
              DEF MayGrow, TypeOK, PoolAssumption
    <3> QED BY <3>1, <3>2
  <2>2. ASSUME NEW t \in Threads, WorkerTimedOut(t) PROVE NoStrandedRequest'
    BY <1>0, <2>2 DEF WorkerTimedOut, WorkLeft, NoStrandedRequest, lists
  <2>3. ASSUME NEW t \in Threads, WorkerTake(t) PROVE NoStrandedRequest'
    BY <1>0, <2>3 DEF WorkerTake, NoStrandedRequest
  <2>4. ASSUME NEW r \in Reqs, CancelSteal(r) PROVE NoStrandedRequest'
    <3>1. r \in ToSet(request_list)
      BY <2>4 DEF CancelSteal, Stealable, IInv, ListsConsistent
    <3>2. request_list # <<>>
      BY <3>1, EmptySet
    <3> QED BY <1>0, <2>4, <3>2 DEF CancelSteal, NoStrandedRequest, counters
  <2>5. CASE UNCHANGED <<request_list, cur_threads>>
    BY <1>0, <2>5 DEF NoStrandedRequest
  <2>6. ASSUME NEW t \in Threads, Worker(t), ~ WorkerTimedOut(t), ~ WorkerTake(t)
        PROVE  UNCHANGED <<request_list, cur_threads>>
    BY <2>6 DEF Worker, WorkerStart, WorkerSemWait, WorkerTimeout,
        WorkerFunc, WorkerDone, WorkerNotify, lists, counters
  <2>7. ASSUME NEW r \in Reqs, CancelBlock(r)
        PROVE  UNCHANGED <<request_list, cur_threads>>
    BY <2>7 DEF CancelBlock, lists, counters
  <2>8. CASE \/ SubmitPost \/ CancelWake \/ AioWait \/ SpawnThreadBH \/ AioWaitIdle
             \/ NotifierReady \/ WalkSkip \/ WalkCallback \/ WalkRelease
             \/ CallbackReturn \/ WalkEnd
    BY <2>5, <2>8 DEF SubmitPost, CancelWake, AioWait, SpawnThreadBH, AioWaitIdle,
        NotifierReady, WalkSkip, WalkCallback, WalkRelease, CallbackReturn, WalkEnd,
        lists, counters
  <2> QED BY <2>1, <2>2, <2>3, <2>4, <2>5, <2>6, <2>7, <2>8 DEF Next, Main
<1>4. CancelOK'
  <2>1. ASSUME NEW r \in Reqs, CancelBlock(r) PROVE CancelOK'
    BY <1>0, <2>1 DEF CancelBlock, CancelOK, TypeOK
  <2>2. CASE CancelWake
    BY <1>0, <2>2 DEF CancelWake, CancelOK
  <2>3. ASSUME NEW t \in Threads, Worker(t)
        PROVE  UNCHANGED <<mpc, pending_cancellations>>
    BY <2>3 DEF Worker, WorkerStart, WorkerSemWait, WorkerTimeout, WorkerTimedOut,
        WorkerTake, WorkerFunc, WorkerDone, WorkerNotify, mainVars, cancelVars
  <2>4. ASSUME NEW r \in Reqs, CancelSteal(r)
        PROVE  UNCHANGED <<mpc, pending_cancellations>>
    BY <2>4 DEF CancelSteal, mainVars, cancelVars
  <2>5. ASSUME NEW r \in Reqs, NEW c \in BOOLEAN, Submit(r, c)
        PROVE  mpc' # "cancelwait"
    BY <2>5 DEF Submit
  <2>6. CASE \/ SubmitPost \/ AioWait \/ SpawnThreadBH \/ AioWaitIdle \/ NotifierReady
             \/ WalkSkip \/ WalkCallback \/ WalkRelease \/ CallbackReturn \/ WalkEnd
    <3>1. mpc' # "cancelwait"
      BY <2>6 DEF SubmitPost, AioWait, SpawnThreadBH, AioWaitIdle, NotifierReady,
        WalkSkip, WalkCallback, WalkRelease, CallbackReturn, WalkEnd
    <3> QED BY <3>1 DEF CancelOK
  <2> QED BY <1>0, <2>1, <2>2, <2>3, <2>4, <2>5, <2>6 DEF Next, Main, CancelOK
<1> QED BY <1>2, <1>3, <1>4

\* The lists stay consistent with the states of the elements, and the actors'
\* private state with the lists.
LEMMA ListsStep ==
    IInv /\ Next => ListsConsistent' /\ JobsOK' /\ WalkOK' /\ CallbacksOK'
<1> SUFFICES ASSUME IInv, Next
             PROVE  ListsConsistent' /\ JobsOK' /\ WalkOK' /\ CallbacksOK'
  OBVIOUS
<1> DEFINE Goal == ListsConsistent' /\ JobsOK' /\ WalkOK' /\ CallbacksOK'
<1>0. TypeOK /\ ListsConsistent /\ JobsOK /\ WalkOK /\ CallbacksOK
  BY DEF IInv
<1>1. \A r \in Reqs : state[r] \in {"free", "queued", "active", "done", "canceled"}
  BY <1>0 DEF TypeOK
\* Steps of the workers that leave the elements alone.
<1>2. ASSUME UNCHANGED <<state, head, request_list, job, walk, completing>>,
             Workers({"running", "ret"})' \subseteq Workers({"running", "ret"}),
             mpc' = mpc \/ walk' = <<>>
      PROVE  Goal
  <2>1. ListsConsistent' /\ CallbacksOK'
    BY <1>0, <1>2 DEF ListsConsistent, CallbacksOK
  <2>2. JobsOK'
    BY <1>0, <1>2 DEF JobsOK
  <2>3. WalkOK'
    BY <1>0, <1>2 DEF WalkOK
  <2> QED BY <2>1, <2>2, <2>3
<1>3. ASSUME NEW w, NEW q, DoSpawnThread(w, q), w \in [Threads -> WorkerPCs],
             \A u \in Threads : w[u] \in {"running", "ret"} =>
                                    wpc[u] \in {"running", "ret"}
      PROVE  Workers({"running", "ret"})' \subseteq Workers({"running", "ret"})
  <2>1. CASE wpc' = w
    BY <1>3, <2>1 DEF Workers
  <2>2. CASE wpc' # w
    <3>1. PICK t \in Threads : wpc' = [w EXCEPT ![t] = "created"]
      BY <1>3, <2>2 DEF DoSpawnThread
    <3>2. \A u \in Threads : wpc'[u] \in {"running", "ret"} => w[u] \in {"running", "ret"}
      BY <1>3, <3>1
    <3> QED BY <1>3, <3>2 DEF Workers
  <2> QED BY <2>1, <2>2
<1>4. ASSUME NEW t \in Threads, WorkerStart(t) PROVE Goal
  <2> DEFINE w == [wpc EXCEPT ![t] = "waiting"]
  <2>1. w \in [Threads -> WorkerPCs] /\ DoSpawnThread(w, pending_threads - 1)
    BY <1>0, <1>4 DEF WorkerStart, TypeOK, WorkerPCs
  <2>2. \A u \in Threads : w[u] \in {"running", "ret"} => wpc[u] \in {"running", "ret"}
    BY <1>0 DEF TypeOK
  <2> HIDE DEF w
  <2>3. Workers({"running", "ret"})' \subseteq Workers({"running", "ret"})
    BY <1>3, <2>1, <2>2
  <2>4. UNCHANGED <<state, head, request_list, job, walk, completing, mpc>>
    BY <1>4 DEF WorkerStart, elemVars, lists, mainVars
  <2> QED BY <1>2, <2>3, <2>4
<1>5. ASSUME NEW t \in Threads,
             WorkerSemWait(t) \/ WorkerTimeout(t) \/ WorkerTimedOut(t) \/ WorkerFunc(t)
      PROVE  Goal
  <2>1. \A u \in Threads : wpc'[u] \in {"running", "ret"} => wpc[u] \in {"running", "ret"}
    BY <1>0, <1>5 DEF TypeOK, WorkerSemWait, WorkerTimeout, WorkerTimedOut,
        WorkerFunc, WorkerGoes
  <2>2. UNCHANGED <<state, head, request_list, job, walk, completing, mpc>>
    BY <1>5 DEF WorkerSemWait, WorkerTimeout, WorkerTimedOut, WorkerFunc,
        elemVars, lists, mainVars
  <2> QED BY <1>2, <2>1, <2>2 DEF Workers
<1>6. ASSUME NEW t \in Threads, WorkerTake(t) PROVE Goal
  <2> DEFINE r == Head(request_list)
  <2>1. /\ request_list # <<>> /\ request_list' = Tail(request_list)
        /\ state' = [state EXCEPT ![r] = "active"] /\ job' = [job EXCEPT ![t] = r]
        /\ wpc[t] = "gotsem" /\ wpc' = [wpc EXCEPT ![t] = "running"]
        /\ UNCHANGED <<head, walk, completing, mpc>>
    BY <1>6 DEF WorkerTake, WorkerGoes, mainVars
  <2>2. /\ r \in Reqs /\ r \in ToSet(request_list)
        /\ ToSet(request_list') = ToSet(request_list) \ {r}
        /\ IsInjective(request_list')
    BY <1>0, <2>1, TailSet DEF TypeOK, ListsConsistent
  <2> HIDE DEF r
  <2>3. state[r] = "queued"
    BY <1>0, <2>2 DEF ListsConsistent
  <2>4. ListsConsistent'
    BY <1>0, <1>1, <2>1, <2>2, <2>3 DEF ListsConsistent, TypeOK
  <2>5. CallbacksOK' /\ WalkOK'
    BY <1>0, <2>1, <2>2, <2>3 DEF CallbacksOK, WalkOK, TypeOK
  <2>6. JobsOK'
    BY <1>0, <2>1, <2>2, <2>3 DEF JobsOK, Workers, TypeOK
  <2> QED BY <2>4, <2>5, <2>6
<1>7. ASSUME NEW t \in Threads, WorkerDone(t) PROVE Goal
  <2>1. /\ state' = [state EXCEPT ![job[t]] = "done"]
        /\ wpc[t] = "ret" /\ wpc' = [wpc EXCEPT ![t] = "done"]
        /\ UNCHANGED <<head, request_list, job, walk, completing, mpc>>
    BY <1>7 DEF WorkerDone, WorkerGoes, lists, mainVars
  <2>2. job[t] \in Reqs /\ state[job[t]] = "active"
    BY <1>0, <2>1 DEF JobsOK, Workers
  <2>3. ListsConsistent'
    BY <1>0, <1>1, <2>1, <2>2 DEF ListsConsistent, TypeOK
  <2>4. CallbacksOK' /\ WalkOK'
    BY <1>0, <2>1, <2>2 DEF CallbacksOK, WalkOK, TypeOK
  <2>5. JobsOK'
    BY <1>0, <2>1, <2>2 DEF JobsOK, Workers, TypeOK
  <2> QED BY <2>3, <2>4, <2>5
<1>8. ASSUME NEW t \in Threads, WorkerNotify(t) PROVE Goal
  <2>1. /\ wpc[t] = "done" /\ wpc' = [wpc EXCEPT ![t] = "waiting"]
        /\ job' = [job EXCEPT ![t] = NoReq]
        /\ UNCHANGED <<state, head, request_list, walk, completing, mpc>>
    BY <1>8 DEF WorkerNotify, WorkerGoes, elemVars, lists, mainVars
  <2>2. ListsConsistent' /\ CallbacksOK' /\ WalkOK'
    BY <1>0, <2>1 DEF ListsConsistent, CallbacksOK, WalkOK
  <2>3. JobsOK'
    BY <1>0, <2>1 DEF JobsOK, Workers, TypeOK
  <2> QED BY <2>2, <2>3
<1>9. ASSUME NEW r \in Reqs, NEW c \in BOOLEAN, Submit(r, c) PROVE Goal
  <2>1. /\ state[r] = "free" /\ state' = [state EXCEPT ![r] = "queued"]
        /\ head' = <<r>> \o head /\ request_list' = Append(request_list, r)
        /\ mpc = "app"
        /\ UNCHANGED <<walk, completing, wpc, job>>
    BY <1>9 DEF Submit, workerVars
  <2>2. r \notin ToSet(head) /\ r \notin ToSet(completing) /\ r \notin ToSet(request_list)
    BY <1>0, <2>1 DEF ListsConsistent
  <2>3. /\ ToSet(head') = ToSet(head) \cup {r} /\ IsInjective(head')
        /\ ToSet(request_list') = ToSet(request_list) \cup {r}
        /\ IsInjective(request_list')
    BY <1>0, <2>1, <2>2, ConsSet, AppendSet DEF TypeOK, ListsConsistent
  <2>4. ListsConsistent'
    <3>1. \A x \in Reqs : state'[x] = IF x = r THEN "queued" ELSE state[x]
      BY <1>0, <2>1 DEF TypeOK
    <3>2. ToSet(request_list') = {x \in Reqs : state'[x] = "queued"}
      BY <1>0, <2>3, <3>1 DEF ListsConsistent
    <3>3. ToSet(head') \cup ToSet(completing') = {x \in Reqs : state'[x] # "free"}
      BY <1>0, <2>1, <2>3, <3>1 DEF ListsConsistent
    <3>4. IsInjective(completing') /\ ToSet(head') \cap ToSet(completing') = {}
      BY <1>0, <2>1, <2>2, <2>3 DEF ListsConsistent
    <3> QED BY <2>3, <3>2, <3>3, <3>4 DEF ListsConsistent
  <2>5. CallbacksOK' /\ WalkOK'
    BY <1>0, <2>1, <2>2, <2>3 DEF CallbacksOK, WalkOK, TypeOK
  <2>6. JobsOK'
    BY <1>0, <2>1 DEF JobsOK, Workers, TypeOK
  <2> QED BY <2>4, <2>5, <2>6
<1>10. ASSUME NEW r \in Reqs, CancelSteal(r) PROVE Goal
  <2>1. /\ state[r] = "queued" /\ state' = [state EXCEPT ![r] = "canceled"]
        /\ ToSet(request_list') = ToSet(request_list) \ {r}
        /\ IsInjective(request_list')
        /\ UNCHANGED <<head, walk, completing, wpc, job, mpc>>
    BY <1>10, QueuedUnlink DEF CancelSteal, Stealable, workerVars, mainVars
  <2>2. ListsConsistent'
    BY <1>0, <1>1, <2>1 DEF ListsConsistent, TypeOK
  <2>3. CallbacksOK' /\ WalkOK'
    BY <1>0, <2>1 DEF CallbacksOK, WalkOK, TypeOK
  <2>4. JobsOK'
    BY <1>0, <2>1 DEF JobsOK, Workers, TypeOK
  <2> QED BY <2>2, <2>3, <2>4
\* Steps of the main actor that leave the elements alone.
<1>11. ASSUME NEW r \in Reqs, CancelBlock(r) PROVE Goal
  <2>1. UNCHANGED <<state, head, request_list, job, walk, completing, wpc>> /\ mpc = "app"
    BY <1>11 DEF CancelBlock, elemVars, lists, workerVars
  <2> QED BY <1>0, <1>2, <2>1 DEF WalkOK, Workers
<1>12. CASE SubmitPost \/ CancelWake \/ AioWait \/ AioWaitIdle \/ WalkEnd
  <2>1. /\ UNCHANGED <<state, head, request_list, job, walk, completing, wpc>>
        /\ mpc # "walk" \/ walk = <<>>
    BY <1>12 DEF SubmitPost, CancelWake, AioWait, AioWaitIdle, WalkEnd, elemVars,
        lists, workerVars
  <2> QED BY <1>0, <1>2, <2>1 DEF WalkOK, Workers
<1>13. CASE SpawnThreadBH
  <2>1. /\ UNCHANGED <<state, head, request_list, job, walk, completing>>
        /\ mpc # "walk" /\ DoSpawnThread(wpc, pending_threads)
    BY <1>13 DEF SpawnThreadBH, InMainLoop, elemVars, lists
  <2>2. Workers({"running", "ret"})' \subseteq Workers({"running", "ret"})
    BY <1>0, <1>3, <2>1 DEF TypeOK
  <2> QED BY <1>0, <1>2, <2>1, <2>2 DEF WalkOK
<1>14. CASE NotifierReady
  <2>1. /\ UNCHANGED <<state, head, request_list, job, completing, wpc>>
        /\ mpc' = "walk" /\ walk' = head
    BY <1>14 DEF NotifierReady, elemVars, lists, workerVars
  <2> QED BY <1>0, <2>1 DEF ListsConsistent, JobsOK, WalkOK, CallbacksOK, Workers
<1>15. CASE WalkSkip
  <2>1. /\ UNCHANGED <<state, head, request_list, job, completing, wpc, mpc>>
        /\ walk # <<>> /\ walk' = Tail(walk)
    BY <1>15 DEF WalkSkip, elemVars, lists, workerVars
  <2>2. WalkOK'
    BY <1>0, <2>1, WalkHead DEF WalkOK
  <2>3. ListsConsistent' /\ JobsOK' /\ CallbacksOK'
    BY <1>0, <2>1 DEF ListsConsistent, JobsOK, CallbacksOK, Workers
  <2> QED BY <2>2, <2>3
<1>16. CASE WalkCallback
  <2> DEFINE r == Head(walk)
  <2>1. /\ walk # <<>> /\ head' = Unlink(head, r) /\ completing' = Append(completing, r)
        /\ state[r] = "done" /\ walk' = <<>>
        /\ UNCHANGED <<state, request_list, job, wpc>>
    BY <1>16 DEF WalkCallback, HasCallback, elemVars, workerVars
  <2>2. /\ r \in ToSet(head) /\ r \in Reqs
        /\ ToSet(head') = ToSet(head) \ {r} /\ IsInjective(head')
    BY <2>1, WalkHead
  <2> HIDE DEF r
  <2>3. r \notin ToSet(completing)
    BY <1>0, <2>2 DEF ListsConsistent
  <2>4. ToSet(completing') = ToSet(completing) \cup {r} /\ IsInjective(completing')
    BY <1>0, <2>1, <2>2, <2>3, AppendSet DEF TypeOK, ListsConsistent
  <2>5. ListsConsistent'
    BY <1>0, <2>1, <2>2, <2>3, <2>4 DEF ListsConsistent
  <2>6. CallbacksOK' /\ JobsOK'
    BY <1>0, <2>1, <2>4 DEF CallbacksOK, JobsOK, Workers
  <2>7. WalkOK'
    BY <2>1, EmptySet DEF WalkOK
  <2> QED BY <2>5, <2>6, <2>7
<1>17. CASE WalkRelease
  <2> DEFINE r == Head(walk)
  <2>1. /\ walk # <<>> /\ head' = Unlink(head, r) /\ walk' = Tail(walk)
        /\ state[r] \in {"done", "canceled"} /\ state' = [state EXCEPT ![r] = "free"]
        /\ UNCHANGED <<request_list, completing, job, wpc, mpc>>
    BY <1>17 DEF WalkRelease, Finished, AioRelease, workerVars
  <2>2. /\ r \in ToSet(head) /\ r \in Reqs
        /\ ToSet(head') = ToSet(head) \ {r} /\ IsInjective(head')
        /\ ToSet(walk') = ToSet(walk) \ {r} /\ IsInjective(walk') /\ mpc = "walk"
    BY <2>1, WalkHead
  <2> HIDE DEF r
  <2>3. r \notin ToSet(completing) /\ r \notin ToSet(request_list)
    BY <1>0, <2>1, <2>2 DEF ListsConsistent
  <2>4. ListsConsistent'
    BY <1>0, <1>1, <2>1, <2>2, <2>3 DEF ListsConsistent, TypeOK
  <2>5. WalkOK'
    BY <1>0, <2>1, <2>2 DEF WalkOK
  <2>6. CallbacksOK'
    <3>1. ToSet(completing) \subseteq Reqs
      BY <1>0, Elements DEF TypeOK
    <3> QED BY <1>0, <2>1, <2>2, <2>3, <3>1 DEF CallbacksOK, TypeOK
  <2>7. JobsOK'
    BY <1>0, <2>1 DEF JobsOK, Workers, TypeOK
  <2> QED BY <2>4, <2>5, <2>6, <2>7
<1>18. CASE CallbackReturn
  <2> DEFINE r == Last(completing)
  <2>1. /\ completing # <<>> /\ completing' = Front(completing) /\ walk' = head
        /\ state' = [state EXCEPT ![r] = "free"] /\ mpc' = "walk"
        /\ UNCHANGED <<head, request_list, job, wpc>>
    BY <1>18 DEF CallbackReturn, AioRelease, lists, workerVars
  <2>2. /\ r \in ToSet(completing) /\ r \in Reqs
        /\ ToSet(completing') = ToSet(completing) \ {r} /\ IsInjective(completing')
    BY <2>1, TopCallback
  <2> HIDE DEF r
  <2>3. state[r] = "done" /\ r \notin ToSet(head) /\ r \notin ToSet(request_list)
    BY <1>0, <2>2 DEF CallbacksOK, ListsConsistent
  <2>4. ListsConsistent'
    BY <1>0, <1>1, <2>1, <2>2, <2>3 DEF ListsConsistent, TypeOK
  <2>5. WalkOK'
    BY <1>0, <2>1 DEF WalkOK, ListsConsistent
  <2>6. CallbacksOK'
    <3>1. ToSet(completing) \subseteq Reqs
      BY <1>0, Elements DEF TypeOK
    <3> QED BY <1>0, <2>1, <2>2, <3>1 DEF CallbacksOK, TypeOK
  <2>7. JobsOK'
    BY <1>0, <2>1, <2>3 DEF JobsOK, Workers, TypeOK
  <2> QED BY <2>4, <2>5, <2>6, <2>7
<1> QED BY <1>4, <1>5, <1>6, <1>7, <1>8, <1>9, <1>10, <1>11, <1>12, <1>13, <1>14,
           <1>15, <1>16, <1>17, <1>18 DEF Next, Main, Worker

\* A finished element in the list is not forgotten.
LEMMA CompletionStep == IInv /\ Next => NoLostCompletion'
<1> SUFFICES ASSUME IInv, Next, NEW r \in ToSet(head'), state'[r] \in {"done", "canceled"}
             PROVE  \/ notifier'
                    \/ \E t \in Threads : wpc'[t] = "done" /\ job'[t] = r
                    \/ r \in ToSet(walk')
                    \/ completing' # <<>>
  BY DEF NoLostCompletion, Finished
<1> DEFINE Remembered == \/ notifier'
                         \/ \E t \in Threads : wpc'[t] = "done" /\ job'[t] = r
                         \/ r \in ToSet(walk')
                         \/ completing' # <<>>
<1>0. TypeOK /\ NoLostCompletion /\ JobsOK /\ r \in Reqs
  BY TypeStep, Elements DEF IInv, TypeOK
<1>1. ASSUME r \in ToSet(head), Finished(r)
      PROVE  \/ notifier
             \/ \E t \in Threads : wpc[t] = "done" /\ job[t] = r
             \/ r \in ToSet(walk)
             \/ completing # <<>>
  BY <1>0, <1>1 DEF NoLostCompletion
\* Nothing the property speaks of gets lost.
<1>2. ASSUME UNCHANGED <<head, state, walk, completing>>, notifier => notifier',
             \A t \in Threads : wpc[t] = "done" => wpc'[t] = "done" /\ job'[t] = job[t]
      PROVE  Remembered
  BY <1>1, <1>2 DEF Finished
<1>3. ASSUME NEW w, NEW q, DoSpawnThread(w, q), w \in [Threads -> WorkerPCs],
             \A u \in Threads : wpc[u] = "done" => w[u] = "done"
      PROVE  \A u \in Threads : wpc[u] = "done" => wpc'[u] = "done"
  <2>1. CASE wpc' = w
    BY <1>3, <2>1
  <2>2. CASE wpc' # w
    <3>1. PICK t \in Threads : w[t] = "none" /\ wpc' = [w EXCEPT ![t] = "created"]
      BY <1>3, <2>2 DEF DoSpawnThread
    <3> QED BY <1>3, <3>1
  <2> QED BY <2>1, <2>2
<1>4. ASSUME NEW t \in Threads, WorkerStart(t) PROVE Remembered
  <2> DEFINE w == [wpc EXCEPT ![t] = "waiting"]
  <2>1. /\ w \in [Threads -> WorkerPCs] /\ DoSpawnThread(w, pending_threads - 1)
        /\ \A u \in Threads : wpc[u] = "done" => w[u] = "done"
    BY <1>0, <1>4 DEF WorkerStart, TypeOK, WorkerPCs
  <2> HIDE DEF w
  <2>2. \A u \in Threads : wpc[u] = "done" => wpc'[u] = "done"
    BY <1>3, <2>1
  <2> QED BY <1>2, <1>4, <2>2
          DEF WorkerStart, elemVars, lists, signals, mainVars
<1>5. ASSUME NEW t \in Threads,
             WorkerSemWait(t) \/ WorkerTimeout(t) \/ WorkerTimedOut(t) \/ WorkerFunc(t)
      PROVE  Remembered
  <2>1. \A u \in Threads : wpc[u] = "done" => wpc'[u] = "done"
    BY <1>0, <1>5 DEF TypeOK, WorkerSemWait, WorkerTimeout, WorkerTimedOut,
        WorkerFunc, WorkerGoes
  <2>2. UNCHANGED <<head, state, walk, completing, notifier, job>>
    BY <1>5 DEF WorkerSemWait, WorkerTimeout, WorkerTimedOut, WorkerFunc,
        elemVars, lists, signals, mainVars
  <2> QED BY <1>2, <2>1, <2>2
<1>6. ASSUME NEW t \in Threads, WorkerTake(t) PROVE Remembered
  <2>1. /\ wpc[t] = "gotsem" /\ wpc' = [wpc EXCEPT ![t] = "running"]
        /\ job' = [job EXCEPT ![t] = Head(request_list)]
        /\ state' = [state EXCEPT ![Head(request_list)] = "active"]
        /\ UNCHANGED <<head, walk, completing, notifier>>
    BY <1>6 DEF WorkerTake, WorkerGoes, signals, mainVars
  <2>2. Finished(r)
    BY <1>0, <2>1 DEF TypeOK, Finished
  <2> QED BY <1>0, <1>1, <2>1, <2>2 DEF TypeOK
<1>7. ASSUME NEW t \in Threads, WorkerDone(t) PROVE Remembered
  <2>1. /\ wpc[t] = "ret" /\ wpc' = [wpc EXCEPT ![t] = "done"]
        /\ state' = [state EXCEPT ![job[t]] = "done"]
        /\ UNCHANGED <<head, walk, completing, notifier, job>>
    BY <1>7 DEF WorkerDone, WorkerGoes, lists, signals, mainVars
  <2>2. CASE r = job[t]
    BY <1>0, <2>1, <2>2 DEF TypeOK
  <2>3. CASE r # job[t]
    <3>1. Finished(r)
      BY <1>0, <2>1, <2>3 DEF TypeOK, Finished
    <3> QED BY <1>0, <1>1, <2>1, <3>1 DEF TypeOK
  <2> QED BY <2>2, <2>3
<1>8. ASSUME NEW t \in Threads, WorkerNotify(t) PROVE Remembered
  BY <1>8 DEF WorkerNotify
<1>9. ASSUME NEW s \in Reqs, NEW c \in BOOLEAN, Submit(s, c) PROVE Remembered
  <2>1. /\ state' = [state EXCEPT ![s] = "queued"] /\ head' = <<s>> \o head
        /\ UNCHANGED <<walk, completing, notifier, wpc, job>>
    BY <1>9 DEF Submit, workerVars
  <2>2. r # s /\ Finished(r)
    BY <1>0, <2>1 DEF TypeOK, Finished
  <2>3. r \in ToSet(head)
    BY <1>0, <2>1, <2>2, ConsSet DEF TypeOK
  <2> QED BY <1>1, <2>1, <2>2, <2>3
<1>10. ASSUME NEW s \in Reqs, CancelSteal(s) PROVE Remembered
  BY <1>10 DEF CancelSteal
<1>11. ASSUME NEW s \in Reqs, CancelBlock(s) PROVE Remembered
  BY <1>2, <1>11 DEF CancelBlock, elemVars, lists, signals, workerVars
<1>12. CASE SubmitPost \/ CancelWake \/ AioWait \/ AioWaitIdle
  BY <1>2, <1>12 DEF SubmitPost, CancelWake, AioWait, AioWaitIdle, elemVars,
        lists, signals, workerVars
<1>13. CASE SpawnThreadBH
  <2>1. \A u \in Threads : wpc[u] = "done" => wpc'[u] = "done"
    BY <1>0, <1>3, <1>13 DEF SpawnThreadBH, TypeOK
  <2> QED BY <1>2, <1>13, <2>1 DEF SpawnThreadBH, elemVars, lists
<1>14. CASE NotifierReady
  BY <1>14 DEF NotifierReady, lists
<1>15. CASE WalkSkip
  <2>1. /\ walk # <<>> /\ walk' = Tail(walk) /\ ~ Finished(Head(walk))
        /\ UNCHANGED <<head, state, completing, notifier, wpc, job>>
    BY <1>15 DEF WalkSkip, elemVars, lists, signals, workerVars
  <2>2. ToSet(Tail(walk)) = ToSet(walk) \ {Head(walk)}
    BY <2>1, WalkHead
  <2>3. Finished(r) /\ r # Head(walk)
    BY <2>1 DEF Finished
  <2> QED BY <1>1, <2>1, <2>2, <2>3
<1>16. CASE WalkCallback
  <2>1. completing' = Append(completing, Head(walk)) /\ Head(walk) \in Reqs
    BY <1>16, WalkHead DEF WalkCallback
  <2>2. completing \in Seq(Reqs)
    BY <1>0 DEF TypeOK
  <2>3. ToSet(completing') = ToSet(completing) \cup {Head(walk)}
    BY <2>1, <2>2, AppendSet
  <2>4. completing' # <<>>
    BY <2>3, EmptySet
  <2> QED BY <2>4
<1>17. CASE WalkRelease
  <2>1. /\ walk # <<>> /\ walk' = Tail(walk) /\ head' = Unlink(head, Head(walk))
        /\ state' = [state EXCEPT ![Head(walk)] = "free"]
        /\ UNCHANGED <<completing, notifier, wpc, job>>
    BY <1>17 DEF WalkRelease, AioRelease, signals, workerVars
  <2>2. /\ ToSet(Tail(walk)) = ToSet(walk) \ {Head(walk)}
        /\ ToSet(head') = ToSet(head) \ {Head(walk)}
    BY <2>1, WalkHead
  <2>3. r # Head(walk) /\ r \in ToSet(head)
    BY <2>2
  <2>4. Finished(r)
    BY <1>0, <2>1, <2>3 DEF TypeOK, Finished
  <2> QED BY <1>1, <2>1, <2>2, <2>3, <2>4
<1>18. CASE CallbackReturn
  BY <1>18 DEF CallbackReturn, lists
<1>19. CASE WalkEnd
  BY <1>2, <1>19 DEF WalkEnd, elemVars, lists, signals, workerVars
<1> QED BY <1>4, <1>5, <1>6, <1>7, <1>8, <1>9, <1>10, <1>11, <1>12, <1>13, <1>14,
           <1>15, <1>16, <1>17, <1>18, <1>19 DEF Next, Main, Worker

-----------------------------------------------------------------------------
(* The theorems.                                                           *)

\* The pool starts in a state of the invariant.
LEMMA InitInvariant == Init => IInv
<1> SUFFICES ASSUME Init PROVE IInv
  OBVIOUS
<1> USE DEF Init
<1>1. TypeOK
  BY EmptySet DEF TypeOK, WorkerPCs
<1>2. \A t \in Threads : wpc[t] = "none"
  OBVIOUS
<1>3. /\ Count(wpc, Existing) = 0 /\ Count(wpc, Created) = 0
      /\ Count(wpc, Idle) = 0 /\ Count(wpc, GotSem) = 0
  BY <1>2, CountZero, Places
<1>4. ThreadAccounting
  BY <1>3, Recount, PoolAssumption DEF PoolAssumption
<1>5. TokensMatch
  BY <1>3, Recount, PostingType, EmptySet
<1>6. SpawnPromise /\ NoStrandedRequest /\ CancelOK
  BY DEF SpawnPromise, NoStrandedRequest, CancelOK
<1>7. ListsConsistent
  BY EmptySet DEF ListsConsistent
<1>8. NoLostCompletion /\ JobsOK /\ WalkOK /\ CallbacksOK
  BY EmptySet DEF NoLostCompletion, JobsOK, WalkOK, CallbacksOK, Workers
<1> QED BY <1>1, <1>4, <1>5, <1>6, <1>7, <1>8 DEF IInv

\* Stuttering preserves the invariant.
LEMMA StutterInvariant == IInv /\ UNCHANGED vars => IInv'
<1> SUFFICES ASSUME IInv, UNCHANGED vars PROVE IInv'
  OBVIOUS
<1>1. UNCHANGED <<head, request_list, state, ret, cb, sem, notifier, bh, cur_threads,
                  idle_threads, new_threads, pending_threads, wpc, job, mpc, walk,
                  completing, pending_cancellations, target, woken>>
  BY DEF vars, elemVars, lists, signals, counters, workerVars, mainVars, cancelVars
<1> QED BY <1>1 DEF IInv, TypeOK, TokensMatch, ThreadAccounting, SpawnPromise,
        NoStrandedRequest, ListsConsistent, NoLostCompletion, Finished, JobsOK,
        WalkOK, CallbacksOK, CancelOK, Workers, Alive

\* IInv is an invariant of the pool.
THEOREM Invariance == Spec => []IInv
<1>1. IInv /\ [Next]_vars => IInv'
  <2>1. IInv /\ Next => IInv'
    BY TypeStep, AccountingStep, PromiseStep, ListsStep, CompletionStep DEF IInv
  <2> QED BY <2>1, StutterInvariant
<1> QED BY <1>1, InitInvariant, PTL DEF Spec

\* The variables keep their types: no counter of the pool goes below zero.
THEOREM TypeCorrect == Spec => []TypeOK
<1>1. IInv => TypeOK
  BY DEF IInv
<1> QED BY <1>1, Invariance, PTL

\* A worker that owns a token of the semaphore finds a request in the list.
THEOREM TokensAlwaysMatch == Spec => []TokensMatch
<1>1. IInv => TokensMatch
  BY DEF IInv
<1> QED BY <1>1, Invariance, PTL

\* The counters are right and the pool never exceeds max_threads.
THEOREM AccountingHolds == Spec => []ThreadAccounting
<1>1. IInv => ThreadAccounting
  BY DEF IInv
<1> QED BY <1>1, Invariance, PTL

\* A backlog of threads has somebody who will create them: the bottom half that
\* spawn_thread schedules, or a worker that is starting.
THEOREM PromiseKept == Spec => []SpawnPromise
<1>1. IInv => SpawnPromise
  BY DEF IInv
<1> QED BY <1>1, Invariance, PTL

\* A queued request has a thread, or one is being created for it.
THEOREM NobodyForgotten == Spec => []NoStrandedRequest
<1>1. IInv => NoStrandedRequest
  BY DEF IInv
<1> QED BY <1>1, Invariance, PTL

\* The lists agree with the states of the elements.
THEOREM ListsStayConsistent == Spec => []ListsConsistent
<1>1. IInv => ListsConsistent
  BY DEF IInv
<1> QED BY <1>1, Invariance, PTL

\* Clearing the notifier before the walk loses no completion.
THEOREM CompletionsNotLost == Spec => []NoLostCompletion
<1>1. IInv => NoLostCompletion
  BY DEF IInv
<1> QED BY <1>1, Invariance, PTL

-----------------------------------------------------------------------------
(* The pool implements AioRequest.                                         *)

\* The phase and the result of one element, as the instance Aio maps them.
Phase(r) ==
    CASE state[r] = "free" -> "idle"
      [] state[r] = "queued" -> "submitted"
      [] state[r] = "active" -> "running"
      [] state[r] = "canceled" -> "cancelled"
      [] state[r] = "done" -> IF r \in ToSet(completing) THEN "callback" ELSE "finished"
Result(r) == IF state[r] = "done" THEN ret[r] ELSE Garbage
Phases == [r \in Reqs |-> Phase(r)]
ResultOf == [r \in Reqs |-> Result(r)]

\* The actions of AioRequest in these terms.
LEMMA AioActions ==
    ASSUME NEW r \in Reqs
    PROVE  /\ \A from, to : Aio!Move(r, from, to) <=>
                Phases[r] = from /\ Phases' = [Phases EXCEPT ![r] = to]
           /\ Aio!Submit(r) <=>
                /\ Aio!Move(r, "idle", "submitted")
                /\ \E w \in BOOLEAN : cb' = [cb EXCEPT ![r] = w]
                /\ UNCHANGED ResultOf
           /\ Aio!Start(r) <=> Aio!Move(r, "submitted", "running") /\ UNCHANGED <<ResultOf, cb>>
           /\ Aio!Finish(r) <=>
                /\ Aio!Move(r, "running", "finished")
                /\ \E v \in Results : ResultOf' = [ResultOf EXCEPT ![r] = v]
                /\ UNCHANGED cb
           /\ Aio!Cancel(r) <=>
                Aio!Move(r, "submitted", "cancelled") /\ UNCHANGED <<ResultOf, cb>>
           /\ Aio!Deliver(r) <=>
                cb[r] /\ Aio!Move(r, "finished", "callback") /\ UNCHANGED <<ResultOf, cb>>
           /\ Aio!Release(r) <=>
                /\ \/ Aio!Move(r, "callback", "idle")
                   \/ Aio!Move(r, "cancelled", "idle")
                   \/ ~ cb[r] /\ Aio!Move(r, "finished", "idle")
                /\ ResultOf' = [ResultOf EXCEPT ![r] = Garbage]
                /\ cb' = [cb EXCEPT ![r] = FALSE]
<1>1. \A from, to : Aio!Move(r, from, to) <=>
                Phases[r] = from /\ Phases' = [Phases EXCEPT ![r] = to]
  BY DEF Aio!Move, Phases, Phase
<1>2. Aio!Submit(r) <=>
                /\ Aio!Move(r, "idle", "submitted")
                /\ \E w \in BOOLEAN : cb' = [cb EXCEPT ![r] = w]
                /\ UNCHANGED ResultOf
  BY DEF Aio!Submit, ResultOf, Result
<1>3. Aio!Start(r) <=> Aio!Move(r, "submitted", "running") /\ UNCHANGED <<ResultOf, cb>>
  BY DEF Aio!Start, ResultOf, Result
<1>4. Aio!Finish(r) <=>
                /\ Aio!Move(r, "running", "finished")
                /\ \E v \in Results : ResultOf' = [ResultOf EXCEPT ![r] = v]
                /\ UNCHANGED cb
  BY DEF Aio!Finish, ResultOf, Result
<1>5. Aio!Cancel(r) <=>
                Aio!Move(r, "submitted", "cancelled") /\ UNCHANGED <<ResultOf, cb>>
  BY DEF Aio!Cancel, ResultOf, Result
<1>6. Aio!Deliver(r) <=>
                cb[r] /\ Aio!Move(r, "finished", "callback") /\ UNCHANGED <<ResultOf, cb>>
  BY DEF Aio!Deliver, ResultOf, Result
<1>7. Aio!Release(r) <=>
                /\ \/ Aio!Move(r, "callback", "idle")
                   \/ Aio!Move(r, "cancelled", "idle")
                   \/ ~ cb[r] /\ Aio!Move(r, "finished", "idle")
                /\ ResultOf' = [ResultOf EXCEPT ![r] = Garbage]
                /\ cb' = [cb EXCEPT ![r] = FALSE]
  BY DEF Aio!Release, ResultOf, Result
<1> QED BY <1>1, <1>2, <1>3, <1>4, <1>5, <1>6, <1>7

\* Nothing that a submitter can see changes.
LEMMA AioStutter ==
    ASSUME UNCHANGED <<state, cb, completing>>,
           \A r \in Reqs : state[r] = "done" => ret'[r] = ret[r]
    PROVE  UNCHANGED Aio!vars
<1>1. Phases' = Phases
  BY DEF Phases, Phase
<1>2. ResultOf' = ResultOf
  BY DEF ResultOf, Result
<1> QED BY <1>1, <1>2 DEF Aio!vars, Phases, Phase, ResultOf, Result

\* One element moves.
LEMMA AioMoves ==
    ASSUME NEW e \in Reqs,
           \A r \in Reqs \ {e} :
                /\ state'[r] = state[r] /\ ret'[r] = ret[r]
                /\ r \in ToSet(completing') <=> r \in ToSet(completing)
    PROVE  /\ Phases' = [Phases EXCEPT ![e] = Phase(e)'] /\ Phases[e] = Phase(e)
           /\ ResultOf' = [ResultOf EXCEPT ![e] = Result(e)']
           /\ Result(e)' = Result(e) => ResultOf' = ResultOf
<1>1. \A r \in Reqs \ {e} : Phase(r)' = Phase(r) /\ Result(r)' = Result(r)
  BY DEF Phase, Result
<1> QED BY <1>1 DEF Phases, ResultOf

\* A worker that has not yet published its element has written the result.
ResultReady == \A t \in Workers({"ret"}) : ret[job[t]] \in Results

\* Every step of the pool is a step of AioRequest, or invisible to it.
LEMMA AioStep ==
    ASSUME IInv, ResultReady, Next
    PROVE  ResultReady' /\ [Aio!Next]_(Aio!vars)
<1> DEFINE Goal == ResultReady' /\ [Aio!Next]_(Aio!vars)
<1>0. TypeOK /\ ListsConsistent /\ JobsOK /\ WalkOK /\ CallbacksOK
  BY DEF IInv
<1>1. ToSet(completing) \subseteq Reqs /\ ToSet(head) \subseteq Reqs
  BY <1>0, Elements DEF TypeOK
<1>2. ASSUME NEW w, NEW p, DoSpawnThread(w, p), w \in [Threads -> WorkerPCs],
             \A u \in Threads : w[u] = "ret" => wpc[u] = "ret"
      PROVE  \A u \in Threads : wpc'[u] = "ret" => wpc[u] = "ret"
  <2>1. CASE wpc' = w
    BY <1>2, <2>1
  <2>2. CASE wpc' # w
    <3>1. PICK t \in Threads : wpc' = [w EXCEPT ![t] = "created"]
      BY <1>2, <2>2 DEF DoSpawnThread
    <3> QED BY <1>2, <3>1
  <2> QED BY <2>1, <2>2
<1>3. ASSUME UNCHANGED <<state, ret, cb, completing, job>>,
             \A u \in Threads : wpc'[u] = "ret" => wpc[u] = "ret"
      PROVE  Goal
  <2>1. ResultReady'
    BY <1>3 DEF ResultReady, Workers
  <2>2. UNCHANGED Aio!vars
    BY <1>3, AioStutter
  <2> QED BY <2>1, <2>2
\* An element that no worker is about to publish is released.
<1>4. ASSUME NEW r \in Reqs, state[r] \in {"done", "canceled"}, AioRelease(r),
             UNCHANGED <<wpc, job>>
      PROVE  ResultReady'
  <2>1. \A t \in Workers({"ret"}) : job[t] \in Reqs /\ job[t] # r
    BY <1>0, <1>4 DEF JobsOK, Workers
  <2>2. \A x \in Reqs \ {r} : ret'[x] = ret[x]
    BY <1>0, <1>4 DEF AioRelease, TypeOK
  <2> QED BY <1>4, <2>1, <2>2 DEF ResultReady, Workers
<1>5. ASSUME NEW t \in Threads, WorkerStart(t) PROVE Goal
  <2> DEFINE w == [wpc EXCEPT ![t] = "waiting"]
  <2>1. w \in [Threads -> WorkerPCs] /\ DoSpawnThread(w, pending_threads - 1)
    BY <1>0, <1>5 DEF WorkerStart, TypeOK, WorkerPCs
  <2>2. \A u \in Threads : w[u] = "ret" => wpc[u] = "ret"
    BY <1>0 DEF TypeOK
  <2> HIDE DEF w
  <2>3. UNCHANGED <<state, ret, cb, completing, job>>
    BY <1>5 DEF WorkerStart, elemVars, mainVars
  <2> QED BY <1>2, <1>3, <2>1, <2>2, <2>3
<1>6. ASSUME NEW t \in Threads, WorkerSemWait(t) \/ WorkerTimeout(t) \/ WorkerTimedOut(t)
      PROVE  Goal
  <2>1. \A u \in Threads : wpc'[u] = "ret" => wpc[u] = "ret"
    BY <1>0, <1>6 DEF TypeOK, WorkerSemWait, WorkerTimeout, WorkerTimedOut, WorkerGoes
  <2>2. UNCHANGED <<state, ret, cb, completing, job>>
    BY <1>6 DEF WorkerSemWait, WorkerTimeout, WorkerTimedOut, elemVars, mainVars
  <2> QED BY <1>3, <2>1, <2>2
<1>7. ASSUME NEW t \in Threads, WorkerTake(t) PROVE Goal
  <2>0. PICK r : r = Head(request_list)
    OBVIOUS
  <2>1. /\ request_list # <<>> /\ state' = [state EXCEPT ![r] = "active"]
        /\ wpc[t] = "gotsem" /\ wpc' = [wpc EXCEPT ![t] = "running"]
        /\ job' = [job EXCEPT ![t] = r] /\ UNCHANGED <<ret, cb, completing>>
    BY <2>0, <1>7 DEF WorkerTake, WorkerGoes, mainVars
  <2>2. r \in Reqs /\ state[r] = "queued"
    BY <2>0, <1>0, <2>1, TailSet DEF TypeOK, ListsConsistent
  <2>3. ResultReady'
    BY <1>0, <2>1 DEF ResultReady, Workers, TypeOK
  <2>4. /\ state'[r] = "active" /\ \A x \in Reqs \ {r} : state'[x] = state[x]
    BY <1>0, <2>1, <2>2 DEF TypeOK
  <2>5. /\ Phase(r) = "submitted" /\ Phase(r)' = "running" /\ Result(r)' = Result(r)
    BY <2>2, <2>4 DEF Phase, Result
  <2>6. Aio!Start(r)
    BY <2>1, <2>2, <2>4, <2>5, AioMoves, AioActions
  <2> QED BY <2>2, <2>3, <2>6 DEF Aio!Next
<1>8. ASSUME NEW t \in Threads, WorkerFunc(t) PROVE Goal
  <2>1. PICK v \in Results : ret' = [ret EXCEPT ![job[t]] = v]
    BY <1>8 DEF WorkerFunc
  <2>2. /\ wpc[t] = "running" /\ wpc' = [wpc EXCEPT ![t] = "ret"]
        /\ UNCHANGED <<state, cb, completing, job>>
    BY <1>8 DEF WorkerFunc, WorkerGoes, mainVars
  <2>3. job[t] \in Reqs /\ state[job[t]] = "active"
    BY <1>0, <2>2 DEF JobsOK, Workers
  <2>4. ret'[job[t]] = v /\ \A x \in Reqs \ {job[t]} : ret'[x] = ret[x]
    BY <1>0, <2>1, <2>3 DEF TypeOK
  <2>5. ResultReady'
    <3> SUFFICES ASSUME NEW u \in Threads, wpc'[u] = "ret" PROVE ret'[job[u]] \in Results
      BY <2>2 DEF ResultReady, Workers
    <3>1. CASE job[u] = job[t]
      BY <2>4, <3>1
    <3>2. CASE job[u] # job[t]
      <4>1. wpc[u] = "ret"
        BY <1>0, <2>2, <3>2 DEF TypeOK
      <4>2. job[u] \in Reqs /\ ret[job[u]] \in Results
        BY <1>0, <4>1 DEF JobsOK, ResultReady, Workers
      <4> QED BY <2>4, <3>2, <4>2
    <3> QED BY <3>1, <3>2
  <2>6. UNCHANGED Aio!vars
    BY <2>2, <2>3, <2>4, AioStutter
  <2> QED BY <2>5, <2>6
<1>9. ASSUME NEW t \in Threads, WorkerDone(t) PROVE Goal
  <2>0. PICK r : r = job[t]
    OBVIOUS
  <2>1. /\ state' = [state EXCEPT ![r] = "done"]
        /\ wpc[t] = "ret" /\ wpc' = [wpc EXCEPT ![t] = "done"]
        /\ UNCHANGED <<ret, cb, completing, job>>
    BY <2>0, <1>9 DEF WorkerDone, WorkerGoes, mainVars
  <2>2. r \in Reqs /\ state[r] = "active" /\ ret[r] \in Results
    BY <2>0, <1>0, <2>1 DEF JobsOK, ResultReady, Workers
  <2>3. ResultReady'
    BY <1>0, <2>1 DEF ResultReady, Workers, TypeOK
  <2>4. state'[r] = "done" /\ \A x \in Reqs \ {r} : state'[x] = state[x]
    BY <1>0, <2>1, <2>2 DEF TypeOK
  <2>5. r \notin ToSet(completing)
    BY <1>0, <2>2 DEF CallbacksOK
  <2>6. Phase(r) = "running" /\ Phase(r)' = "finished" /\ Result(r)' = ret[r]
    BY <2>1, <2>2, <2>4, <2>5 DEF Phase, Result
  <2>7. /\ Phases' = [Phases EXCEPT ![r] = "finished"] /\ Phases[r] = "running"
        /\ ResultOf' = [ResultOf EXCEPT ![r] = ret[r]]
    BY <2>1, <2>2, <2>4, <2>6, AioMoves
  <2>8. Aio!Finish(r)
    BY <2>1, <2>2, <2>7, AioActions
  <2> QED BY <2>2, <2>3, <2>8 DEF Aio!Next
<1>10. ASSUME NEW t \in Threads, WorkerNotify(t) PROVE Goal
  <2>1. /\ wpc[t] = "done" /\ wpc' = [wpc EXCEPT ![t] = "waiting"]
        /\ job' = [job EXCEPT ![t] = NoReq] /\ UNCHANGED <<state, ret, cb, completing>>
    BY <1>10 DEF WorkerNotify, WorkerGoes, elemVars, mainVars
  <2>2. ResultReady'
    BY <1>0, <2>1 DEF ResultReady, Workers, TypeOK
  <2>3. UNCHANGED Aio!vars
    BY <2>1, AioStutter
  <2> QED BY <2>2, <2>3
<1>11. ASSUME NEW r \in Reqs, NEW c \in BOOLEAN, Submit(r, c) PROVE Goal
  <2>1. /\ state[r] = "free" /\ state' = [state EXCEPT ![r] = "queued"]
        /\ cb' = [cb EXCEPT ![r] = c] /\ UNCHANGED <<ret, completing, wpc, job>>
    BY <1>11 DEF Submit, workerVars
  <2>2. ResultReady'
    BY <2>1 DEF ResultReady, Workers
  <2>3. state'[r] = "queued" /\ \A x \in Reqs \ {r} : state'[x] = state[x]
    BY <1>0, <2>1 DEF TypeOK
  <2>4. Phase(r) = "idle" /\ Phase(r)' = "submitted" /\ Result(r)' = Result(r)
    BY <2>1, <2>3 DEF Phase, Result
  <2>5. /\ Phases' = [Phases EXCEPT ![r] = "submitted"] /\ Phases[r] = "idle"
        /\ ResultOf' = ResultOf
    BY <2>1, <2>3, <2>4, AioMoves
  <2>6. Aio!Submit(r)
    BY <2>1, <2>5, AioActions
  <2> QED BY <2>2, <2>6 DEF Aio!Next
<1>12. ASSUME NEW r \in Reqs, CancelSteal(r) PROVE Goal
  <2>1. /\ state[r] = "queued" /\ state' = [state EXCEPT ![r] = "canceled"]
        /\ UNCHANGED <<ret, cb, completing, wpc, job>>
    BY <1>12 DEF CancelSteal, Stealable, workerVars, mainVars
  <2>2. ResultReady'
    BY <2>1 DEF ResultReady, Workers
  <2>3. state'[r] = "canceled" /\ \A x \in Reqs \ {r} : state'[x] = state[x]
    BY <1>0, <2>1 DEF TypeOK
  <2>4. Phase(r) = "submitted" /\ Phase(r)' = "cancelled" /\ Result(r)' = Result(r)
    BY <2>1, <2>3 DEF Phase, Result
  <2>5. Aio!Cancel(r)
    BY <2>1, <2>3, <2>4, AioMoves, AioActions
  <2> QED BY <2>2, <2>5 DEF Aio!Next
<1>13. ASSUME NEW r \in Reqs, CancelBlock(r) PROVE Goal
  <2>1. UNCHANGED <<state, ret, cb, completing, job, wpc>>
    BY <1>13 DEF CancelBlock, elemVars, workerVars
  <2> QED BY <1>3, <2>1
<1>14. CASE \/ SubmitPost \/ CancelWake \/ AioWait \/ AioWaitIdle \/ WalkEnd
            \/ NotifierReady \/ WalkSkip
  <2>1. UNCHANGED <<state, ret, cb, completing, job, wpc>>
    BY <1>14 DEF SubmitPost, CancelWake, AioWait, AioWaitIdle, WalkEnd, NotifierReady,
        WalkSkip, elemVars, workerVars
  <2> QED BY <1>3, <2>1
<1>15. CASE SpawnThreadBH
  <2>1. UNCHANGED <<state, ret, cb, completing, job>> /\ DoSpawnThread(wpc, pending_threads)
    BY <1>15 DEF SpawnThreadBH, elemVars
  <2>2. \A u \in Threads : wpc'[u] = "ret" => wpc[u] = "ret"
    BY <1>0, <1>2, <2>1 DEF TypeOK
  <2> QED BY <1>3, <2>1, <2>2
<1>16. CASE WalkCallback
  <2>0. PICK r : r = Head(walk)
    OBVIOUS
  <2>1. /\ walk # <<>> /\ completing' = Append(completing, r)
        /\ state[r] = "done" /\ cb[r] /\ UNCHANGED <<state, ret, cb, job, wpc>>
    BY <2>0, <1>16 DEF WalkCallback, HasCallback, elemVars, workerVars
  <2>2. r \in ToSet(head) /\ r \in Reqs
    BY <2>0, <2>1, WalkHead
  <2>3. r \notin ToSet(completing) /\ ToSet(completing') = ToSet(completing) \cup {r}
    BY <1>0, <2>1, <2>2, AppendSet DEF TypeOK, ListsConsistent
  <2>4. ResultReady'
    BY <2>1 DEF ResultReady, Workers
  <2>5. Phase(r) = "finished" /\ Phase(r)' = "callback" /\ Result(r)' = Result(r)
    BY <2>1, <2>3 DEF Phase, Result
  <2>6. Aio!Deliver(r)
    BY <2>1, <2>2, <2>3, <2>5, AioMoves, AioActions
  <2> QED BY <2>2, <2>4, <2>6 DEF Aio!Next
<1>17. CASE WalkRelease
  <2>0. PICK r : r = Head(walk)
    OBVIOUS
  <2>1. /\ walk # <<>> /\ state[r] \in {"done", "canceled"}
        /\ state[r] = "done" => ~ cb[r]
        /\ AioRelease(r) /\ UNCHANGED <<completing, job, wpc>>
    BY <2>0, <1>17 DEF WalkRelease, Finished, HasCallback, workerVars
  <2>2. r \in ToSet(head) /\ r \in Reqs
    BY <2>0, <2>1, WalkHead
  <2>3. r \notin ToSet(completing)
    BY <1>0, <2>2 DEF ListsConsistent
  <2>4. ResultReady'
    BY <1>4, <2>1, <2>2
  <2>5. /\ state'[r] = "free" /\ cb' = [cb EXCEPT ![r] = FALSE]
        /\ \A x \in Reqs \ {r} : state'[x] = state[x] /\ ret'[x] = ret[x]
    BY <1>0, <2>1, <2>2 DEF AioRelease, TypeOK
  <2>6. /\ Phase(r)' = "idle" /\ Result(r)' = Garbage
        /\ Phase(r) = IF state[r] = "done" THEN "finished" ELSE "cancelled"
    BY <2>1, <2>3, <2>5 DEF Phase, Result
  <2>7. /\ Phases' = [Phases EXCEPT ![r] = "idle"] /\ Phases[r] = Phase(r)
        /\ ResultOf' = [ResultOf EXCEPT ![r] = Garbage]
    BY <2>1, <2>2, <2>5, <2>6, AioMoves
  <2>8. Aio!Release(r)
    BY <2>1, <2>2, <2>5, <2>6, <2>7, AioActions
  <2> QED BY <2>2, <2>4, <2>8 DEF Aio!Next
<1>18. CASE CallbackReturn
  <2>0. PICK r : r = Last(completing)
    OBVIOUS
  <2>1. /\ completing # <<>> /\ completing' = Front(completing)
        /\ AioRelease(r) /\ UNCHANGED <<job, wpc>>
    BY <2>0, <1>18 DEF CallbackReturn, workerVars
  <2>2. /\ r \in ToSet(completing) /\ r \in Reqs
        /\ ToSet(completing') = ToSet(completing) \ {r}
    BY <2>0, <2>1, TopCallback
  <2>3. state[r] = "done"
    BY <1>0, <2>2 DEF CallbacksOK
  <2>4. ResultReady'
    BY <1>4, <2>1, <2>2, <2>3
  <2>5. /\ state'[r] = "free" /\ cb' = [cb EXCEPT ![r] = FALSE]
        /\ \A x \in Reqs \ {r} : state'[x] = state[x] /\ ret'[x] = ret[x]
    BY <1>0, <2>1, <2>2 DEF AioRelease, TypeOK
  <2>6. Phase(r)' = "idle" /\ Result(r)' = Garbage /\ Phase(r) = "callback"
    BY <2>2, <2>3, <2>5 DEF Phase, Result
  <2>7. /\ Phases' = [Phases EXCEPT ![r] = "idle"] /\ Phases[r] = "callback"
        /\ ResultOf' = [ResultOf EXCEPT ![r] = Garbage]
    BY <2>2, <2>5, <2>6, AioMoves
  <2>8. Aio!Release(r)
    BY <2>2, <2>5, <2>7, AioActions
  <2> QED BY <2>2, <2>4, <2>8 DEF Aio!Next
<1> QED BY <1>5, <1>6, <1>7, <1>8, <1>9, <1>10, <1>11, <1>12, <1>13, <1>14, <1>15,
           <1>16, <1>17, <1>18 DEF Next, Main, Worker

\* The pool implements AioRequest, for every number of threads and elements and
\* every depth of nested polling: func runs at most once and never after a
\* successful cancellation, the callback is called once, after func, with what
\* func returned.
THEOREM Refinement == Spec => ImplementsAio
<1>1. Init => Aio!Init
  <2> SUFFICES ASSUME Init PROVE Aio!Init
    OBVIOUS
  <2>1. Phases = [r \in Reqs |-> "idle"]
    BY DEF Init, Phases, Phase
  <2>2. ResultOf = [r \in Reqs |-> Garbage]
    BY DEF Init, ResultOf, Result
  <2> QED BY <2>1, <2>2 DEF Init, Aio!Init, Phases, Phase, ResultOf, Result
<1>2. Init => ResultReady
  BY DEF Init, ResultReady, Workers
<1>3. IInv /\ ResultReady /\ [Next]_vars => ResultReady' /\ [Aio!Next]_(Aio!vars)
  <2>1. ASSUME UNCHANGED vars, ResultReady PROVE ResultReady' /\ UNCHANGED Aio!vars
    <3>1. UNCHANGED <<state, ret, cb, completing, wpc, job>>
      BY <2>1 DEF vars, elemVars, mainVars, workerVars
    <3>2. UNCHANGED Aio!vars
      BY <3>1, AioStutter
    <3> QED BY <2>1, <3>1, <3>2 DEF ResultReady, Workers
  <2> QED BY <2>1, AioStep
<1> QED BY <1>1, <1>2, <1>3, Invariance, PTL DEF Spec, ImplementsAio, Aio!Spec
=============================================================================
