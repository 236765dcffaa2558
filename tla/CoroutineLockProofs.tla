------------------------ MODULE CoroutineLockProofs ------------------------
(***************************************************************************)
(* Theorems about CoroutineLock, for every number of coroutines and locks. *)
(***************************************************************************)
EXTENDS CoroutineLock, ListLemmas, FiniteSetTheorems

-----------------------------------------------------------------------------
(* The inductive invariant.                                                *)

\* Mutexes are locked as mutexes and read/write locks as such.
KindOK ==
    \A c \in Coroutines :
        /\ pc[c] \in {"lock", "locked"} => lk[c] \in Mutexes
        /\ pc[c] \in {"rdlock", "wrlock", "rdlocked", "wrlocked"} => lk[c] \in Rwlocks

IInv ==
    /\ TypeOK
    /\ KindOK
    /\ MutualExclusion
    /\ OnePlace
    /\ NoLostWakeup
    /\ OnlyWritersWait

-----------------------------------------------------------------------------
(* What the operations on the queues and on the stack do.                  *)

\* The running coroutine is on top of the stack and nowhere else.
LEMMA RunningFacts ==
    ASSUME TypeOK, OnePlace, NEW c \in Coroutines, Running(c)
    PROVE  /\ stack # <<>> /\ c \in ToSet(stack)
           /\ c \notin ToSet(unlock_bh_queue) /\ c \notin inflight
           /\ \A l \in Locks : c \notin ToSet(queue[l])
           /\ Front(stack) \in Seq(Coroutines)
           /\ ToSet(Front(stack)) = ToSet(stack) \ {c}
           /\ IsInjective(Front(stack))
<1>1. stack \in Seq(Coroutines) /\ stack # <<>> /\ Last(stack) = c /\ IsInjective(stack)
  BY DEF TypeOK, OnePlace, Running
<1>2. /\ c \in ToSet(stack) /\ Front(stack) \in Seq(Coroutines)
      /\ ToSet(Front(stack)) = ToSet(stack) \ {c} /\ IsInjective(Front(stack))
  BY <1>1, FrontSet
<1> QED BY <1>1, <1>2 DEF OnePlace

\* qemu_co_queue_wait moves the running coroutine from the stack to the queue.
LEMMA WaitFacts ==
    ASSUME TypeOK, OnePlace, NEW c \in Coroutines, Running(c), NEW l \in Locks,
           CoQueueWait(c, l)
    PROVE  /\ queue' \in [Locks -> Seq(Coroutines)]
           /\ ToSet(queue'[l]) = ToSet(queue[l]) \cup {c} /\ IsInjective(queue'[l])
           /\ \A k \in Locks \ {l} : queue'[k] = queue[k]
           /\ stack' \in Seq(Coroutines) /\ IsInjective(stack')
           /\ ToSet(stack') = ToSet(stack) \ {c}
<1>1. queue \in [Locks -> Seq(Coroutines)] /\ queue[l] \in Seq(Coroutines)
  BY DEF TypeOK
<1>2. IsInjective(queue[l]) /\ c \notin ToSet(queue[l])
  BY RunningFacts DEF OnePlace
<1>3. /\ Append(queue[l], c) \in Seq(Coroutines)
      /\ ToSet(Append(queue[l], c)) = ToSet(queue[l]) \cup {c}
      /\ IsInjective(Append(queue[l], c))
  BY <1>1, <1>2, AppendSet
<1>4. queue' = [queue EXCEPT ![l] = Append(queue[l], c)] /\ stack' = Front(stack)
  BY DEF CoQueueWait, Enqueue
<1>5. queue'[l] = Append(queue[l], c) /\ \A k \in Locks \ {l} : queue'[k] = queue[k]
  BY <1>1, <1>4
<1>6. queue' \in [Locks -> Seq(Coroutines)]
  BY <1>1, <1>3, <1>4
<1> QED BY <1>3, <1>4, <1>5, <1>6, RunningFacts

\* qemu_co_queue_next and qemu_co_queue_restart_all move waiters of one lock to
\* the queue of the bottom half, and schedule it.
LEMMA WakeFacts ==
    ASSUME TypeOK, OnePlace, NEW l \in Locks, CoQueueNext(l) \/ CoQueueRestartAll(l)
    PROVE  /\ queue' \in [Locks -> Seq(Coroutines)]
           /\ unlock_bh_queue' \in Seq(Coroutines) /\ scheduled' \in BOOLEAN
           /\ \A k \in Locks \ {l} : queue'[k] = queue[k]
           /\ IsInjective(queue'[l]) /\ IsInjective(unlock_bh_queue')
           /\ ToSet(queue'[l]) \subseteq ToSet(queue[l])
           /\ ToSet(unlock_bh_queue') =
                ToSet(unlock_bh_queue) \cup (ToSet(queue[l]) \ ToSet(queue'[l]))
           /\ scheduled => scheduled'
           /\ queue[l] # <<>> =>
                scheduled' /\ \E d \in ToSet(queue[l]) : d \in ToSet(unlock_bh_queue')
           /\ queue[l] = <<>> => UNCHANGED <<queue, unlock_bh_queue, scheduled>>
           /\ CoQueueRestartAll(l) => queue'[l] = <<>>
<1>1. /\ queue \in [Locks -> Seq(Coroutines)] /\ queue[l] \in Seq(Coroutines)
      /\ unlock_bh_queue \in Seq(Coroutines) /\ scheduled \in BOOLEAN
  BY DEF TypeOK
<1>2. /\ IsInjective(queue[l]) /\ IsInjective(unlock_bh_queue)
      /\ ToSet(unlock_bh_queue) \cap ToSet(queue[l]) = {}
  BY DEF OnePlace
<1>3. CASE queue[l] = <<>>
  <2>1. UNCHANGED <<queue, unlock_bh_queue, scheduled>>
    BY <1>3 DEF CoQueueNext, CoQueueRestartAll, bhVars
  <2>2. queue'[l] = <<>>
    BY <1>3, <2>1
  <2> QED BY <1>1, <1>2, <1>3, <2>1, <2>2
<1>4. CASE queue[l] # <<>> /\ CoQueueRestartAll(l)
  <2>1. /\ queue' = [queue EXCEPT ![l] = <<>>] /\ scheduled' = TRUE
        /\ unlock_bh_queue' = unlock_bh_queue \o queue[l]
    BY <1>4 DEF CoQueueRestartAll, BhSchedule
  <2>2. /\ queue'[l] = <<>> /\ \A k \in Locks \ {l} : queue'[k] = queue[k]
    BY <1>1, <2>1
  <2>3. queue' \in [Locks -> Seq(Coroutines)]
    BY <1>1, <2>1, EmptySet
  <2>4. /\ unlock_bh_queue' \in Seq(Coroutines) /\ IsInjective(unlock_bh_queue')
        /\ ToSet(unlock_bh_queue') = ToSet(unlock_bh_queue) \cup ToSet(queue[l])
    BY <1>1, <1>2, <2>1, ConcatSet
  <2>5. \E d \in ToSet(queue[l]) : d \in ToSet(unlock_bh_queue')
    BY <1>1, <1>4, <2>4, NonEmptySet
  <2>6. ToSet(queue'[l]) = {} /\ IsInjective(queue'[l])
    BY <2>2, EmptySet
  <2> QED BY <1>4, <2>1, <2>2, <2>3, <2>4, <2>5, <2>6
<1>5. CASE queue[l] # <<>> /\ CoQueueNext(l) /\ ~ CoQueueRestartAll(l)
  <2> DEFINE h == Head(queue[l])
  <2>1. /\ queue' = [queue EXCEPT ![l] = Tail(queue[l])] /\ scheduled' = TRUE
        /\ unlock_bh_queue' = Append(unlock_bh_queue, h)
    BY <1>5 DEF CoQueueNext, BhSchedule, Rest
  <2>2. /\ Tail(queue[l]) \in Seq(Coroutines) /\ IsInjective(Tail(queue[l]))
        /\ h \in ToSet(queue[l]) /\ h \in Coroutines
        /\ ToSet(Tail(queue[l])) = ToSet(queue[l]) \ {h}
    BY <1>1, <1>2, <1>5, TailSet
  <2> HIDE DEF h
  <2>3. /\ queue'[l] = Tail(queue[l]) /\ \A k \in Locks \ {l} : queue'[k] = queue[k]
    BY <1>1, <2>1
  <2>4. queue' \in [Locks -> Seq(Coroutines)]
    BY <1>1, <2>1, <2>2
  <2>5. h \notin ToSet(unlock_bh_queue)
    BY <1>2, <2>2
  <2>6. /\ unlock_bh_queue' \in Seq(Coroutines) /\ IsInjective(unlock_bh_queue')
        /\ ToSet(unlock_bh_queue') = ToSet(unlock_bh_queue) \cup {h}
    BY <1>1, <1>2, <2>1, <2>2, <2>5, AppendSet
  <2>7. /\ ToSet(queue[l]) \ ToSet(queue'[l]) = {h}
        /\ ToSet(queue'[l]) \subseteq ToSet(queue[l])
    BY <2>2, <2>3
  <2> QED BY <1>5, <2>1, <2>2, <2>3, <2>4, <2>6, <2>7
<1> QED BY <1>3, <1>4, <1>5

\* A coroutine that is not on the stack is entered.
LEMMA EnterFacts ==
    ASSUME TypeOK, OnePlace, NEW c \in Coroutines, c \notin ToSet(stack),
           stack' = Append(stack, c)
    PROVE  /\ stack' \in Seq(Coroutines) /\ IsInjective(stack')
           /\ ToSet(stack') = ToSet(stack) \cup {c}
BY AppendSet DEF TypeOK, OnePlace

\* The bottom half takes the oldest woken coroutine and enters it.
LEMMA BhNextFacts ==
    ASSUME TypeOK, OnePlace, BhNext
    PROVE  \E h \in ToSet(unlock_bh_queue) :
            /\ unlock_bh_queue' \in Seq(Coroutines) /\ IsInjective(unlock_bh_queue')
            /\ ToSet(unlock_bh_queue') = ToSet(unlock_bh_queue) \ {h}
            /\ stack' = Append(stack, h)
            /\ stack' \in Seq(Coroutines) /\ IsInjective(stack')
            /\ ToSet(stack') = ToSet(stack) \cup {h}
<1> DEFINE h == Head(unlock_bh_queue)
<1>1. /\ unlock_bh_queue \in Seq(Coroutines) /\ unlock_bh_queue # <<>>
      /\ IsInjective(unlock_bh_queue)
      /\ unlock_bh_queue' = Tail(unlock_bh_queue) /\ stack' = Append(stack, h)
  BY DEF TypeOK, OnePlace, BhNext
<1>2. /\ Tail(unlock_bh_queue) \in Seq(Coroutines) /\ IsInjective(Tail(unlock_bh_queue))
      /\ h \in ToSet(unlock_bh_queue) /\ h \in Coroutines
      /\ ToSet(Tail(unlock_bh_queue)) = ToSet(unlock_bh_queue) \ {h}
  BY <1>1, TailSet
<1> HIDE DEF h
<1>3. h \notin ToSet(stack)
  BY <1>2 DEF OnePlace
<1>4. /\ stack' \in Seq(Coroutines) /\ IsInjective(stack')
      /\ ToSet(stack') = ToSet(stack) \cup {h}
  BY <1>1, <1>2, <1>3, EnterFacts
<1> QED BY <1>1, <1>2, <1>4

\* One coroutine changes its place, and its lock.
LEMMA GoesFacts ==
    ASSUME TypeOK, NEW c \in Coroutines,
           NEW p \in {"none", "ready", "drain"} \cup Wanting \cup Holding,
           NEW l \in Locks \cup {NoLock}, Goes(c, p, l)
    PROVE  /\ pc' \in [Coroutines -> {"none", "ready", "drain"} \cup Wanting \cup Holding]
           /\ lk' \in [Coroutines -> Locks \cup {NoLock}]
           /\ pc'[c] = p /\ lk'[c] = l
           /\ \A d \in Coroutines \ {c} : pc'[d] = pc[d] /\ lk'[d] = lk[d]
BY DEF TypeOK, Goes

\* What an unlocking coroutine holds.
LEMMA HeldLock ==
    ASSUME KindOK, NEW c \in Coroutines
    PROVE  /\ pc[c] = "locked" => lk[c] \in Mutexes /\ lk[c] \in Locks
           /\ pc[c] \in {"rdlocked", "wrlocked"} => lk[c] \in Rwlocks /\ lk[c] \in Locks
BY DEF KindOK, Locks

\* A reader that unlocks is counted.
LEMMA ReaderCounted ==
    ASSUME TypeOK, MutualExclusion, NEW c \in Coroutines, NEW w \in Rwlocks,
           pc[c] = "rdlocked", lk[c] = w
    PROVE  /\ c \in Holders("rdlocked", w) /\ IsFiniteSet(Holders("rdlocked", w))
           /\ reader[w] = Cardinality(Holders("rdlocked", w)) /\ reader[w] > 0
           /\ ~ writer[w]
<1>1. IsFiniteSet(Holders("rdlocked", w))
  BY LockAssumption, FS_Subset DEF Holders, LockAssumption
<1>2. c \in Holders("rdlocked", w)
  BY DEF Holders
<1>3. reader[w] = Cardinality(Holders("rdlocked", w)) /\ reader[w] \in Nat
  BY DEF MutualExclusion, TypeOK
<1>4. reader[w] # 0
  BY <1>1, <1>2, <1>3, FS_EmptySet
<1> QED BY <1>1, <1>2, <1>3, <1>4 DEF MutualExclusion

\* Who unlocks a read/write lock that has a writer is the writer; who unlocks
\* one that has none is a reader.
LEMMA UnlockerKind ==
    ASSUME IInv, NEW c \in Coroutines, pc[c] \in {"rdlocked", "wrlocked"}
    PROVE  /\ writer[lk[c]] => pc[c] = "wrlocked"
           /\ ~ writer[lk[c]] => pc[c] = "rdlocked" /\ reader[lk[c]] > 0
<1>1. lk[c] \in Rwlocks
  BY HeldLock DEF IInv
<1>2. ASSUME writer[lk[c]] PROVE pc[c] = "wrlocked"
  BY <1>1, <1>2, ReaderCounted DEF IInv
<1>3. ASSUME ~ writer[lk[c]] PROVE pc[c] = "rdlocked" /\ reader[lk[c]] > 0
  <2>1. pc[c] # "wrlocked"
    BY <1>1, <1>3 DEF IInv, MutualExclusion, Holders
  <2> QED BY <1>1, <2>1, ReaderCounted DEF IInv
<1> QED BY <1>2, <1>3

-----------------------------------------------------------------------------
(* Every step preserves the types.                                         *)

\* The variables keep their types.
LEMMA TypeStep == IInv /\ Next => TypeOK'
<1> SUFFICES ASSUME IInv, Next PROVE TypeOK'
  OBVIOUS
<1>0. TypeOK /\ KindOK /\ MutualExclusion /\ OnePlace
  BY DEF IInv
<1> USE DEF TypeOK
<1>1. CASE BhRun
  <2>1. Top \in Pollers
    BY <1>0, Elements DEF Top, Pollers, Last
  <2> QED BY <1>0, <1>1, <2>1 DEF BhRun, lockVars, coVars
<1>2. CASE BhNext
  <2>1. unlock_bh_queue' \in Seq(Coroutines) /\ stack' \in Seq(Coroutines)
    BY <1>0, <1>2, BhNextFacts
  <2> QED BY <1>0, <1>2, <2>1 DEF BhNext, lockVars, coVars
<1>3. CASE BhReturn
  BY <1>0, <1>3 DEF BhReturn, bhVars, lockVars, coVars
<1>4. ASSUME NEW c \in Coroutines, Start(c) PROVE TypeOK'
  <2>1. stack' \in Seq(Coroutines)
    BY <1>0, <1>4, AppendSet DEF Start
  <2>2. /\ pc' \in [Coroutines -> {"none", "ready", "drain"} \cup Wanting \cup Holding]
        /\ lk' \in [Coroutines -> Locks \cup {NoLock}]
    BY <1>0, <1>4, GoesFacts DEF Start
  <2> QED BY <1>0, <1>4, <2>1, <2>2 DEF Start, bhVars, lockVars
<1>5. ASSUME NEW c \in Coroutines, AioDone(c) PROVE TypeOK'
  <2>1. stack' \in Seq(Coroutines)
    BY <1>0, <1>5, AppendSet DEF AioDone
  <2> QED BY <1>0, <1>5, <2>1 DEF AioDone, bhVars, lockVars, coVars
<1>6. ASSUME NEW c \in Coroutines, NEW m \in Mutexes, MutexLock(c, m) PROVE TypeOK'
  <2>0. m \in Locks /\ Running(c)
    BY <1>6 DEF Locks, MutexLock, Locking
  <2>1. CASE MutexBusy(c, m)
    <3>1. CoQueueWait(c, m) /\ Goes(c, "lock", m) /\ UNCHANGED locked
      BY <1>6, <2>1 DEF MutexLock
    <3>2. queue' \in [Locks -> Seq(Coroutines)] /\ stack' \in Seq(Coroutines)
      BY <1>0, <2>0, <3>1, WaitFacts
    <3>3. /\ pc' \in [Coroutines -> {"none", "ready", "drain"} \cup Wanting \cup Holding]
          /\ lk' \in [Coroutines -> Locks \cup {NoLock}]
      BY <1>0, <2>0, <3>1, GoesFacts DEF Wanting
    <3> QED BY <1>0, <1>6, <3>1, <3>2, <3>3 DEF MutexLock, bhVars
  <2>2. CASE ~ MutexBusy(c, m)
    <3>1. /\ locked' = [locked EXCEPT ![m] = TRUE] /\ Goes(c, "locked", m)
          /\ UNCHANGED <<queue, stack>>
      BY <1>6, <2>2 DEF MutexLock
    <3>3. /\ pc' \in [Coroutines -> {"none", "ready", "drain"} \cup Wanting \cup Holding]
          /\ lk' \in [Coroutines -> Locks \cup {NoLock}]
      BY <1>0, <2>0, <3>1, GoesFacts DEF Holding
    <3> QED BY <1>0, <1>6, <3>1, <3>3 DEF MutexLock, bhVars
  <2> QED BY <2>1, <2>2
<1>7. ASSUME NEW c \in Coroutines, NEW w \in Rwlocks, RwlockRdlock(c, w) PROVE TypeOK'
  <2>0. w \in Locks /\ Running(c)
    BY <1>7 DEF Locks, RwlockRdlock, Locking
  <2>1. CASE writer[w]
    <3>1. CoQueueWait(c, w) /\ Goes(c, "rdlock", w) /\ UNCHANGED reader
      BY <1>7, <2>1 DEF RwlockRdlock
    <3>2. queue' \in [Locks -> Seq(Coroutines)] /\ stack' \in Seq(Coroutines)
      BY <1>0, <2>0, <3>1, WaitFacts
    <3>3. /\ pc' \in [Coroutines -> {"none", "ready", "drain"} \cup Wanting \cup Holding]
          /\ lk' \in [Coroutines -> Locks \cup {NoLock}]
      BY <1>0, <2>0, <3>1, GoesFacts DEF Wanting
    <3> QED BY <1>0, <1>7, <3>1, <3>2, <3>3 DEF RwlockRdlock, bhVars
  <2>2. CASE ~ writer[w]
    <3>1. /\ reader' = [reader EXCEPT ![w] = reader[w] + 1] /\ Goes(c, "rdlocked", w)
          /\ UNCHANGED <<queue, stack>>
      BY <1>7, <2>2 DEF RwlockRdlock, OneMore
    <3>3. /\ pc' \in [Coroutines -> {"none", "ready", "drain"} \cup Wanting \cup Holding]
          /\ lk' \in [Coroutines -> Locks \cup {NoLock}]
      BY <1>0, <2>0, <3>1, GoesFacts DEF Holding
    <3>4. reader' \in [Rwlocks -> Nat]
      BY <1>0, <3>1
    <3> QED BY <1>0, <1>7, <3>1, <3>3, <3>4 DEF RwlockRdlock, bhVars
  <2> QED BY <2>1, <2>2
<1>8. ASSUME NEW c \in Coroutines, NEW w \in Rwlocks, RwlockWrlock(c, w) PROVE TypeOK'
  <2>0. w \in Locks /\ Running(c)
    BY <1>8 DEF Locks, RwlockWrlock, Locking
  <2>1. CASE WriterMustWait(w)
    <3>1. CoQueueWait(c, w) /\ Goes(c, "wrlock", w) /\ UNCHANGED writer
      BY <1>8, <2>1 DEF RwlockWrlock
    <3>2. queue' \in [Locks -> Seq(Coroutines)] /\ stack' \in Seq(Coroutines)
      BY <1>0, <2>0, <3>1, WaitFacts
    <3>3. /\ pc' \in [Coroutines -> {"none", "ready", "drain"} \cup Wanting \cup Holding]
          /\ lk' \in [Coroutines -> Locks \cup {NoLock}]
      BY <1>0, <2>0, <3>1, GoesFacts DEF Wanting
    <3> QED BY <1>0, <1>8, <3>1, <3>2, <3>3 DEF RwlockWrlock, bhVars
  <2>2. CASE ~ WriterMustWait(w)
    <3>1. /\ writer' = [writer EXCEPT ![w] = TRUE] /\ Goes(c, "wrlocked", w)
          /\ UNCHANGED <<queue, stack>>
      BY <1>8, <2>2 DEF RwlockWrlock
    <3>3. /\ pc' \in [Coroutines -> {"none", "ready", "drain"} \cup Wanting \cup Holding]
          /\ lk' \in [Coroutines -> Locks \cup {NoLock}]
      BY <1>0, <2>0, <3>1, GoesFacts DEF Holding
    <3> QED BY <1>0, <1>8, <3>1, <3>3 DEF RwlockWrlock, bhVars
  <2> QED BY <2>1, <2>2
<1>9. ASSUME NEW c \in Coroutines, Unlock(c) PROVE TypeOK'
  <2>1. /\ pc' \in [Coroutines -> {"none", "ready", "drain"} \cup Wanting \cup Holding]
        /\ lk' \in [Coroutines -> Locks \cup {NoLock}]
    BY <1>0, <1>9, GoesFacts DEF Unlock, MutexUnlock, RwlockUnlockWriter, RwlockUnlockReader
  <2>2. lk[c] \in Locks
    BY <1>0, <1>9, HeldLock DEF Unlock, MutexUnlock, RwlockUnlockWriter, RwlockUnlockReader
  <2>3. CASE MutexUnlock(c)
    <3>1. /\ queue' \in [Locks -> Seq(Coroutines)]
          /\ unlock_bh_queue' \in Seq(Coroutines) /\ scheduled' \in BOOLEAN
      BY <1>0, <2>2, <2>3, WakeFacts DEF MutexUnlock
    <3> QED BY <1>0, <2>1, <2>3, <3>1 DEF MutexUnlock, callVars
  <2>4. CASE RwlockUnlockWriter(c)
    <3>1. /\ queue' \in [Locks -> Seq(Coroutines)]
          /\ unlock_bh_queue' \in Seq(Coroutines) /\ scheduled' \in BOOLEAN
      BY <1>0, <2>2, <2>4, WakeFacts DEF RwlockUnlockWriter
    <3> QED BY <1>0, <2>1, <2>4, <3>1 DEF RwlockUnlockWriter, callVars
  <2>5. CASE RwlockUnlockReader(c)
    <3>1. /\ queue' \in [Locks -> Seq(Coroutines)]
          /\ unlock_bh_queue' \in Seq(Coroutines) /\ scheduled' \in BOOLEAN
      BY <1>0, <2>2, <2>5, WakeFacts DEF RwlockUnlockReader, bhVars
    <3>2. lk[c] \in Rwlocks /\ reader[lk[c]] > 0
      BY <1>0, <2>5, HeldLock, UnlockerKind DEF RwlockUnlockReader
    <3>3. reader' \in [Rwlocks -> Nat]
      BY <1>0, <2>5, <3>2 DEF RwlockUnlockReader
    <3> QED BY <1>0, <2>1, <2>5, <3>1, <3>3 DEF RwlockUnlockReader, callVars
  <2> QED BY <1>9, <2>3, <2>4, <2>5 DEF Unlock
<1>10. ASSUME NEW c \in Coroutines, AioYield(c) PROVE TypeOK'
  <2>1. stack' \in Seq(Coroutines)
    BY <1>0, <1>10, RunningFacts DEF AioYield
  <2> QED BY <1>0, <1>10, <2>1 DEF AioYield, bhVars, lockVars, coVars
<1>11. ASSUME NEW c \in Coroutines, Terminate(c) PROVE TypeOK'
  <2>1. stack' \in Seq(Coroutines)
    BY <1>0, <1>11, RunningFacts DEF Terminate
  <2>2. /\ pc' \in [Coroutines -> {"none", "ready", "drain"} \cup Wanting \cup Holding]
        /\ lk' \in [Coroutines -> Locks \cup {NoLock}]
    BY <1>0, <1>11, GoesFacts DEF Terminate
  <2> QED BY <1>0, <1>11, <2>1, <2>2 DEF Terminate, bhVars, lockVars
<1>12. ASSUME NEW c \in Coroutines, DrainAll(c) \/ DrainReturn(c) PROVE TypeOK'
  <2>2. /\ pc' \in [Coroutines -> {"none", "ready", "drain"} \cup Wanting \cup Holding]
        /\ lk' \in [Coroutines -> Locks \cup {NoLock}]
    BY <1>0, <1>12, GoesFacts DEF DrainAll, DrainReturn
  <2> QED BY <1>0, <1>12, <2>2 DEF DrainAll, DrainReturn, bhVars, lockVars, callVars
<1> QED BY <1>1, <1>2, <1>3, <1>4, <1>5, <1>6, <1>7, <1>8, <1>9, <1>10, <1>11, <1>12
        DEF Next, Coroutine

-----------------------------------------------------------------------------
(* Every step preserves exclusion.                                         *)

\* What one coroutine that changes its place does to the holders of a lock.
LEMMA HoldersGo ==
    ASSUME TypeOK, NEW c \in Coroutines,
           NEW q \in {"none", "ready", "drain"} \cup Wanting \cup Holding,
           NEW k \in Locks \cup {NoLock}, Goes(c, q, k)
    PROVE  \A p, l :
            /\ c \in Holders(p, l) <=> pc[c] = p /\ lk[c] = l
            /\ q = p /\ k = l => Holders(p, l)' = Holders(p, l) \cup {c}
            /\ ~ (q = p /\ k = l) => Holders(p, l)' = Holders(p, l) \ {c}
            /\ ~ (q = p /\ k = l) /\ ~ (pc[c] = p /\ lk[c] = l) =>
                 Holders(p, l)' = Holders(p, l)
<1> TAKE p, l
<1>1. /\ pc'[c] = q /\ lk'[c] = k
      /\ \A d \in Coroutines \ {c} : pc'[d] = pc[d] /\ lk'[d] = lk[d]
  BY GoesFacts
<1>2. c \in Holders(p, l) <=> pc[c] = p /\ lk[c] = l
  BY DEF Holders
<1>3. c \in Holders(p, l)' <=> q = p /\ k = l
  BY <1>1 DEF Holders
<1>4. \A d : d # c => (d \in Holders(p, l)' <=> d \in Holders(p, l))
  BY <1>1 DEF Holders
<1> QED BY <1>2, <1>3, <1>4

\* Holders of read/write locks can be counted.
LEMMA HoldersFinite == \A p, l : IsFiniteSet(Holders(p, l))
BY LockAssumption, FS_Subset DEF Holders, LockAssumption

\* Nobody takes or drops a lock: exclusion is kept.
LEMMA NobodyHolds ==
    ASSUME IInv, UNCHANGED <<locked, writer, reader>>,
           \A p \in Holding, l \in Locks : Holders(p, l)' = Holders(p, l)
    PROVE  MutualExclusion'
<1>1. /\ \A m \in Mutexes : Holders("locked", m)' = Holders("locked", m)
      /\ \A w \in Rwlocks : Holders("wrlocked", w)' = Holders("wrlocked", w)
      /\ \A w \in Rwlocks : Holders("rdlocked", w)' = Holders("rdlocked", w)
  BY DEF Holding, Locks
<1>2. MutualExclusion
  BY DEF IInv
<1> QED BY <1>1, <1>2 DEF MutualExclusion

\* A coroutine without a lock goes where it has none.
LEMMA NoHolderMoves ==
    ASSUME IInv, NEW c \in Coroutines,
           NEW q \in {"none", "ready", "drain"} \cup Wanting \cup Holding,
           NEW k \in Locks \cup {NoLock}, Goes(c, q, k),
           q \notin Holding, pc[c] \notin Holding,
           UNCHANGED <<locked, writer, reader>>
    PROVE  MutualExclusion'
<1>1. TypeOK
  BY DEF IInv
<1>2. \A p, l : ~ (q = p /\ k = l) /\ ~ (pc[c] = p /\ lk[c] = l) =>
        Holders(p, l)' = Holders(p, l)
  BY <1>1, HoldersGo
<1>3. \A p \in Holding, l \in Locks : Holders(p, l)' = Holders(p, l)
  BY <1>2
<1> QED BY <1>3, NobodyHolds

\* Exclusion is kept, and every lock is used as what it is.
LEMMA ExclusionStep == IInv /\ Next => MutualExclusion' /\ KindOK'
<1> SUFFICES ASSUME IInv, Next PROVE MutualExclusion' /\ KindOK'
  OBVIOUS
<1>0. TypeOK /\ KindOK /\ MutualExclusion /\ OnePlace
  BY DEF IInv
<1>a. ASSUME UNCHANGED <<locked, writer, reader, pc, lk>>
      PROVE  MutualExclusion' /\ KindOK'
  BY <1>0, <1>a DEF MutualExclusion, KindOK, Holders
<1>b. ASSUME NEW c \in Coroutines, NEW q \in {"none", "ready", "drain"}, Goes(c, q, NoLock)
      PROVE  KindOK'
  BY <1>0, <1>b, GoesFacts DEF KindOK
<1>1. CASE BhRun \/ BhNext \/ BhReturn
  BY <1>1, <1>a DEF BhRun, BhNext, BhReturn, lockVars, coVars
<1>2. ASSUME NEW c \in Coroutines, AioDone(c) \/ AioYield(c)
      PROVE  MutualExclusion' /\ KindOK'
  BY <1>2, <1>a DEF AioDone, AioYield, lockVars, coVars
<1>3. ASSUME NEW c \in Coroutines, Start(c) \/ Terminate(c) \/ DrainAll(c) \/ DrainReturn(c)
      PROVE  MutualExclusion' /\ KindOK'
  <2>1. PICK q \in {"none", "ready", "drain"} : Goes(c, q, NoLock)
    BY <1>3 DEF Start, Terminate, DrainAll, DrainReturn
  <2>2. pc[c] \in {"none", "ready", "drain"} /\ UNCHANGED <<locked, writer, reader>>
    BY <1>3 DEF Start, Terminate, DrainAll, DrainReturn, Drained, lockVars
  <2>3. MutualExclusion'
    BY <2>1, <2>2, NoHolderMoves DEF Holding
  <2> QED BY <1>b, <2>1, <2>3
<1>4. ASSUME NEW c \in Coroutines, NEW m \in Mutexes, MutexLock(c, m)
      PROVE  MutualExclusion' /\ KindOK'
  <2>0. m \in Locks /\ pc[c] \in {"ready", "lock"}
    BY <1>4 DEF Locks, MutexLock, Locking
  <2>1. CASE MutexBusy(c, m)
    <3>1. Goes(c, "lock", m) /\ UNCHANGED <<locked, writer, reader>>
      BY <1>4, <2>1 DEF MutexLock
    <3>2. MutualExclusion'
      BY <2>0, <3>1, NoHolderMoves DEF Wanting, Holding
    <3>3. KindOK'
      BY <1>0, <2>0, <3>1, GoesFacts DEF KindOK, Wanting
    <3> QED BY <3>2, <3>3
  <2>2. CASE ~ MutexBusy(c, m)
    <3>1. /\ Goes(c, "locked", m) /\ ~ locked[m]
          /\ locked' = [locked EXCEPT ![m] = TRUE] /\ UNCHANGED <<writer, reader>>
      BY <1>4, <2>2 DEF MutexLock, MutexBusy
    <3>2. KindOK'
      <4>1. /\ pc'[c] = "locked" /\ lk'[c] = m
            /\ \A d \in Coroutines \ {c} : pc'[d] = pc[d] /\ lk'[d] = lk[d]
        BY <1>0, <2>0, <3>1, GoesFacts DEF Holding
      <4> QED BY <1>0, <4>1 DEF KindOK
    <3>3. Holders("locked", m) = {} /\ Holders("locked", m)' = {c}
      BY <1>0, <2>0, <3>1, HoldersGo DEF MutualExclusion, Holding
    <3>4. \A n \in Mutexes \ {m} : Holders("locked", n)' = Holders("locked", n)
      BY <1>0, <2>0, <3>1, HoldersGo DEF Holding
    <3>5. \A w \in Rwlocks : /\ Holders("wrlocked", w)' = Holders("wrlocked", w)
                            /\ Holders("rdlocked", w)' = Holders("rdlocked", w)
      BY <1>0, <2>0, <3>1, HoldersGo DEF Holding
    <3>6. locked'[m] /\ \A n \in Mutexes \ {m} : locked'[n] = locked[n]
      BY <1>0, <3>1 DEF TypeOK
    <3>7. MutualExclusion'
      BY <1>0, <3>1, <3>3, <3>4, <3>5, <3>6 DEF MutualExclusion
    <3> QED BY <3>2, <3>7
  <2> QED BY <2>1, <2>2
<1>5. ASSUME NEW c \in Coroutines, NEW w \in Rwlocks, RwlockRdlock(c, w)
      PROVE  MutualExclusion' /\ KindOK'
  <2>0. w \in Locks /\ pc[c] \in {"ready", "rdlock"}
    BY <1>5 DEF Locks, RwlockRdlock, Locking
  <2>1. CASE writer[w]
    <3>1. Goes(c, "rdlock", w) /\ UNCHANGED <<locked, writer, reader>>
      BY <1>5, <2>1 DEF RwlockRdlock
    <3>2. MutualExclusion'
      BY <2>0, <3>1, NoHolderMoves DEF Wanting, Holding
    <3>3. KindOK'
      BY <1>0, <2>0, <3>1, GoesFacts DEF KindOK, Wanting
    <3> QED BY <3>2, <3>3
  <2>2. CASE ~ writer[w]
    <3>1. /\ Goes(c, "rdlocked", w)
          /\ reader' = [reader EXCEPT ![w] = reader[w] + 1] /\ UNCHANGED <<writer, locked>>
      BY <1>5, <2>2 DEF RwlockRdlock, OneMore
    <3>2. KindOK'
      BY <1>0, <2>0, <3>1, GoesFacts DEF KindOK, Holding
    <3>3. /\ Holders("rdlocked", w)' = Holders("rdlocked", w) \cup {c}
          /\ c \notin Holders("rdlocked", w)
      BY <1>0, <2>0, <3>1, HoldersGo DEF Holding
    <3>4. Cardinality(Holders("rdlocked", w)') = Cardinality(Holders("rdlocked", w)) + 1
      BY <3>3, HoldersFinite, FS_AddElement
    <3>5. /\ \A v \in Rwlocks \ {w} : Holders("rdlocked", v)' = Holders("rdlocked", v)
          /\ \A v \in Rwlocks : Holders("wrlocked", v)' = Holders("wrlocked", v)
          /\ \A m \in Mutexes : Holders("locked", m)' = Holders("locked", m)
      BY <1>0, <2>0, <3>1, HoldersGo DEF Holding
    <3>6. reader'[w] = reader[w] + 1 /\ \A v \in Rwlocks \ {w} : reader'[v] = reader[v]
      BY <1>0, <3>1 DEF TypeOK
    <3>7. reader'[w] = Cardinality(Holders("rdlocked", w)')
      BY <1>0, <3>4, <3>6 DEF MutualExclusion
    <3>8. \A v \in Rwlocks : reader'[v] = Cardinality(Holders("rdlocked", v)')
      BY <1>0, <3>5, <3>6, <3>7 DEF MutualExclusion
    <3>9. \A v \in Rwlocks : writer'[v] => reader'[v] = 0
      BY <1>0, <2>2, <3>1, <3>6 DEF MutualExclusion
    <3>10. MutualExclusion'
      BY <1>0, <3>1, <3>5, <3>8, <3>9 DEF MutualExclusion
    <3> QED BY <3>2, <3>10
  <2> QED BY <2>1, <2>2
<1>6. ASSUME NEW c \in Coroutines, NEW w \in Rwlocks, RwlockWrlock(c, w)
      PROVE  MutualExclusion' /\ KindOK'
  <2>0. w \in Locks /\ pc[c] \in {"ready", "wrlock"}
    BY <1>6 DEF Locks, RwlockWrlock, Locking
  <2>1. CASE WriterMustWait(w)
    <3>1. Goes(c, "wrlock", w) /\ UNCHANGED <<locked, writer, reader>>
      BY <1>6, <2>1 DEF RwlockWrlock
    <3>2. MutualExclusion'
      BY <2>0, <3>1, NoHolderMoves DEF Wanting, Holding
    <3>3. KindOK'
      BY <1>0, <2>0, <3>1, GoesFacts DEF KindOK, Wanting
    <3> QED BY <3>2, <3>3
  <2>2. CASE ~ WriterMustWait(w)
    <3>1. /\ Goes(c, "wrlocked", w) /\ ~ writer[w] /\ reader[w] = 0
          /\ writer' = [writer EXCEPT ![w] = TRUE] /\ UNCHANGED <<reader, locked>>
      BY <1>6, <2>2 DEF RwlockWrlock, WriterMustWait
    <3>2. KindOK'
      BY <1>0, <2>0, <3>1, GoesFacts DEF KindOK, Holding
    <3>3. Holders("wrlocked", w) = {} /\ Holders("wrlocked", w)' = {c}
      BY <1>0, <2>0, <3>1, HoldersGo DEF MutualExclusion, Holding
    <3>4. \A p \in Holding : \A l :
            ~ ("wrlocked" = p /\ w = l) => Holders(p, l)' = Holders(p, l)
      <4>1. \A p \in Holding : pc[c] # p
        BY <2>0 DEF Holding
      <4>2. "wrlocked" \in {"none", "ready", "drain"} \cup Wanting \cup Holding
        BY DEF Holding
      <4>3. \A r, n : ~ ("wrlocked" = r /\ w = n) /\ ~ (pc[c] = r /\ lk[c] = n) =>
                Holders(r, n)' = Holders(r, n)
        BY <1>0, <2>0, <3>1, <4>2, HoldersGo
      <4> QED BY <4>1, <4>3
    <3>5. /\ \A v \in Rwlocks \ {w} : Holders("wrlocked", v)' = Holders("wrlocked", v)
          /\ \A v \in Rwlocks : Holders("rdlocked", v)' = Holders("rdlocked", v)
          /\ \A m \in Mutexes : Holders("locked", m)' = Holders("locked", m)
      BY <3>4 DEF Holding
    <3>6. writer'[w] /\ \A v \in Rwlocks \ {w} : writer'[v] = writer[v]
      BY <1>0, <3>1 DEF TypeOK
    <3>7. MutualExclusion'
      BY <1>0, <3>1, <3>3, <3>5, <3>6 DEF MutualExclusion
    <3> QED BY <3>2, <3>7
  <2> QED BY <2>1, <2>2
<1>7. ASSUME NEW c \in Coroutines, MutexUnlock(c) PROVE MutualExclusion' /\ KindOK'
  <2>1. /\ pc[c] = "locked" /\ Goes(c, "ready", NoLock) /\ UNCHANGED <<writer, reader>>
        /\ locked' = [locked EXCEPT ![lk[c]] = FALSE]
    BY <1>7 DEF MutexUnlock
  <2>2. PICK m \in Mutexes : m = lk[c]
    BY <1>0, <2>1, HeldLock
  <2>3. Holders("locked", m)' = {}
    BY <1>0, <2>1, <2>2, HoldersGo DEF MutualExclusion
  <2>4. /\ \A n \in Mutexes \ {m} : Holders("locked", n)' = Holders("locked", n)
        /\ \A w \in Rwlocks : Holders("wrlocked", w)' = Holders("wrlocked", w)
        /\ \A w \in Rwlocks : Holders("rdlocked", w)' = Holders("rdlocked", w)
    <3>1. \A p \in Holding : \A l :
            ~ ("locked" = p /\ m = l) => Holders(p, l)' = Holders(p, l)
      <4>1. \A p \in Holding : p # "ready"
        BY DEF Holding
      <4> QED BY <1>0, <2>1, <2>2, <4>1, HoldersGo
    <3> QED BY <3>1 DEF Holding
  <2>5. ~ locked'[m] /\ \A n \in Mutexes \ {m} : locked'[n] = locked[n]
    BY <1>0, <2>1, <2>2 DEF TypeOK
  <2>6. MutualExclusion'
    <3>1. \A n \in Mutexes :
            /\ locked'[n] <=> Holders("locked", n)' # {}
            /\ \A d, e \in Holders("locked", n)' : d = e
      BY <1>0, <2>3, <2>4, <2>5 DEF MutualExclusion
    <3> QED BY <1>0, <2>1, <2>4, <3>1 DEF MutualExclusion
  <2> QED BY <1>b, <2>1, <2>6
<1>8. ASSUME NEW c \in Coroutines, RwlockUnlockWriter(c)
      PROVE  MutualExclusion' /\ KindOK'
  <2>1. /\ pc[c] = "wrlocked" /\ Goes(c, "ready", NoLock) /\ UNCHANGED <<locked, reader>>
        /\ writer' = [writer EXCEPT ![lk[c]] = FALSE]
    BY <1>8, UnlockerKind DEF RwlockUnlockWriter
  <2>2. PICK w \in Rwlocks : w = lk[c]
    BY <1>0, <2>1, HeldLock
  <2>3. Holders("wrlocked", w)' = {}
    BY <1>0, <2>1, <2>2, HoldersGo DEF MutualExclusion
  <2>4. /\ \A v \in Rwlocks \ {w} : Holders("wrlocked", v)' = Holders("wrlocked", v)
        /\ \A v \in Rwlocks : Holders("rdlocked", v)' = Holders("rdlocked", v)
        /\ \A m \in Mutexes : Holders("locked", m)' = Holders("locked", m)
    <3>1. \A p \in Holding : \A l :
            ~ ("wrlocked" = p /\ w = l) => Holders(p, l)' = Holders(p, l)
      <4>1. \A p \in Holding : p # "ready"
        BY DEF Holding
      <4> QED BY <1>0, <2>1, <2>2, <4>1, HoldersGo
    <3> QED BY <3>1 DEF Holding
  <2>5. ~ writer'[w] /\ \A v \in Rwlocks \ {w} : writer'[v] = writer[v]
    BY <1>0, <2>1, <2>2 DEF TypeOK
  <2>6. MutualExclusion'
    <3>1. \A v \in Rwlocks :
            /\ writer'[v] <=> Holders("wrlocked", v)' # {}
            /\ \A d, e \in Holders("wrlocked", v)' : d = e
            /\ writer'[v] => writer[v]
      BY <1>0, <2>3, <2>4, <2>5 DEF MutualExclusion
    <3> QED BY <1>0, <2>1, <2>4, <3>1 DEF MutualExclusion
  <2> QED BY <1>b, <2>1, <2>6
<1>9. ASSUME NEW c \in Coroutines, RwlockUnlockReader(c)
      PROVE  MutualExclusion' /\ KindOK'
  <2>1. /\ pc[c] = "rdlocked" /\ Goes(c, "ready", NoLock) /\ UNCHANGED <<locked, writer>>
        /\ reader' = [reader EXCEPT ![lk[c]] = reader[lk[c]] - 1] /\ ~ writer[lk[c]]
    BY <1>9, UnlockerKind DEF RwlockUnlockReader
  <2>2. PICK w \in Rwlocks : w = lk[c]
    BY <1>0, <2>1, HeldLock
  <2>3. /\ Holders("rdlocked", w)' = Holders("rdlocked", w) \ {c}
        /\ c \in Holders("rdlocked", w)
    BY <1>0, <2>1, <2>2, HoldersGo
  <2>4. Cardinality(Holders("rdlocked", w)') = Cardinality(Holders("rdlocked", w)) - 1
    BY <2>3, HoldersFinite, FS_RemoveElement
  <2>5. /\ \A v \in Rwlocks \ {w} : Holders("rdlocked", v)' = Holders("rdlocked", v)
        /\ \A v \in Rwlocks : Holders("wrlocked", v)' = Holders("wrlocked", v)
        /\ \A m \in Mutexes : Holders("locked", m)' = Holders("locked", m)
    BY <1>0, <2>1, <2>2, HoldersGo
  <2>6. reader'[w] = reader[w] - 1 /\ \A v \in Rwlocks \ {w} : reader'[v] = reader[v]
    BY <1>0, <2>1, <2>2 DEF TypeOK
  <2>7. reader'[w] = Cardinality(Holders("rdlocked", w)')
    BY <1>0, <2>4, <2>6 DEF MutualExclusion
  <2>8. \A v \in Rwlocks : reader'[v] = Cardinality(Holders("rdlocked", v)')
    BY <1>0, <2>5, <2>6, <2>7 DEF MutualExclusion
  <2>9. \A v \in Rwlocks : writer'[v] => reader'[v] = 0
    BY <1>0, <2>1, <2>2, <2>6 DEF MutualExclusion
  <2>10. MutualExclusion'
    BY <1>0, <2>1, <2>5, <2>8, <2>9 DEF MutualExclusion
  <2> QED BY <1>b, <2>1, <2>10
<1> QED BY <1>1, <1>2, <1>3, <1>4, <1>5, <1>6, <1>7, <1>8, <1>9
        DEF Next, Coroutine, Unlock

-----------------------------------------------------------------------------
(* Every step keeps every coroutine in one place.                          *)

\* The running coroutine goes where it does not wait, and nobody moves.
LEMMA PlaceGoes ==
    ASSUME IInv, NEW c \in Coroutines, Running(c),
           NEW q \in {"ready", "drain"} \cup Holding, NEW k \in Locks \cup {NoLock},
           Goes(c, q, k), UNCHANGED <<queue, unlock_bh_queue, stack, inflight>>
    PROVE  OnePlace'
<1>1. TypeOK /\ OnePlace
  BY DEF IInv
<1>2. /\ c \notin ToSet(unlock_bh_queue) /\ c \notin inflight
      /\ \A l \in Locks : c \notin ToSet(queue[l])
  BY <1>1, RunningFacts
<1>3. pc'[c] = q /\ \A d \in Coroutines \ {c} : pc'[d] = pc[d] /\ lk'[d] = lk[d]
  BY <1>1, GoesFacts
<1>4. q # "none"
  BY DEF Holding
<1>5. /\ \A l \in Locks : ToSet(queue[l]) \subseteq Coroutines
      /\ ToSet(unlock_bh_queue) \subseteq Coroutines /\ ToSet(stack) \subseteq Coroutines
      /\ inflight \subseteq Coroutines
  BY <1>1, Elements DEF TypeOK
<1> QED BY <1>1, <1>2, <1>3, <1>4, <1>5 DEF OnePlace

\* The running coroutine waits for a lock.
LEMMA PlaceWait ==
    ASSUME IInv, NEW c \in Coroutines, Running(c), NEW l \in Locks, CoQueueWait(c, l),
           NEW q \in Wanting, Goes(c, q, l), UNCHANGED <<unlock_bh_queue, inflight>>
    PROVE  OnePlace'
<1>1. TypeOK /\ OnePlace
  BY DEF IInv
<1>2. /\ c \notin ToSet(unlock_bh_queue) /\ c \notin inflight
      /\ \A k \in Locks : c \notin ToSet(queue[k])
  BY <1>1, RunningFacts
<1>3. /\ pc'[c] = q /\ lk'[c] = l
      /\ \A d \in Coroutines \ {c} : pc'[d] = pc[d] /\ lk'[d] = lk[d]
  BY <1>1, GoesFacts
<1>4. /\ ToSet(queue'[l]) = ToSet(queue[l]) \cup {c} /\ IsInjective(queue'[l])
      /\ \A k \in Locks \ {l} : queue'[k] = queue[k]
      /\ IsInjective(stack') /\ ToSet(stack') = ToSet(stack) \ {c}
  BY <1>1, WaitFacts
<1>5. /\ \A k \in Locks : ToSet(queue[k]) \subseteq Coroutines
      /\ ToSet(unlock_bh_queue) \subseteq Coroutines /\ ToSet(stack) \subseteq Coroutines
      /\ inflight \subseteq Coroutines
  BY <1>1, Elements DEF TypeOK
<1>6. ASSUME NEW k \in Locks
      PROVE  /\ IsInjective(queue'[k])
             /\ \A d \in ToSet(queue'[k]) :
                 /\ pc'[d] \in Wanting /\ lk'[d] = k
                 /\ d \notin ToSet(unlock_bh_queue) \cup ToSet(stack') \cup inflight
  <2>1. CASE k = l
    BY <1>1, <1>2, <1>3, <1>4, <1>5, <2>1 DEF OnePlace
  <2>2. CASE k # l
    BY <1>1, <1>2, <1>3, <1>4, <1>5, <2>2 DEF OnePlace
  <2> QED BY <2>1, <2>2
<1>7. \A d \in ToSet(unlock_bh_queue) :
        pc'[d] \in Wanting /\ d \notin ToSet(stack') \cup inflight
  BY <1>1, <1>2, <1>3, <1>4, <1>5 DEF OnePlace
<1>8. /\ \A d \in ToSet(stack') : pc'[d] # "none" /\ d \notin inflight
      /\ \A d \in inflight : pc'[d] \in {"ready"} \cup Holding
  BY <1>1, <1>2, <1>3, <1>4, <1>5 DEF OnePlace
<1> QED BY <1>1, <1>4, <1>6, <1>7, <1>8 DEF OnePlace

\* The running coroutine drops its lock and wakes waiters of it.
LEMMA PlaceWake ==
    ASSUME IInv, NEW c \in Coroutines, Running(c), NEW l \in Locks,
           CoQueueNext(l) \/ CoQueueRestartAll(l),
           Goes(c, "ready", NoLock), UNCHANGED <<stack, inflight>>
    PROVE  OnePlace'
<1>1. TypeOK /\ OnePlace
  BY DEF IInv
<1>2. /\ c \notin ToSet(unlock_bh_queue) /\ c \notin inflight
      /\ \A k \in Locks : c \notin ToSet(queue[k])
  BY <1>1, RunningFacts
<1>3. /\ pc'[c] = "ready"
      /\ \A d \in Coroutines \ {c} : pc'[d] = pc[d] /\ lk'[d] = lk[d]
  BY <1>1, GoesFacts
<1>4. /\ \A k \in Locks \ {l} : queue'[k] = queue[k]
      /\ IsInjective(queue'[l]) /\ IsInjective(unlock_bh_queue')
      /\ ToSet(queue'[l]) \subseteq ToSet(queue[l])
      /\ ToSet(unlock_bh_queue') =
            ToSet(unlock_bh_queue) \cup (ToSet(queue[l]) \ ToSet(queue'[l]))
  BY <1>1, WakeFacts
<1>5. /\ \A k \in Locks : ToSet(queue[k]) \subseteq Coroutines
      /\ ToSet(unlock_bh_queue) \subseteq Coroutines /\ ToSet(stack) \subseteq Coroutines
      /\ inflight \subseteq Coroutines
  BY <1>1, Elements DEF TypeOK
<1>6. ASSUME NEW k \in Locks
      PROVE  /\ IsInjective(queue'[k])
             /\ \A d \in ToSet(queue'[k]) :
                 /\ pc'[d] \in Wanting /\ lk'[d] = k
                 /\ d \notin ToSet(unlock_bh_queue') \cup ToSet(stack) \cup inflight
  <2>1. CASE k = l
    BY <1>1, <1>2, <1>3, <1>4, <1>5, <2>1 DEF OnePlace
  <2>2. CASE k # l
    <3>1. ASSUME NEW d \in ToSet(queue[k]) PROVE d \notin ToSet(queue[l])
      BY <1>1, <2>2, <3>1 DEF OnePlace
    <3> QED BY <1>1, <1>2, <1>3, <1>4, <1>5, <2>2, <3>1 DEF OnePlace
  <2> QED BY <2>1, <2>2
<1>7. \A d \in ToSet(unlock_bh_queue') :
        pc'[d] \in Wanting /\ d \notin ToSet(stack) \cup inflight
  BY <1>1, <1>2, <1>3, <1>4, <1>5 DEF OnePlace
<1>8. /\ \A d \in ToSet(stack) : pc'[d] # "none" /\ d \notin inflight
      /\ \A d \in inflight : pc'[d] \in {"ready"} \cup Holding
  BY <1>1, <1>2, <1>3, <1>5 DEF OnePlace
<1> QED BY <1>1, <1>4, <1>6, <1>7, <1>8 DEF OnePlace

\* Every step keeps every coroutine in one place.
LEMMA PlaceStep == IInv /\ Next => OnePlace'
<1> SUFFICES ASSUME IInv, Next PROVE OnePlace'
  OBVIOUS
<1>0. TypeOK /\ KindOK /\ OnePlace
  BY DEF IInv
<1>a. /\ \A k \in Locks : ToSet(queue[k]) \subseteq Coroutines
      /\ ToSet(unlock_bh_queue) \subseteq Coroutines /\ ToSet(stack) \subseteq Coroutines
      /\ inflight \subseteq Coroutines
  BY <1>0, Elements DEF TypeOK
<1>1. CASE BhRun \/ BhReturn
  <2>1. UNCHANGED <<queue, unlock_bh_queue, stack, inflight, pc, lk>>
    BY <1>1 DEF BhRun, BhReturn, bhVars, lockVars, coVars
  <2> QED BY <1>0, <2>1 DEF OnePlace
<1>2. CASE BhNext
  <2>1. PICK h \in ToSet(unlock_bh_queue) :
            /\ IsInjective(unlock_bh_queue')
            /\ ToSet(unlock_bh_queue') = ToSet(unlock_bh_queue) \ {h}
            /\ IsInjective(stack') /\ ToSet(stack') = ToSet(stack) \cup {h}
    BY <1>0, <1>2, BhNextFacts
  <2>2. UNCHANGED <<queue, inflight, pc, lk>>
    BY <1>2 DEF BhNext, lockVars, coVars
  <2>3. pc[h] \in Wanting /\ h \notin inflight /\ \A l \in Locks : h \notin ToSet(queue[l])
    BY <1>0, <2>1 DEF OnePlace
  <2>4. pc[h] # "none"
    BY <2>3 DEF Wanting
  <2> QED BY <1>0, <2>1, <2>2, <2>3, <2>4 DEF OnePlace
<1>3. ASSUME NEW c \in Coroutines, Start(c) PROVE OnePlace'
  <2>1. /\ pc[c] = "none" /\ Goes(c, "ready", NoLock) /\ stack' = Append(stack, c)
        /\ UNCHANGED <<queue, unlock_bh_queue, inflight>>
    BY <1>3 DEF Start, bhVars, lockVars
  <2>2. /\ c \notin ToSet(unlock_bh_queue) /\ c \notin ToSet(stack) /\ c \notin inflight
        /\ \A l \in Locks : c \notin ToSet(queue[l])
    BY <1>0, <2>1 DEF OnePlace, Wanting, Holding
  <2>3. IsInjective(stack') /\ ToSet(stack') = ToSet(stack) \cup {c}
    BY <1>0, <2>1, <2>2, EnterFacts
  <2>4. /\ pc'[c] = "ready"
        /\ \A d \in Coroutines \ {c} : pc'[d] = pc[d] /\ lk'[d] = lk[d]
    BY <1>0, <2>1, GoesFacts
  <2> QED BY <1>0, <1>a, <2>1, <2>2, <2>3, <2>4 DEF OnePlace
<1>4. ASSUME NEW c \in Coroutines, AioDone(c) PROVE OnePlace'
  <2>1. /\ c \in inflight /\ inflight' = inflight \ {c} /\ stack' = Append(stack, c)
        /\ UNCHANGED <<queue, unlock_bh_queue, pc, lk>>
    BY <1>4 DEF AioDone, bhVars, lockVars, coVars
  <2>2. /\ c \notin ToSet(unlock_bh_queue) /\ c \notin ToSet(stack)
        /\ pc[c] # "none" /\ \A l \in Locks : c \notin ToSet(queue[l])
    BY <1>0, <2>1 DEF OnePlace, Holding
  <2>3. IsInjective(stack') /\ ToSet(stack') = ToSet(stack) \cup {c}
    BY <1>0, <2>1, <2>2, EnterFacts
  <2> QED BY <1>0, <2>1, <2>2, <2>3 DEF OnePlace
<1>5. ASSUME NEW c \in Coroutines, AioYield(c) PROVE OnePlace'
  <2>1. /\ Running(c) /\ pc[c] \in {"ready"} \cup Holding
        /\ inflight' = inflight \cup {c} /\ stack' = Front(stack)
        /\ UNCHANGED <<queue, unlock_bh_queue, pc, lk>>
    BY <1>5 DEF AioYield, bhVars, lockVars, coVars
  <2>2. /\ c \notin ToSet(unlock_bh_queue) /\ \A l \in Locks : c \notin ToSet(queue[l])
        /\ IsInjective(stack') /\ ToSet(stack') = ToSet(stack) \ {c}
    BY <1>0, <2>1, RunningFacts
  <2> QED BY <1>0, <2>1, <2>2 DEF OnePlace
<1>6. ASSUME NEW c \in Coroutines, Terminate(c) PROVE OnePlace'
  <2>1. /\ Running(c) /\ Goes(c, "none", NoLock) /\ stack' = Front(stack)
        /\ UNCHANGED <<queue, unlock_bh_queue, inflight>>
    BY <1>6 DEF Terminate, bhVars, lockVars
  <2>2. /\ c \notin ToSet(unlock_bh_queue) /\ c \notin inflight
        /\ \A l \in Locks : c \notin ToSet(queue[l])
        /\ IsInjective(stack') /\ ToSet(stack') = ToSet(stack) \ {c}
    BY <1>0, <2>1, RunningFacts
  <2>3. \A d \in Coroutines \ {c} : pc'[d] = pc[d] /\ lk'[d] = lk[d]
    BY <1>0, <2>1, GoesFacts
  <2> QED BY <1>0, <1>a, <2>1, <2>2, <2>3 DEF OnePlace
<1>7. ASSUME NEW c \in Coroutines, DrainAll(c) \/ DrainReturn(c) PROVE OnePlace'
  <2>1. /\ Running(c) /\ \E q \in {"ready", "drain"} : Goes(c, q, NoLock)
        /\ UNCHANGED <<queue, unlock_bh_queue, stack, inflight>>
    BY <1>7 DEF DrainAll, DrainReturn, Drained, bhVars, lockVars, callVars
  <2> QED BY <2>1, PlaceGoes
<1>8. ASSUME NEW c \in Coroutines, NEW m \in Mutexes, MutexLock(c, m) PROVE OnePlace'
  <2>1. /\ m \in Locks /\ Running(c) /\ UNCHANGED <<unlock_bh_queue, inflight>>
        /\ \/ CoQueueWait(c, m) /\ Goes(c, "lock", m)
           \/ Goes(c, "locked", m) /\ UNCHANGED <<queue, stack>>
    BY <1>8 DEF Locks, MutexLock, Locking, bhVars
  <2> QED BY <2>1, PlaceWait, PlaceGoes DEF Wanting, Holding
<1>9. ASSUME NEW c \in Coroutines, NEW w \in Rwlocks, RwlockRdlock(c, w) PROVE OnePlace'
  <2>1. /\ w \in Locks /\ Running(c) /\ UNCHANGED <<unlock_bh_queue, inflight>>
        /\ \/ CoQueueWait(c, w) /\ Goes(c, "rdlock", w)
           \/ Goes(c, "rdlocked", w) /\ UNCHANGED <<queue, stack>>
    BY <1>9 DEF Locks, RwlockRdlock, Locking, bhVars
  <2> QED BY <2>1, PlaceWait, PlaceGoes DEF Wanting, Holding
<1>10. ASSUME NEW c \in Coroutines, NEW w \in Rwlocks, RwlockWrlock(c, w) PROVE OnePlace'
  <2>1. /\ w \in Locks /\ Running(c) /\ UNCHANGED <<unlock_bh_queue, inflight>>
        /\ \/ CoQueueWait(c, w) /\ Goes(c, "wrlock", w)
           \/ Goes(c, "wrlocked", w) /\ UNCHANGED <<queue, stack>>
    BY <1>10 DEF Locks, RwlockWrlock, Locking, bhVars
  <2> QED BY <2>1, PlaceWait, PlaceGoes DEF Wanting, Holding
<1>11. ASSUME NEW c \in Coroutines, Unlock(c) PROVE OnePlace'
  <2>1. /\ Running(c) /\ Goes(c, "ready", NoLock) /\ UNCHANGED <<stack, inflight>>
        /\ pc[c] \in {"locked", "rdlocked", "wrlocked"}
        /\ \/ CoQueueNext(lk[c]) \/ CoQueueRestartAll(lk[c])
           \/ UNCHANGED <<queue, unlock_bh_queue>>
    BY <1>11 DEF Unlock, MutexUnlock, RwlockUnlockWriter, RwlockUnlockReader, bhVars, callVars
  <2>2. lk[c] \in Locks
    BY <1>0, <2>1, HeldLock
  <2> QED BY <2>1, <2>2, PlaceWake, PlaceGoes
<1> QED BY <1>1, <1>2, <1>3, <1>4, <1>5, <1>6, <1>7, <1>8, <1>9, <1>10, <1>11
        DEF Next, Coroutine

-----------------------------------------------------------------------------
(* Every waiter has somebody who will wake it.                             *)

\* Somebody holds lock l, or has been woken for it.
Waker(l) ==
    \/ \E c \in Coroutines : pc[c] \in Holding /\ lk[c] = l
    \/ \E c \in ToSet(unlock_bh_queue) \cup ToSet(stack) : pc[c] \in Wanting /\ lk[c] = l

\* It is still there after a step of a coroutine that neither holds nor wants l.
LEMMA WakerStays ==
    ASSUME TypeOK, NEW c \in Coroutines,
           NEW q \in {"none", "ready", "drain"} \cup Wanting \cup Holding,
           NEW k \in Locks \cup {NoLock}, Goes(c, q, k),
           (ToSet(unlock_bh_queue) \cup ToSet(stack)) \ {c} \subseteq
                ToSet(unlock_bh_queue') \cup ToSet(stack'),
           NEW l \in Locks, Waker(l), ~ (pc[c] \in Wanting \cup Holding /\ lk[c] = l)
    PROVE  Waker(l)'
<1>1. \A d \in Coroutines \ {c} : pc'[d] = pc[d] /\ lk'[d] = lk[d]
  BY GoesFacts
<1>2. ToSet(unlock_bh_queue) \subseteq Coroutines /\ ToSet(stack) \subseteq Coroutines
  BY Elements DEF TypeOK
<1> QED BY <1>1, <1>2 DEF Waker

\* Only a locked lock is waited for, and who holds it is a waker.
LEMMA LockedWaker ==
    ASSUME IInv
    PROVE  /\ \A m \in Mutexes : locked[m] =>
                \E d \in Coroutines : pc[d] \in Holding /\ lk[d] = m
           /\ \A w \in Rwlocks : WriterMustWait(w) =>
                \E d \in Coroutines : pc[d] \in Holding /\ lk[d] = w
<1>0. MutualExclusion
  BY DEF IInv
<1>1. ASSUME NEW m \in Mutexes, locked[m]
      PROVE  \E d \in Coroutines : pc[d] \in Holding /\ lk[d] = m
  <2>1. Holders("locked", m) # {}
    BY <1>0, <1>1 DEF MutualExclusion
  <2> QED BY <2>1 DEF Holders, Holding
<1>2. ASSUME NEW w \in Rwlocks, writer[w]
      PROVE  \E d \in Coroutines : pc[d] \in Holding /\ lk[d] = w
  <2>1. Holders("wrlocked", w) # {}
    BY <1>0, <1>2 DEF MutualExclusion
  <2> QED BY <2>1 DEF Holders, Holding
<1>3. ASSUME NEW w \in Rwlocks, reader[w] # 0
      PROVE  \E d \in Coroutines : pc[d] \in Holding /\ lk[d] = w
  <2>1. Holders("rdlocked", w) # {}
    BY <1>0, <1>3, FS_EmptySet DEF MutualExclusion
  <2> QED BY <2>1 DEF Holders, Holding
<1> QED BY <1>1, <1>2, <1>3 DEF WriterMustWait

\* A coroutine waits for a lock that somebody else holds, or takes the lock:
\* every waiter has a waker.
LEMMA WakeupLocking ==
    ASSUME IInv, NEW c \in Coroutines, NEW l \in Locks, NEW p \in Wanting,
           Locking(c, p, l),
           \/ /\ CoQueueWait(c, l) /\ Goes(c, p, l)
              /\ \E d \in Coroutines : pc[d] \in Holding /\ lk[d] = l
           \/ /\ UNCHANGED <<queue, stack>> /\ \E q \in Holding : Goes(c, q, l),
           UNCHANGED unlock_bh_queue
    PROVE  \A k \in Locks : queue'[k] # <<>> => Waker(k)'
<1>0. TypeOK /\ OnePlace /\ NoLostWakeup
  BY DEF IInv
<1>1. Running(c) /\ (pc[c] = "ready" \/ (pc[c] = p /\ lk[c] = l))
  BY DEF Locking
<1>2. pc[c] \notin Holding
  BY <1>1 DEF Holding, Wanting
<1>3. PICK q \in Wanting \cup Holding : Goes(c, q, l)
  OBVIOUS
<1>4. /\ pc'[c] = q /\ lk'[c] = l
      /\ \A d \in Coroutines \ {c} : pc'[d] = pc[d] /\ lk'[d] = lk[d]
  BY <1>0, <1>3, GoesFacts
<1>5. Waker(l)'
  <2>1. CASE CoQueueWait(c, l) /\ \E d \in Coroutines : pc[d] \in Holding /\ lk[d] = l
    BY <1>2, <1>4, <2>1 DEF Waker
  <2>2. CASE \E r \in Holding : Goes(c, r, l)
    <3>1. pc'[c] \in Holding /\ lk'[c] = l
      BY <1>0, <2>2, GoesFacts
    <3> QED BY <3>1 DEF Waker
  <2> QED BY <2>1, <2>2
<1>6. ASSUME NEW k \in Locks, queue'[k] # <<>>, k # l PROVE Waker(k)'
  <2>1. queue'[k] = queue[k] /\ ToSet(stack) \ {c} \subseteq ToSet(stack')
    BY <1>0, <1>1, <1>6, WaitFacts
  <2>2. Waker(k)
    BY <1>0, <1>6, <2>1 DEF NoLostWakeup, Waker
  <2>3. ~ (pc[c] \in Wanting \cup Holding /\ lk[c] = k)
    BY <1>1, <1>6 DEF Wanting, Holding
  <2> QED BY <1>0, <1>3, <2>1, <2>2, <2>3, WakerStays
<1> QED BY <1>5, <1>6

\* A coroutine drops its lock and wakes a waiter, if there is one.
LEMMA WakeupUnlocking ==
    ASSUME IInv, NEW c \in Coroutines, Running(c), NEW l \in Locks,
           pc[c] \in Holding, lk[c] = l, Goes(c, "ready", NoLock),
           CoQueueNext(l) \/ CoQueueRestartAll(l), UNCHANGED <<stack, looping>>
    PROVE  NoLostWakeup'
<1>0. TypeOK /\ OnePlace /\ NoLostWakeup
  BY DEF IInv
<1>1. /\ \A k \in Locks \ {l} : queue'[k] = queue[k]
      /\ ToSet(unlock_bh_queue) \subseteq ToSet(unlock_bh_queue')
      /\ scheduled => scheduled'
      /\ queue[l] # <<>> =>
            scheduled' /\ \E d \in ToSet(queue[l]) : d \in ToSet(unlock_bh_queue')
      /\ queue[l] = <<>> => UNCHANGED <<queue, unlock_bh_queue, scheduled>>
  BY <1>0, WakeFacts
<1>2. ASSUME NEW k \in Locks, queue'[k] # <<>>, k # l PROVE Waker(k)'
  <2>1. Waker(k)
    BY <1>0, <1>1, <1>2 DEF NoLostWakeup, Waker
  <2> QED BY <1>0, <1>1, <1>2, <2>1, WakerStays
<1>3. ASSUME queue'[l] # <<>> PROVE Waker(l)'
  <2>1. PICK d \in ToSet(queue[l]) : d \in ToSet(unlock_bh_queue')
    BY <1>1, <1>3
  <2>2. d # c /\ d \in Coroutines /\ pc[d] \in Wanting /\ lk[d] = l
    BY <1>0, <2>1, RunningFacts, Elements DEF OnePlace, TypeOK
  <2>3. pc'[d] \in Wanting /\ lk'[d] = l
    BY <1>0, <2>2, GoesFacts
  <2> QED BY <2>1, <2>3 DEF Waker
<1>4. unlock_bh_queue' # <<>> => scheduled' \/ looping' # {}
  BY <1>0, <1>1 DEF NoLostWakeup
<1> QED BY <1>2, <1>3, <1>4 DEF NoLostWakeup, Waker

\* A reader that is not the last one unlocks: the others will wake the waiters.
LEMMA WakeupReader ==
    ASSUME IInv, NEW c \in Coroutines, Running(c), pc[c] = "rdlocked",
           Goes(c, "ready", NoLock), ~ LastReader(lk[c]),
           UNCHANGED <<queue, unlock_bh_queue, stack>>
    PROVE  \A k \in Locks : queue'[k] # <<>> => Waker(k)'
<1>0. TypeOK /\ KindOK /\ MutualExclusion /\ NoLostWakeup
  BY DEF IInv
<1>1. PICK w \in Rwlocks : w = lk[c]
  BY <1>0, HeldLock
<1>2. Waker(w)'
  <2>1. /\ c \in Holders("rdlocked", w) /\ reader[w] \in Nat /\ reader[w] - 1 # 0
        /\ reader[w] = Cardinality(Holders("rdlocked", w))
    BY <1>0, <1>1, ReaderCounted DEF TypeOK, LastReader
  <2>2. Cardinality(Holders("rdlocked", w) \ {c}) # 0
    BY <2>1, HoldersFinite, FS_RemoveElement
  <2>3. PICK d \in Holders("rdlocked", w) \ {c} : TRUE
    BY <2>2, FS_EmptySet
  <2>4. d \in Coroutines /\ d # c /\ pc[d] = "rdlocked" /\ lk[d] = w
    BY <2>3 DEF Holders
  <2>5. pc'[d] = "rdlocked" /\ lk'[d] = w
    BY <1>0, <2>4, GoesFacts
  <2> QED BY <2>4, <2>5 DEF Waker, Holding
<1>3. ASSUME NEW k \in Locks, queue'[k] # <<>>, k # w PROVE Waker(k)'
  <2>1. Waker(k)
    BY <1>0, <1>3 DEF NoLostWakeup, Waker
  <2> QED BY <1>0, <1>1, <1>3, <2>1, WakerStays
<1> QED BY <1>2, <1>3

\* Every step leaves every waiter with somebody who will wake it.
LEMMA WakeupStep == IInv /\ Next => NoLostWakeup'
<1> SUFFICES ASSUME IInv, Next PROVE NoLostWakeup'
  OBVIOUS
<1>0. TypeOK /\ KindOK /\ OnePlace /\ NoLostWakeup
  BY DEF IInv
<1>a. ASSUME \A k \in Locks : queue'[k] # <<>> => Waker(k)',
             unlock_bh_queue' # <<>> => scheduled' \/ looping' # {}
      PROVE  NoLostWakeup'
  BY <1>a DEF NoLostWakeup, Waker
<1>b. /\ \A k \in Locks : queue[k] # <<>> => Waker(k)
      /\ unlock_bh_queue # <<>> => scheduled \/ looping # {}
  BY <1>0 DEF NoLostWakeup, Waker
<1>c. ASSUME NEW c \in Coroutines, pc[c] \in {"none", "ready", "drain"},
             NEW q \in {"none", "ready", "drain"}, Goes(c, q, NoLock),
             ToSet(stack) \ {c} \subseteq ToSet(stack'),
             UNCHANGED <<queue, unlock_bh_queue, scheduled, looping>>
      PROVE  NoLostWakeup'
  <2>1. pc[c] \notin Wanting \cup Holding
    BY <1>c DEF Wanting, Holding
  <2>2. ASSUME NEW k \in Locks, queue'[k] # <<>> PROVE Waker(k)'
    BY <1>0, <1>b, <1>c, <2>1, <2>2, WakerStays
  <2> QED BY <1>a, <1>b, <1>c, <2>2
<1>1. CASE BhRun
  <2>1. looping' # {} /\ UNCHANGED <<queue, unlock_bh_queue, stack, pc, lk>>
    BY <1>1 DEF BhRun, lockVars, coVars
  <2> QED BY <1>0, <2>1 DEF NoLostWakeup
<1>2. CASE BhReturn
  <2>1. unlock_bh_queue' = <<>> /\ UNCHANGED <<queue, unlock_bh_queue, stack, pc, lk>>
    BY <1>2 DEF BhReturn, bhVars, lockVars, coVars
  <2> QED BY <1>0, <2>1 DEF NoLostWakeup
<1>3. CASE BhNext
  <2>1. PICK h \in ToSet(unlock_bh_queue) :
            /\ ToSet(unlock_bh_queue') = ToSet(unlock_bh_queue) \ {h}
            /\ ToSet(stack') = ToSet(stack) \cup {h}
    BY <1>0, <1>3, BhNextFacts
  <2>2. looping' # {} /\ UNCHANGED <<queue, pc, lk>>
    BY <1>3 DEF BhNext, lockVars, coVars
  <2>3. ToSet(unlock_bh_queue') \cup ToSet(stack') = ToSet(unlock_bh_queue) \cup ToSet(stack)
    BY <2>1
  <2> QED BY <1>0, <2>2, <2>3 DEF NoLostWakeup
<1>4. ASSUME NEW c \in Coroutines, Start(c) PROVE NoLostWakeup'
  <2>1. /\ pc[c] = "none" /\ Goes(c, "ready", NoLock) /\ stack' = Append(stack, c)
        /\ UNCHANGED <<queue, unlock_bh_queue, scheduled, looping>>
    BY <1>4 DEF Start, bhVars, lockVars
  <2>2. ToSet(stack) \ {c} \subseteq ToSet(stack')
    BY <1>0, <2>1, AppendSet DEF TypeOK
  <2> QED BY <1>c, <2>1, <2>2
<1>5. ASSUME NEW c \in Coroutines, AioDone(c) PROVE NoLostWakeup'
  <2>1. /\ stack' = Append(stack, c)
        /\ UNCHANGED <<queue, unlock_bh_queue, scheduled, looping, pc, lk>>
    BY <1>5 DEF AioDone, bhVars, lockVars, coVars
  <2>2. ToSet(stack) \subseteq ToSet(stack')
    BY <1>0, <2>1, AppendSet DEF TypeOK
  <2> QED BY <1>0, <2>1, <2>2 DEF NoLostWakeup
<1>6. ASSUME NEW c \in Coroutines, AioYield(c) PROVE NoLostWakeup'
  <2>1. /\ Running(c) /\ stack' = Front(stack) /\ pc[c] \in {"ready"} \cup Holding
        /\ UNCHANGED <<queue, unlock_bh_queue, scheduled, looping, pc, lk>>
    BY <1>6 DEF AioYield, bhVars, lockVars, coVars
  <2>2. ToSet(stack') = ToSet(stack) \ {c} /\ pc[c] \notin Wanting
    BY <1>0, <2>1, RunningFacts DEF Wanting, Holding
  <2> QED BY <1>0, <2>1, <2>2 DEF NoLostWakeup
<1>7. ASSUME NEW c \in Coroutines, Terminate(c) PROVE NoLostWakeup'
  <2>1. /\ Running(c) /\ pc[c] = "ready" /\ Goes(c, "none", NoLock) /\ stack' = Front(stack)
        /\ UNCHANGED <<queue, unlock_bh_queue, scheduled, looping>>
    BY <1>7 DEF Terminate, bhVars, lockVars
  <2>2. ToSet(stack) \ {c} \subseteq ToSet(stack')
    BY <1>0, <2>1, RunningFacts
  <2> QED BY <1>c, <2>1, <2>2
<1>8. ASSUME NEW c \in Coroutines, DrainAll(c) \/ DrainReturn(c) PROVE NoLostWakeup'
  <2>1. /\ pc[c] \in {"ready", "drain"} /\ \E q \in {"ready", "drain"} : Goes(c, q, NoLock)
        /\ UNCHANGED <<queue, unlock_bh_queue, scheduled, looping, stack>>
    BY <1>8 DEF DrainAll, DrainReturn, Drained, bhVars, lockVars, callVars
  <2> QED BY <1>c, <2>1
<1>9. ASSUME NEW c \in Coroutines, NEW m \in Mutexes, MutexLock(c, m) PROVE NoLostWakeup'
  <2>1. /\ m \in Locks /\ Locking(c, "lock", m)
        /\ UNCHANGED <<unlock_bh_queue, scheduled, looping>>
        /\ \/ locked[m] /\ CoQueueWait(c, m) /\ Goes(c, "lock", m)
           \/ Goes(c, "locked", m) /\ UNCHANGED <<queue, stack>>
    BY <1>9 DEF Locks, MutexLock, MutexBusy, bhVars
  <2>2. \A k \in Locks : queue'[k] # <<>> => Waker(k)'
    BY <2>1, LockedWaker, WakeupLocking DEF Wanting, Holding
  <2> QED BY <1>a, <1>b, <2>1, <2>2
<1>10. ASSUME NEW c \in Coroutines, NEW w \in Rwlocks, RwlockRdlock(c, w)
       PROVE  NoLostWakeup'
  <2>1. /\ w \in Locks /\ Locking(c, "rdlock", w)
        /\ UNCHANGED <<unlock_bh_queue, scheduled, looping>>
        /\ \/ WriterMustWait(w) /\ CoQueueWait(c, w) /\ Goes(c, "rdlock", w)
           \/ Goes(c, "rdlocked", w) /\ UNCHANGED <<queue, stack>>
    BY <1>10 DEF Locks, RwlockRdlock, WriterMustWait, bhVars
  <2>2. \A k \in Locks : queue'[k] # <<>> => Waker(k)'
    BY <2>1, LockedWaker, WakeupLocking DEF Wanting, Holding
  <2> QED BY <1>a, <1>b, <2>1, <2>2
<1>11. ASSUME NEW c \in Coroutines, NEW w \in Rwlocks, RwlockWrlock(c, w)
       PROVE  NoLostWakeup'
  <2>1. /\ w \in Locks /\ Locking(c, "wrlock", w)
        /\ UNCHANGED <<unlock_bh_queue, scheduled, looping>>
        /\ \/ WriterMustWait(w) /\ CoQueueWait(c, w) /\ Goes(c, "wrlock", w)
           \/ Goes(c, "wrlocked", w) /\ UNCHANGED <<queue, stack>>
    BY <1>11 DEF Locks, RwlockWrlock, bhVars
  <2>2. \A k \in Locks : queue'[k] # <<>> => Waker(k)'
    BY <2>1, LockedWaker, WakeupLocking DEF Wanting, Holding
  <2> QED BY <1>a, <1>b, <2>1, <2>2
<1>12. ASSUME NEW c \in Coroutines, MutexUnlock(c) \/ RwlockUnlockWriter(c)
       PROVE  NoLostWakeup'
  <2>1. /\ Running(c) /\ Goes(c, "ready", NoLock) /\ UNCHANGED <<stack, looping>>
        /\ pc[c] \in {"locked", "rdlocked", "wrlocked"}
        /\ CoQueueNext(lk[c]) \/ CoQueueRestartAll(lk[c])
    BY <1>12 DEF MutexUnlock, RwlockUnlockWriter, callVars
  <2>2. lk[c] \in Locks /\ pc[c] \in Holding
    BY <1>0, <2>1, HeldLock DEF Holding
  <2> QED BY <2>1, <2>2, WakeupUnlocking
<1>13. ASSUME NEW c \in Coroutines, RwlockUnlockReader(c) PROVE NoLostWakeup'
  <2>1. /\ Running(c) /\ Goes(c, "ready", NoLock) /\ UNCHANGED <<stack, looping>>
        /\ pc[c] = "rdlocked"
        /\ \/ CoQueueNext(lk[c])
           \/ ~ LastReader(lk[c]) /\ UNCHANGED <<queue, unlock_bh_queue, scheduled>>
    BY <1>13, UnlockerKind DEF RwlockUnlockReader, callVars, bhVars
  <2>2. lk[c] \in Locks /\ pc[c] \in Holding
    BY <1>0, <2>1, HeldLock DEF Holding
  <2>3. CASE CoQueueNext(lk[c])
    BY <2>1, <2>2, <2>3, WakeupUnlocking
  <2>4. CASE ~ LastReader(lk[c]) /\ UNCHANGED <<queue, unlock_bh_queue, scheduled>>
    <3>1. \A k \in Locks : queue'[k] # <<>> => Waker(k)'
      BY <2>1, <2>4, WakeupReader
    <3> QED BY <1>a, <1>b, <2>1, <2>4, <3>1
  <2> QED BY <2>1, <2>3, <2>4
<1> QED BY <1>1, <1>2, <1>3, <1>4, <1>5, <1>6, <1>7, <1>8, <1>9, <1>10, <1>11, <1>12, <1>13
        DEF Next, Coroutine, Unlock

-----------------------------------------------------------------------------
(* Only writers wait for readers.                                          *)

\* The waiters of w were there before, and do not move.
LEMMA WritersStay ==
    ASSUME IInv, NEW c \in Coroutines,
           NEW q \in {"none", "ready", "drain"} \cup Wanting \cup Holding,
           NEW k \in Locks \cup {NoLock}, Goes(c, q, k), NEW w \in Rwlocks,
           c \notin ToSet(queue[w]),
           ToSet(queue'[w]) \subseteq ToSet(queue[w]), ~ writer[w]
    PROVE  \A d \in ToSet(queue'[w]) : pc'[d] = "wrlock"
<1>1. TypeOK /\ OnlyWritersWait
  BY DEF IInv
<1>2. \A d \in Coroutines \ {c} : pc'[d] = pc[d]
  BY <1>1, GoesFacts
<1>3. ToSet(queue[w]) \subseteq Coroutines
  BY <1>1, Elements DEF TypeOK, Locks
<1> QED BY <1>1, <1>2, <1>3 DEF OnlyWritersWait

\* A reader does not wait for a lock that has no writer.
LEMMA WritersStep == IInv /\ Next => OnlyWritersWait'
<1> SUFFICES ASSUME IInv, Next, NEW w \in Rwlocks, ~ writer'[w]
             PROVE  \A d \in ToSet(queue'[w]) : pc'[d] = "wrlock"
  BY DEF OnlyWritersWait
<1>0. TypeOK /\ KindOK /\ OnePlace /\ OnlyWritersWait /\ w \in Locks /\ w \notin Mutexes
  BY LockAssumption DEF IInv, Locks, LockAssumption
<1> DEFINE Goal == \A d \in ToSet(queue'[w]) : pc'[d] = "wrlock"
<1>a. ASSUME UNCHANGED <<queue, writer, pc>> PROVE Goal
  BY <1>0, <1>a DEF OnlyWritersWait
<1>b. ASSUME NEW c \in Coroutines, Running(c),
             NEW q \in {"none", "ready", "drain"} \cup Wanting \cup Holding,
             NEW k \in Locks \cup {NoLock}, Goes(c, q, k), ~ writer[w],
             ToSet(queue'[w]) \subseteq ToSet(queue[w])
      PROVE  Goal
  BY <1>0, <1>b, RunningFacts, WritersStay
<1>1. CASE BhRun \/ BhNext \/ BhReturn
  BY <1>1, <1>a DEF BhRun, BhNext, BhReturn, lockVars, coVars
<1>2. ASSUME NEW c \in Coroutines, AioDone(c) \/ AioYield(c) PROVE Goal
  BY <1>2, <1>a DEF AioDone, AioYield, lockVars, coVars
<1>3. ASSUME NEW c \in Coroutines, Start(c) PROVE Goal
  <2>1. pc[c] = "none" /\ Goes(c, "ready", NoLock) /\ UNCHANGED <<queue, writer>>
    BY <1>3 DEF Start, lockVars
  <2>2. c \notin ToSet(queue[w])
    BY <1>0, <2>1 DEF OnePlace, Wanting
  <2> QED BY <2>1, <2>2, WritersStay
<1>4. ASSUME NEW c \in Coroutines, Terminate(c) \/ DrainAll(c) \/ DrainReturn(c) PROVE Goal
  <2>1. /\ Running(c) /\ UNCHANGED <<queue, writer>>
        /\ \E q \in {"none", "ready", "drain"} : Goes(c, q, NoLock)
    BY <1>4 DEF Terminate, DrainAll, DrainReturn, Drained, lockVars
  <2> QED BY <1>b, <2>1
<1>5. ASSUME NEW c \in Coroutines, NEW m \in Mutexes, MutexLock(c, m) PROVE Goal
  <2>1. /\ m \in Locks /\ m # w /\ Running(c) /\ UNCHANGED writer
        /\ CoQueueWait(c, m) \/ UNCHANGED queue
        /\ Goes(c, "lock", m) \/ Goes(c, "locked", m)
    BY <1>0, <1>5 DEF Locks, MutexLock, Locking
  <2>2. queue'[w] = queue[w]
    BY <1>0, <2>1, WaitFacts
  <2> QED BY <1>b, <2>1, <2>2 DEF Wanting, Holding
<1>6. ASSUME NEW c \in Coroutines, NEW v \in Rwlocks, RwlockRdlock(c, v) PROVE Goal
  <2>1. /\ v \in Locks /\ Running(c) /\ UNCHANGED writer
        /\ (writer[v] /\ CoQueueWait(c, v)) \/ UNCHANGED queue
        /\ Goes(c, "rdlock", v) \/ Goes(c, "rdlocked", v)
    BY <1>6 DEF Locks, RwlockRdlock, Locking
  <2>2. queue'[w] = queue[w]
    BY <1>0, <2>1, WaitFacts
  <2> QED BY <1>b, <2>1, <2>2 DEF Wanting, Holding
<1>7. ASSUME NEW c \in Coroutines, NEW v \in Rwlocks, RwlockWrlock(c, v) PROVE Goal
  <2>0. v \in Locks /\ Running(c)
    BY <1>7 DEF Locks, RwlockWrlock, Locking
  <2>1. CASE WriterMustWait(v)
    <3>1. CoQueueWait(c, v) /\ Goes(c, "wrlock", v) /\ UNCHANGED writer
      BY <1>7, <2>1 DEF RwlockWrlock
    <3>2. /\ ToSet(queue'[v]) = ToSet(queue[v]) \cup {c}
          /\ \A k \in Locks \ {v} : queue'[k] = queue[k]
      BY <1>0, <2>0, <3>1, WaitFacts
    <3>3. pc'[c] = "wrlock" /\ \A d \in Coroutines \ {c} : pc'[d] = pc[d]
      BY <1>0, <2>0, <3>1, GoesFacts DEF Wanting
    <3>4. ToSet(queue[w]) \subseteq Coroutines
      BY <1>0, Elements DEF TypeOK
    <3>5. ToSet(queue'[w]) \subseteq ToSet(queue[w]) \cup {c}
      BY <1>0, <3>2
    <3> QED BY <1>0, <3>1, <3>3, <3>4, <3>5 DEF OnlyWritersWait
  <2>2. CASE ~ WriterMustWait(v)
    <3>1. /\ writer' = [writer EXCEPT ![v] = TRUE] /\ Goes(c, "wrlocked", v)
          /\ UNCHANGED queue
      BY <1>7, <2>2 DEF RwlockWrlock
    <3>2. ~ writer[w]
      BY <1>0, <3>1 DEF TypeOK
    <3> QED BY <1>b, <2>0, <3>1, <3>2 DEF Holding
  <2> QED BY <2>1, <2>2
<1>8. ASSUME NEW c \in Coroutines, MutexUnlock(c) PROVE Goal
  <2>1. /\ Running(c) /\ Goes(c, "ready", NoLock) /\ UNCHANGED writer
        /\ pc[c] = "locked" /\ CoQueueNext(lk[c])
    BY <1>8 DEF MutexUnlock
  <2>2. lk[c] \in Locks /\ lk[c] # w
    BY <1>0, <2>1, HeldLock
  <2>3. queue'[w] = queue[w]
    BY <1>0, <2>1, <2>2, WakeFacts
  <2> QED BY <1>b, <2>1, <2>3
<1>9. ASSUME NEW c \in Coroutines, RwlockUnlockWriter(c) PROVE Goal
  <2>1. /\ Running(c) /\ Goes(c, "ready", NoLock) /\ CoQueueRestartAll(lk[c])
        /\ pc[c] \in {"rdlocked", "wrlocked"} /\ writer' = [writer EXCEPT ![lk[c]] = FALSE]
    BY <1>9 DEF RwlockUnlockWriter
  <2>2. lk[c] \in Locks
    BY <1>0, <2>1, HeldLock
  <2>3. CASE w = lk[c]
    <3>1. queue'[w] = <<>>
      BY <1>0, <2>1, <2>2, <2>3, WakeFacts
    <3> QED BY <3>1, EmptySet
  <2>4. CASE w # lk[c]
    <3>1. queue'[w] = queue[w]
      BY <1>0, <2>1, <2>2, <2>4, WakeFacts
    <3>2. ~ writer[w]
      BY <1>0, <2>1, <2>4 DEF TypeOK
    <3> QED BY <1>b, <2>1, <3>1, <3>2
  <2> QED BY <2>3, <2>4
<1>10. ASSUME NEW c \in Coroutines, RwlockUnlockReader(c) PROVE Goal
  <2>1. /\ Running(c) /\ Goes(c, "ready", NoLock) /\ UNCHANGED writer
        /\ pc[c] \in {"rdlocked", "wrlocked"}
        /\ CoQueueNext(lk[c]) \/ UNCHANGED queue
    BY <1>10 DEF RwlockUnlockReader
  <2>2. lk[c] \in Locks
    BY <1>0, <2>1, HeldLock
  <2>3. ToSet(queue'[w]) \subseteq ToSet(queue[w])
    <3>1. CASE w = lk[c]
      BY <1>0, <2>1, <2>2, <3>1, WakeFacts
    <3>2. CASE w # lk[c]
      BY <1>0, <2>1, <2>2, <3>2, WakeFacts
    <3> QED BY <3>1, <3>2
  <2> QED BY <1>b, <2>1, <2>3
<1> QED BY <1>1, <1>2, <1>3, <1>4, <1>5, <1>6, <1>7, <1>8, <1>9, <1>10
        DEF Next, Coroutine, Unlock

-----------------------------------------------------------------------------
(* The theorems.                                                           *)

\* No coroutine exists at first and every lock is free.
LEMMA InitIInv == Init => IInv
<1> SUFFICES ASSUME Init PROVE IInv
  OBVIOUS
<1> USE DEF Init
<1>1. TypeOK
  BY EmptySet DEF TypeOK
<1>2. KindOK
  BY DEF KindOK
<1>3. \A p \in Holding : \A l : Holders(p, l) = {}
  BY DEF Holding, Holders
<1>4. MutualExclusion
  <2>1. "locked" \in Holding /\ "rdlocked" \in Holding /\ "wrlocked" \in Holding
    BY DEF Holding
  <2> QED BY <1>3, <2>1, FS_EmptySet DEF MutualExclusion
<1>5. OnePlace
  BY EmptySet DEF OnePlace
<1>6. NoLostWakeup
  BY DEF NoLostWakeup
<1>7. OnlyWritersWait
  BY EmptySet DEF OnlyWritersWait, Locks
<1> QED BY <1>1, <1>2, <1>4, <1>5, <1>6, <1>7 DEF IInv

\* Nothing that the invariant speaks of changes in a stuttering step.
LEMMA StutterIInv == IInv /\ UNCHANGED vars => IInv'
<1> SUFFICES ASSUME IInv, UNCHANGED vars PROVE IInv'
  OBVIOUS
<1>1. UNCHANGED <<unlock_bh_queue, scheduled, queue, locked, writer, reader, stack,
                  looping, inflight, pc, lk>>
  BY DEF vars, bhVars, lockVars, callVars, coVars
<1>2. TypeOK' /\ KindOK'
  BY <1>1 DEF IInv, TypeOK, KindOK
<1>3. MutualExclusion'
  BY <1>1 DEF IInv, MutualExclusion, Holders
<1>4. OnePlace' /\ NoLostWakeup' /\ OnlyWritersWait'
  BY <1>1 DEF IInv, OnePlace, NoLostWakeup, OnlyWritersWait
<1> QED BY <1>2, <1>3, <1>4 DEF IInv

\* IInv holds in every reachable state.
THEOREM Invariance == Spec => []IInv
<1>1. IInv /\ [Next]_vars => IInv'
  <2>1. IInv /\ Next => IInv'
    BY TypeStep, ExclusionStep, PlaceStep, WakeupStep, WritersStep DEF IInv
  <2> QED BY <2>1, StutterIInv
<1> QED BY <1>1, InitIInv, PTL DEF Spec

\* The variables have their types; in particular the reader count that
\* qemu_co_rwlock_unlock asserts to be positive never goes below zero.
THEOREM TypeCorrect == Spec => []TypeOK
<1>1. IInv => TypeOK
  BY DEF IInv
<1> QED BY <1>1, Invariance, PTL

\* CoMutex and CoRwlock exclude what they have to, for every number of
\* coroutines and locks: one holder of a mutex, a writer alone, and as many
\* readers as the reader count says.
THEOREM ExclusionHolds == Spec => []MutualExclusion
<1>1. IInv => MutualExclusion
  BY DEF IInv
<1> QED BY <1>1, Invariance, PTL

\* A coroutine is never in two queues, and never entered while it is entered.
THEOREM OnePlaceHolds == Spec => []OnePlace
<1>1. IInv => OnePlace
  BY DEF IInv
<1> QED BY <1>1, Invariance, PTL

\* Whoever waits in a CoQueue has a holder or a woken coroutine to wake it, and
\* whoever is woken has a bottom half, scheduled or running, to enter it.
THEOREM WakeupsNotLost == Spec => []NoLostWakeup
<1>1. IInv => NoLostWakeup
  BY DEF IInv
<1> QED BY <1>1, Invariance, PTL

\* The last reader of a CoRwlock wakes a writer: no reader waits for readers.
THEOREM OnlyWritersWaitHolds == Spec => []OnlyWritersWait
<1>1. IInv => OnlyWritersWait
  BY DEF IInv
<1> QED BY <1>1, Invariance, PTL

-----------------------------------------------------------------------------
(* What bdrv_drain_all may conclude from qemu_aio_wait.  IInv says where a *)
(* coroutine may be; that the drained poller has left nobody behind needs  *)
(* the converse, that a coroutine which exists is somewhere, and the shape *)
(* of the call stack.                                                      *)

\* The poller that has entered the running coroutine.
Caller == IF Len(stack) = 1 THEN MainLoop ELSE stack[Len(stack) - 1]

\* A coroutine that exists is entered, woken, doing I/O, or queued.
Placed ==
    \A c \in Coroutines : pc[c] # "none" =>
        \/ c \in ToSet(stack) \cup inflight \cup ToSet(unlock_bh_queue)
        \/ lk[c] \in Locks /\ c \in ToSet(queue[lk[c]])

\* Whoever has entered another coroutine is polling in bdrv_drain_all.
Suspended ==
    /\ \A i \in 1 .. Len(stack) - 1 : pc[stack[i]] = "drain"
    /\ \A c \in Coroutines : pc[c] = "drain" => c \in Drainers

\* Whoever is inside qemu_co_queue_next_bh is polling.
Loopers ==
    \A c \in looping : c = MainLoop \/ (c \in ToSet(stack) /\ pc[c] = "drain")

\* When no coroutine drains inside the bottom half, the bottom half runs in one
\* poller only: on top of the stack, or below one coroutine, which does not drain.
OneLoop ==
    ~ DrainInBh =>
        \/ looping = {} \/ looping = {Top}
        \/ stack # <<>> /\ pc[Top] # "drain" /\ looping = {Caller}

StackInv == Placed /\ Suspended /\ Loopers /\ OneLoop

\* The top of the stack, in terms of positions.
LEMMA TopFacts ==
    ASSUME TypeOK
    PROVE  /\ stack = <<>> => Top = MainLoop
           /\ stack # <<>> => /\ Len(stack) \in Nat /\ Len(stack) >= 1
                              /\ Top = stack[Len(stack)] /\ Top \in Coroutines
                              /\ Top # MainLoop /\ Top \in ToSet(stack)
           /\ \A c \in Coroutines : Running(c) => stack # <<>> /\ Top = c
<1>1. stack \in Seq(Coroutines)
  BY DEF TypeOK
<1>2. ASSUME stack # <<>>
      PROVE  Len(stack) \in Nat /\ Len(stack) >= 1 /\ stack[Len(stack)] \in Coroutines
             /\ stack[Len(stack)] \in ToSet(stack)
  <2>1. Len(stack) \in Nat /\ Len(stack) > 0
    BY <1>1, <1>2, NonEmptySet, Elements
  <2> QED BY <1>1, <2>1, Elements
<1> QED BY <1>1, <1>2, LockAssumption DEF Top, Last, Running, LockAssumption

\* A coroutine is entered by a poller: the one that polls, or the one that runs
\* the bottom half.
LEMMA StackEnter ==
    ASSUME TypeOK, OnePlace, Suspended, Loopers, OneLoop, NEW c \in Coroutines,
           AtPoll \/ Top \in looping, c \notin ToSet(stack), stack' = Append(stack, c),
           UNCHANGED looping, pc'[c] # "drain", \A d \in Coroutines \ {c} : pc'[d] = pc[d]
    PROVE  Suspended' /\ Loopers' /\ OneLoop'
<1>1. /\ stack \in Seq(Coroutines) /\ Len(stack) \in Nat
      /\ \A i \in 1 .. Len(stack) : stack[i] \in Coroutines /\ stack[i] # c
      /\ ToSet(stack) \subseteq Coroutines
  BY Elements DEF TypeOK
<1>2. /\ stack' \in Seq(Coroutines) /\ Len(stack') = Len(stack) + 1 /\ stack' # <<>>
      /\ stack'[Len(stack) + 1] = c /\ \A i \in 1 .. Len(stack) : stack'[i] = stack[i]
      /\ ToSet(stack') = ToSet(stack) \cup {c}
  BY <1>1, AppendSet
<1>3. stack # <<>> => pc[Top] = "drain"
  BY TopFacts DEF AtPoll, Loopers
<1>4. \A i \in 1 .. Len(stack) : pc[stack[i]] = "drain"
  <2> SUFFICES ASSUME NEW i \in 1 .. Len(stack) PROVE pc[stack[i]] = "drain"
    OBVIOUS
  <2>1. CASE i = Len(stack)
    <3>1. stack # <<>>
      BY <1>1, <2>1, EmptySet
    <3> QED BY <1>3, <2>1, <3>1, TopFacts
  <2>2. CASE i # Len(stack)
    BY <1>1, <2>2 DEF Suspended
  <2> QED BY <2>1, <2>2
<1>5. Suspended'
  <2>1. \A i \in 1 .. Len(stack') - 1 : pc'[stack'[i]] = "drain"
    BY <1>1, <1>2, <1>4
  <2> QED BY <2>1 DEF Suspended
<1>6. Loopers'
  BY <1>1, <1>2 DEF Loopers
<1>7. OneLoop'
  <2> SUFFICES ASSUME ~ DrainInBh
               PROVE  \/ looping' = {}
                      \/ stack' # <<>> /\ pc'[Top'] # "drain" /\ looping' = {Caller'}
    BY DEF OneLoop
  <2>1. Top' = c
    BY <1>1, <1>2 DEF Top, Last
  <2>2. Caller' = Top
    <3>1. CASE stack = <<>>
      BY <1>1, <1>2, <3>1, EmptySet, TopFacts DEF Caller
    <3>2. CASE stack # <<>>
      <4>1. Len(stack') # 1 /\ Len(stack') - 1 = Len(stack) /\ Len(stack) \in 1 .. Len(stack)
        BY <1>1, <1>2, <3>2, TopFacts
      <4> QED BY <1>2, <3>2, <4>1, TopFacts DEF Caller
    <3> QED BY <3>1, <3>2
  <2>3. looping = {} \/ looping = {Top}
    BY <1>3 DEF OneLoop
  <2> QED BY <1>2, <2>1, <2>2, <2>3
<1> QED BY <1>5, <1>6, <1>7

\* The running coroutine yields or terminates, and its caller goes on.
LEMMA StackLeave ==
    ASSUME TypeOK, OnePlace, Suspended, Loopers, OneLoop, NEW c \in Coroutines,
           Running(c), pc[c] # "drain", stack' = Front(stack),
           UNCHANGED looping, pc'[c] # "drain", \A d \in Coroutines \ {c} : pc'[d] = pc[d]
    PROVE  Suspended' /\ Loopers' /\ OneLoop'
<1>1. /\ stack \in Seq(Coroutines) /\ stack # <<>> /\ Len(stack) \in Nat /\ Len(stack) >= 1
      /\ Top = c /\ stack[Len(stack)] = c
      /\ \A i \in 1 .. Len(stack) : stack[i] \in Coroutines
      /\ \A i, j \in 1 .. Len(stack) : stack[i] = stack[j] => i = j
  BY TopFacts, Elements DEF TypeOK, OnePlace
<1>2. stack' = SubSeq(stack, 1, Len(stack) - 1)
  BY DEF Front
<1>3. /\ stack' \in Seq(Coroutines) /\ Len(stack') = Len(stack) - 1
      /\ \A i \in 1 .. Len(stack) - 1 : stack'[i] = stack[i]
  <2>1. /\ 1 \in Int /\ Len(stack) - 1 \in Int
        /\ \A i \in 1 .. Len(stack) - 1 : stack[i] \in Coroutines
    BY <1>1
  <2>2. /\ stack' \in Seq(Coroutines)
        /\ Len(stack') = IF 1 <= Len(stack) - 1 THEN Len(stack) - 1 - 1 + 1 ELSE 0
        /\ \A i \in 1 .. Len(stack) - 1 - 1 + 1 : stack'[i] = stack[1 + i - 1]
    BY <1>2, <2>1, SubSeqProperties
  <2>3. Len(stack') = Len(stack) - 1
    <3>1. Len(stack) \in Nat /\ Len(stack) >= 1
      BY <1>1
    <3>2. Len(stack') = IF 1 <= Len(stack) - 1 THEN Len(stack) - 1 - 1 + 1 ELSE 0
      BY <2>2
    <3>3. ASSUME NEW n \in Nat, n >= 1
          PROVE  (IF 1 <= n - 1 THEN n - 1 - 1 + 1 ELSE 0) = n - 1
      BY <3>3
    <3> QED BY <3>1, <3>2, <3>3
  <2>4. ASSUME NEW i \in 1 .. Len(stack) - 1 PROVE stack'[i] = stack[i]
    <3>1. i \in 1 .. Len(stack) - 1 - 1 + 1 /\ 1 + i - 1 = i
      BY <1>1
    <3> QED BY <2>2, <3>1
  <2> QED BY <2>2, <2>3, <2>4
<1>4. ToSet(stack') = ToSet(stack) \ {c}
  BY RunningFacts
<1>5. \A i \in 1 .. Len(stack) - 1 : stack[i] # c
  BY <1>1
<1>6. c \notin looping
  BY LockAssumption DEF Loopers, LockAssumption
<1>7. Suspended'
  <2>1. \A i \in 1 .. Len(stack') - 1 : pc'[stack'[i]] = "drain"
    BY <1>1, <1>3, <1>5 DEF Suspended
  <2> QED BY <2>1 DEF Suspended
<1>8. Loopers'
  BY <1>4, <1>6, Elements DEF Loopers, TypeOK
<1>9. OneLoop'
  <2> SUFFICES ASSUME ~ DrainInBh PROVE looping' = {} \/ looping' = {Top'}
    BY DEF OneLoop
  <2>1. looping = {} \/ looping = {Caller}
    BY <1>1, <1>6 DEF OneLoop
  <2>2. Top' = Caller
    <3>1. CASE Len(stack) = 1
      <4>1. stack' = <<>>
        BY <1>3, <3>1, NonEmptySet
      <4> QED BY <3>1, <4>1 DEF Top, Caller
    <3>2. CASE Len(stack) # 1
      <4>1. Len(stack') \in 1 .. Len(stack) - 1 /\ stack' # <<>>
        BY <1>1, <1>3, <3>2, EmptySet
      <4> QED BY <1>1, <1>3, <3>2, <4>1 DEF Top, Caller, Last
    <3> QED BY <3>1, <3>2
  <2> QED BY <2>1, <2>2
<1> QED BY <1>7, <1>8, <1>9

\* The running coroutine, which is not inside the bottom half, goes on; when it
\* starts to drain, it is a block job and nobody is inside the bottom half.
LEMMA StackStays ==
    ASSUME TypeOK, OnePlace, Suspended, Loopers, OneLoop, NEW c \in Coroutines,
           Running(c), c \notin looping, UNCHANGED <<stack, looping>>,
           pc'[c] = "drain" => c \in Drainers /\ (DrainInBh \/ looping = {}),
           \A d \in Coroutines \ {c} : pc'[d] = pc[d]
    PROVE  Suspended' /\ Loopers' /\ OneLoop'
<1>1. /\ stack \in Seq(Coroutines) /\ stack # <<>> /\ Len(stack) \in Nat /\ Len(stack) >= 1
      /\ Top = c /\ stack[Len(stack)] = c
      /\ \A i \in 1 .. Len(stack) : stack[i] \in Coroutines
      /\ \A i, j \in 1 .. Len(stack) : stack[i] = stack[j] => i = j
  BY TopFacts, Elements DEF TypeOK, OnePlace
<1>2. \A i \in 1 .. Len(stack) - 1 : stack[i] # c
  BY <1>1
<1>3. Suspended'
  BY <1>1, <1>2 DEF Suspended
<1>4. Loopers'
  BY Elements DEF Loopers, TypeOK
<1>5. Top' = Top /\ Caller' = Caller
  BY DEF Top, Caller
<1>6. OneLoop'
  BY <1>1, <1>5 DEF OneLoop
<1> QED BY <1>3, <1>4, <1>6

\* One coroutine moves between the places, and the others stay where they are.
LEMMA PlacedMove ==
    ASSUME TypeOK, Placed, NEW c \in Coroutines,
           \A d \in Coroutines \ {c} : pc'[d] = pc[d] /\ lk'[d] = lk[d],
           ToSet(stack) \ {c} \subseteq ToSet(stack'), inflight \ {c} \subseteq inflight',
           ToSet(unlock_bh_queue) \ {c} \subseteq ToSet(unlock_bh_queue'),
           \A l \in Locks : \A d \in ToSet(queue[l]) \ {c} :
                d \in ToSet(queue'[l]) \/ d \in ToSet(unlock_bh_queue'),
           \/ pc'[c] = "none" \/ c \in ToSet(stack') \/ c \in inflight'
           \/ lk'[c] \in Locks /\ c \in ToSet(queue'[lk'[c]])
    PROVE  Placed'
<1> SUFFICES ASSUME NEW d \in Coroutines, pc'[d] # "none"
             PROVE  \/ d \in ToSet(stack') \cup inflight' \cup ToSet(unlock_bh_queue')
                    \/ lk'[d] \in Locks /\ d \in ToSet(queue'[lk'[d]])
  BY DEF Placed
<1>1. CASE d = c
  BY <1>1
<1>2. CASE d # c
  <2>1. pc[d] # "none" /\ lk'[d] = lk[d]
    BY <1>2
  <2>2. \/ d \in ToSet(stack) \cup inflight \cup ToSet(unlock_bh_queue)
        \/ lk[d] \in Locks /\ d \in ToSet(queue[lk[d]])
    BY <2>1 DEF Placed
  <2> QED BY <1>2, <2>1, <2>2
<1> QED BY <1>1, <1>2

\* The running coroutine goes on and stays on the stack, or waits for a lock.
LEMMA StackLocking ==
    ASSUME IInv, StackInv, NEW c \in Coroutines, Running(c), pc[c] # "drain",
           NEW l \in Locks, NEW p \in Wanting \cup Holding, Goes(c, p, l),
           UNCHANGED <<unlock_bh_queue, looping, inflight>>,
           CoQueueWait(c, l) \/ UNCHANGED <<queue, stack>>
    PROVE  StackInv'
<1>0. TypeOK /\ OnePlace /\ Placed /\ Suspended /\ Loopers /\ OneLoop
  BY DEF IInv, StackInv
<1>1. /\ pc'[c] = p /\ lk'[c] = l
      /\ \A d \in Coroutines \ {c} : pc'[d] = pc[d] /\ lk'[d] = lk[d]
  BY <1>0, GoesFacts
<1>2. pc'[c] # "drain" /\ c \notin looping
  <2>1. pc'[c] # "drain"
    BY <1>1 DEF Wanting, Holding
  <2>2. c \notin looping
    BY <1>0, LockAssumption DEF Loopers, LockAssumption
  <2> QED BY <2>1, <2>2
<1>3. CASE CoQueueWait(c, l)
  <2>1. /\ ToSet(queue'[l]) = ToSet(queue[l]) \cup {c}
        /\ \A k \in Locks \ {l} : queue'[k] = queue[k]
        /\ ToSet(stack') = ToSet(stack) \ {c}
    BY <1>0, <1>3, WaitFacts
  <2>2. \A k \in Locks : ToSet(queue[k]) \subseteq ToSet(queue'[k])
    BY <2>1
  <2>3. Placed'
    BY <1>0, <1>1, <2>1, <2>2, PlacedMove
  <2>4. stack' = Front(stack)
    BY <1>3 DEF CoQueueWait
  <2>5. Suspended' /\ Loopers' /\ OneLoop'
    BY <1>0, <1>1, <1>2, <2>4, StackLeave
  <2> QED BY <2>3, <2>5 DEF StackInv
<1>4. CASE UNCHANGED <<queue, stack>>
  <2>1. c \in ToSet(stack')
    BY <1>0, <1>4, RunningFacts
  <2>2. Placed'
    BY <1>0, <1>1, <1>4, <2>1, PlacedMove
  <2>3. Suspended' /\ Loopers' /\ OneLoop'
    BY <1>0, <1>1, <1>2, <1>4, StackStays
  <2> QED BY <2>2, <2>3 DEF StackInv
<1> QED BY <1>3, <1>4

\* Every step keeps the shape of the stack.
LEMMA StackStep == IInv /\ StackInv /\ Next => StackInv'
<1> SUFFICES ASSUME IInv, StackInv, Next PROVE StackInv'
  OBVIOUS
<1>0. TypeOK /\ KindOK /\ OnePlace /\ Placed /\ Suspended /\ Loopers /\ OneLoop
  BY DEF IInv, StackInv
<1>a. ASSUME NEW c \in Coroutines, pc[c] # "drain" PROVE c \notin looping
  BY <1>0, <1>a, LockAssumption DEF Loopers, LockAssumption
<1>1. CASE BhRun
  <2>1. /\ AtPoll /\ looping' = looping \cup {Top}
        /\ UNCHANGED <<unlock_bh_queue, queue, stack, inflight, pc, lk>>
    BY <1>1 DEF BhRun, lockVars, coVars
  <2>2. Placed' /\ Suspended'
    BY <1>0, <2>1 DEF Placed, Suspended
  <2>3. Loopers'
    BY <1>0, <2>1, TopFacts DEF Loopers, AtPoll
  <2>4. Top' = Top /\ (~ DrainInBh => looping = {})
    BY <1>0, <2>1 DEF OneLoop, AtPoll, Top
  <2>5. OneLoop'
    BY <2>1, <2>4 DEF OneLoop
  <2> QED BY <2>2, <2>3, <2>5 DEF StackInv
<1>2. CASE BhNext
  <2>1. PICK h \in ToSet(unlock_bh_queue) :
            /\ ToSet(unlock_bh_queue') = ToSet(unlock_bh_queue) \ {h}
            /\ stack' = Append(stack, h) /\ ToSet(stack') = ToSet(stack) \cup {h}
    BY <1>0, <1>2, BhNextFacts
  <2>2. Top \in looping /\ UNCHANGED <<queue, looping, inflight, pc, lk>>
    BY <1>2 DEF BhNext, lockVars, coVars
  <2>3. h \in Coroutines /\ pc[h] # "drain" /\ h \notin ToSet(stack)
    <3>1. h \in Coroutines
      BY <1>0, Elements DEF TypeOK
    <3>2. pc[h] \in Wanting /\ h \notin ToSet(stack)
      BY <1>0 DEF OnePlace
    <3> QED BY <3>1, <3>2 DEF Wanting
  <2>4. Placed'
    BY <1>0, <2>1, <2>2, <2>3, PlacedMove
  <2>5. Suspended' /\ Loopers' /\ OneLoop'
    BY <1>0, <2>1, <2>2, <2>3, StackEnter
  <2> QED BY <2>4, <2>5 DEF StackInv
<1>3. CASE BhReturn
  <2>1. /\ Top \in looping /\ looping' = looping \ {Top}
        /\ UNCHANGED <<unlock_bh_queue, queue, stack, inflight, pc, lk>>
    BY <1>3 DEF BhReturn, bhVars, lockVars, coVars
  <2>2. Placed' /\ Suspended' /\ Loopers'
    BY <1>0, <2>1 DEF Placed, Suspended, Loopers
  <2>3. Top' = Top /\ Caller' = Caller
    BY <2>1 DEF Top, Caller
  <2>4. OneLoop'
    BY <1>0, <2>1, <2>3 DEF OneLoop
  <2> QED BY <2>2, <2>4 DEF StackInv
<1>4. ASSUME NEW c \in Coroutines, Start(c) PROVE StackInv'
  <2>1. /\ AtPoll /\ pc[c] = "none" /\ Goes(c, "ready", NoLock) /\ stack' = Append(stack, c)
        /\ UNCHANGED <<queue, unlock_bh_queue, looping, inflight>>
    BY <1>4 DEF Start, bhVars, lockVars
  <2>2. c \notin ToSet(stack)
    BY <1>0, <2>1 DEF OnePlace
  <2>3. ToSet(stack') = ToSet(stack) \cup {c}
    BY <1>0, <2>1, <2>2, EnterFacts
  <2>4. /\ pc'[c] = "ready"
        /\ \A d \in Coroutines \ {c} : pc'[d] = pc[d] /\ lk'[d] = lk[d]
    BY <1>0, <2>1, GoesFacts
  <2>5. Placed'
    BY <1>0, <2>1, <2>3, <2>4, PlacedMove
  <2>6. Suspended' /\ Loopers' /\ OneLoop'
    BY <1>0, <2>1, <2>2, <2>4, StackEnter
  <2> QED BY <2>5, <2>6 DEF StackInv
<1>5. ASSUME NEW c \in Coroutines, AioDone(c) PROVE StackInv'
  <2>1. /\ AtPoll /\ c \in inflight /\ inflight' = inflight \ {c} /\ stack' = Append(stack, c)
        /\ UNCHANGED <<queue, unlock_bh_queue, looping, pc, lk>>
    BY <1>5 DEF AioDone, bhVars, lockVars, coVars
  <2>2. c \notin ToSet(stack) /\ pc[c] # "drain"
    BY <1>0, <2>1 DEF OnePlace, Holding
  <2>3. ToSet(stack') = ToSet(stack) \cup {c}
    BY <1>0, <2>1, <2>2, EnterFacts
  <2>5. Placed'
    BY <1>0, <2>1, <2>3, PlacedMove
  <2>6. Suspended' /\ Loopers' /\ OneLoop'
    BY <1>0, <2>1, <2>2, StackEnter
  <2> QED BY <2>5, <2>6 DEF StackInv
<1>6. ASSUME NEW c \in Coroutines, AioYield(c) PROVE StackInv'
  <2>1. /\ Running(c) /\ pc[c] \in {"ready"} \cup Holding
        /\ inflight' = inflight \cup {c} /\ stack' = Front(stack)
        /\ UNCHANGED <<queue, unlock_bh_queue, looping, pc, lk>>
    BY <1>6 DEF AioYield, bhVars, lockVars, coVars
  <2>2. ToSet(stack') = ToSet(stack) \ {c} /\ pc[c] # "drain"
    BY <1>0, <2>1, RunningFacts DEF Holding
  <2>5. Placed'
    BY <1>0, <2>1, <2>2, PlacedMove
  <2>6. Suspended' /\ Loopers' /\ OneLoop'
    BY <1>0, <2>1, <2>2, StackLeave
  <2> QED BY <2>5, <2>6 DEF StackInv
<1>7. ASSUME NEW c \in Coroutines, Terminate(c) PROVE StackInv'
  <2>1. /\ Running(c) /\ pc[c] = "ready" /\ Goes(c, "none", NoLock) /\ stack' = Front(stack)
        /\ UNCHANGED <<queue, unlock_bh_queue, looping, inflight>>
    BY <1>7 DEF Terminate, bhVars, lockVars
  <2>2. ToSet(stack') = ToSet(stack) \ {c}
    BY <1>0, <2>1, RunningFacts
  <2>4. /\ pc'[c] = "none"
        /\ \A d \in Coroutines \ {c} : pc'[d] = pc[d] /\ lk'[d] = lk[d]
    BY <1>0, <2>1, GoesFacts
  <2>5. Placed'
    BY <1>0, <2>1, <2>2, <2>4, PlacedMove
  <2>6. Suspended' /\ Loopers' /\ OneLoop'
    BY <1>0, <2>1, <2>4, StackLeave
  <2> QED BY <2>5, <2>6 DEF StackInv
<1>8. ASSUME NEW c \in Coroutines, DrainAll(c) \/ DrainReturn(c) PROVE StackInv'
  <2>1. /\ Running(c) /\ c \notin looping
        /\ UNCHANGED <<queue, unlock_bh_queue, stack, looping, inflight>>
    BY <1>8, <1>a DEF DrainAll, DrainReturn, Drained, bhVars, lockVars, callVars
  <2>2. PICK q \in {"ready", "drain"} :
            Goes(c, q, NoLock) /\ (q = "drain" => c \in Drainers /\ (DrainInBh \/ looping = {}))
    BY <1>8 DEF DrainAll, DrainReturn
  <2>3. /\ pc'[c] = q
        /\ \A d \in Coroutines \ {c} : pc'[d] = pc[d] /\ lk'[d] = lk[d]
    BY <1>0, <2>2, GoesFacts
  <2>4. c \in ToSet(stack')
    BY <1>0, <2>1, RunningFacts
  <2>5. Placed'
    BY <1>0, <2>1, <2>3, <2>4, PlacedMove
  <2>6. Suspended' /\ Loopers' /\ OneLoop'
    BY <1>0, <2>1, <2>2, <2>3, StackStays
  <2> QED BY <2>5, <2>6 DEF StackInv
<1>9. ASSUME NEW c \in Coroutines, NEW m \in Mutexes, MutexLock(c, m) PROVE StackInv'
  <2>1. /\ m \in Locks /\ Running(c) /\ pc[c] # "drain"
        /\ UNCHANGED <<unlock_bh_queue, looping, inflight>>
        /\ \/ CoQueueWait(c, m) /\ Goes(c, "lock", m)
           \/ Goes(c, "locked", m) /\ UNCHANGED <<queue, stack>>
    BY <1>9 DEF Locks, MutexLock, Locking, bhVars
  <2> QED BY <2>1, StackLocking DEF Wanting, Holding
<1>10. ASSUME NEW c \in Coroutines, NEW w \in Rwlocks, RwlockRdlock(c, w) PROVE StackInv'
  <2>1. /\ w \in Locks /\ Running(c) /\ pc[c] # "drain"
        /\ UNCHANGED <<unlock_bh_queue, looping, inflight>>
        /\ \/ CoQueueWait(c, w) /\ Goes(c, "rdlock", w)
           \/ Goes(c, "rdlocked", w) /\ UNCHANGED <<queue, stack>>
    BY <1>10 DEF Locks, RwlockRdlock, Locking, bhVars
  <2> QED BY <2>1, StackLocking DEF Wanting, Holding
<1>11. ASSUME NEW c \in Coroutines, NEW w \in Rwlocks, RwlockWrlock(c, w) PROVE StackInv'
  <2>1. /\ w \in Locks /\ Running(c) /\ pc[c] # "drain"
        /\ UNCHANGED <<unlock_bh_queue, looping, inflight>>
        /\ \/ CoQueueWait(c, w) /\ Goes(c, "wrlock", w)
           \/ Goes(c, "wrlocked", w) /\ UNCHANGED <<queue, stack>>
    BY <1>11 DEF Locks, RwlockWrlock, Locking, bhVars
  <2> QED BY <2>1, StackLocking DEF Wanting, Holding
<1>12. ASSUME NEW c \in Coroutines, Unlock(c) PROVE StackInv'
  <2>1. /\ Running(c) /\ Goes(c, "ready", NoLock) /\ UNCHANGED <<stack, looping, inflight>>
        /\ pc[c] \in {"locked", "rdlocked", "wrlocked"}
        /\ \/ CoQueueNext(lk[c]) \/ CoQueueRestartAll(lk[c])
           \/ UNCHANGED <<queue, unlock_bh_queue>>
    BY <1>12 DEF Unlock, MutexUnlock, RwlockUnlockWriter, RwlockUnlockReader, bhVars, callVars
  <2>2. lk[c] \in Locks /\ c \notin looping
    BY <1>0, <1>a, <2>1, HeldLock
  <2>3. /\ pc'[c] = "ready"
        /\ \A d \in Coroutines \ {c} : pc'[d] = pc[d] /\ lk'[d] = lk[d]
    BY <1>0, <2>1, GoesFacts
  <2>4. /\ ToSet(unlock_bh_queue) \subseteq ToSet(unlock_bh_queue')
        /\ \A l \in Locks : \A d \in ToSet(queue[l]) :
                d \in ToSet(queue'[l]) \/ d \in ToSet(unlock_bh_queue')
    <3>1. CASE CoQueueNext(lk[c]) \/ CoQueueRestartAll(lk[c])
      <4>1. /\ \A k \in Locks \ {lk[c]} : queue'[k] = queue[k]
            /\ ToSet(unlock_bh_queue') = ToSet(unlock_bh_queue)
                    \cup (ToSet(queue[lk[c]]) \ ToSet(queue'[lk[c]]))
        BY <1>0, <2>2, <3>1, WakeFacts
      <4> QED BY <4>1
    <3>2. CASE UNCHANGED <<queue, unlock_bh_queue>>
      BY <3>2
    <3> QED BY <2>1, <3>1, <3>2
  <2>5. c \in ToSet(stack')
    BY <1>0, <2>1, RunningFacts
  <2>6. Placed'
    BY <1>0, <2>1, <2>3, <2>4, <2>5, PlacedMove
  <2>7. Suspended' /\ Loopers' /\ OneLoop'
    BY <1>0, <2>1, <2>2, <2>3, StackStays
  <2> QED BY <2>6, <2>7 DEF StackInv
<1> QED BY <1>1, <1>2, <1>3, <1>4, <1>5, <1>6, <1>7, <1>8, <1>9, <1>10, <1>11, <1>12
        DEF Next, Coroutine

\* IInv and the shape of the stack hold in every reachable state.
THEOREM StackInvariance == Spec => [](IInv /\ StackInv)
<1>1. Init => StackInv
  <2> SUFFICES ASSUME Init PROVE StackInv
    OBVIOUS
  <2>1. Placed /\ Loopers /\ OneLoop
    BY DEF Init, Placed, Loopers, OneLoop
  <2>2. Suspended
    BY EmptySet DEF Init, Suspended
  <2> QED BY <2>1, <2>2 DEF StackInv
<1>2. IInv /\ StackInv /\ [Next]_vars => StackInv'
  <2>1. StackInv /\ UNCHANGED vars => StackInv'
    BY DEF vars, bhVars, lockVars, callVars, coVars, StackInv, Placed, Suspended, Loopers,
           OneLoop, Top, Caller
  <2> QED BY <2>1, StackStep
<1> QED BY <1>1, <1>2, Invariance, PTL DEF Spec

\* When the poller of a draining coroutine has nothing left to wait for, only
\* draining coroutines exist: nobody is in a queue, since a chain of waiters
\* ends in a holder that would have to be doing I/O.
LEMMA DrainedAlone ==
    ASSUME IInv, StackInv, ~ DrainInBh, NEW c \in Coroutines, Drained(c)
    PROVE  \A d \in Coroutines : pc[d] # "none" => pc[d] = "drain"
<1>0. /\ TypeOK /\ OnePlace /\ NoLostWakeup /\ Placed /\ Suspended /\ Loopers /\ OneLoop
      /\ Running(c) /\ pc[c] = "drain" /\ c \notin looping /\ ~ scheduled /\ inflight = {}
  BY DEF IInv, StackInv, Drained
<1>1. stack # <<>> /\ Top = c /\ looping = {}
  BY <1>0, TopFacts DEF OneLoop
<1>2. unlock_bh_queue = <<>> /\ ToSet(unlock_bh_queue) = {}
  BY <1>0, <1>1, EmptySet DEF NoLostWakeup
<1>3. \A d \in ToSet(stack) : pc[d] = "drain"
  <2> SUFFICES ASSUME NEW d \in ToSet(stack) PROVE pc[d] = "drain"
    OBVIOUS
  <2>1. PICK i \in 1 .. Len(stack) : stack[i] = d
    BY <1>0, Elements DEF TypeOK
  <2>2. Len(stack) \in Nat /\ Len(stack) >= 1 /\ stack[Len(stack)] = c
    BY <1>0, <1>1, TopFacts
  <2>3. CASE i = Len(stack)
    BY <1>0, <2>1, <2>2, <2>3
  <2>4. CASE i # Len(stack)
    <3>1. i \in 1 .. Len(stack) - 1
      BY <2>2, <2>4
    <3> QED BY <1>0, <2>1, <3>1 DEF Suspended
  <2> QED BY <2>3, <2>4
<1>4. \A d \in Coroutines : pc[d] \notin Holding
  <2> SUFFICES ASSUME NEW d \in Coroutines, pc[d] \in Holding PROVE FALSE
    OBVIOUS
  <2>1. pc[d] # "none" /\ pc[d] # "drain" /\ pc[d] \notin Wanting
    BY DEF Holding, Wanting
  <2>2. d \in ToSet(stack) \/ (lk[d] \in Locks /\ d \in ToSet(queue[lk[d]]))
    BY <1>0, <1>2, <2>1 DEF Placed
  <2>3. ~ (lk[d] \in Locks /\ d \in ToSet(queue[lk[d]]))
    BY <1>0, <2>1 DEF OnePlace
  <2> QED BY <1>3, <2>1, <2>2, <2>3
<1>5. \A l \in Locks : queue[l] = <<>> /\ ToSet(queue[l]) = {}
  <2> SUFFICES ASSUME NEW l \in Locks PROVE queue[l] = <<>>
    BY EmptySet
  <2>1. ~ \E d \in ToSet(unlock_bh_queue) \cup ToSet(stack) : pc[d] \in Wanting /\ lk[d] = l
    BY <1>2, <1>3 DEF Wanting
  <2> QED BY <1>0, <1>4, <2>1 DEF NoLostWakeup
<1> SUFFICES ASSUME NEW d \in Coroutines, pc[d] # "none" PROVE pc[d] = "drain"
  OBVIOUS
<1>6. d \in ToSet(stack)
  BY <1>0, <1>2, <1>5 DEF Placed
<1> QED BY <1>3, <1>6

\* "If requests are still pending there is a bug somewhere": for every number
\* of coroutines, jobs and locks, when no coroutine drains inside unlock_bh,
\* bdrv_drain_all returns only when no request is left.  Without the hypothesis
\* it does not hold: the run of MCCoroutineLockDrain.cfg shows how.
THEOREM DrainLeavesNothing == Spec => [](~ DrainInBh => DrainComplete)
<1>1. IInv /\ StackInv => (~ DrainInBh => DrainComplete)
  <2> SUFFICES ASSUME IInv, StackInv, ~ DrainInBh, NEW c \in Coroutines, Drained(c),
                      NEW d \in Coroutines \ Drainers
               PROVE  pc[d] = "none"
    BY DEF DrainComplete
  <2>1. pc[d] # "none" => pc[d] = "drain"
    BY DrainedAlone
  <2> QED BY <2>1 DEF StackInv, Suspended
<1> QED BY <1>1, StackInvariance, PTL
=============================================================================
