------------------------------- MODULE Mirror -------------------------------
(***************************************************************************)
(* The mirror block job (block/mirror.c, blockjob.c): it copies the dirty  *)
(* chunks of a disk to a target while the guest goes on writing, and ends  *)
(* by a command to complete or to cancel, or by an error.                  *)
(*                                                                         *)
(* Everything runs in one thread: between two yields of the job's          *)
(* coroutine nothing else happens.  A value of "job.pc" in Yields names    *)
(* the place where the coroutine is suspended.  The end of a copy          *)
(* operation (mirror_iteration_done) enters the coroutine wherever it is.  *)
(*                                                                         *)
(* Disks hold one version number per chunk.  Version 0 is the content of   *)
(* the backing file, which the target has too but does not open before     *)
(* mirror_complete: until then a write to a part of a target cluster that  *)
(* is not allocated fills the rest with zeros, which are Lost.             *)
(***************************************************************************)
EXTENDS Integers, FiniteSets, FiniteSetsExt, Functions

CONSTANTS
    N,            \* number of chunks (the granularity of the dirty bitmap)
    ClusterSize,  \* chunks per cluster of the target
    WordSize,     \* chunks per word of the dirty bitmap
    MaxInFlight,  \* MAX_IN_FLIGHT
    BufChunks,    \* chunks that s->buf has room for
    Setups,       \* [alloc, cow, onSource, onTarget]: what the job starts from
    PartialTail,  \* the disk ends in the middle of the last chunk
    MaxWrites, MaxErrors

Chunks == 0 .. N - 1
Cluster(c) == c \div ClusterSize
Lost == -1
Policies == {"report", "ignore", "stop"}

ASSUME MirrorAssumption ==
    /\ {N, ClusterSize, WordSize, MaxInFlight, BufChunks} \subseteq Nat \ {0}
    /\ BufChunks >= ClusterSize
    /\ N % ClusterSize = 0
    /\ PartialTail \in BOOLEAN
    /\ \A x \in Setups :
         /\ x.alloc \subseteq Chunks /\ x.cow \in BOOLEAN
         /\ {x.onSource, x.onTarget} \subseteq Policies
         /\ ~(PartialTail /\ x.cow)
    /\ MaxWrites \in Nat /\ MaxErrors \in Nat

VARIABLES
    job,       \* the job: see Init
    dirty,     \* the dirty bitmap of the source
    iter,      \* s->hbi: what is left of the current word, and the words after it
    ops,       \* copy operations: [chunks, stage, val]
    src, tgt,  \* the versions on the two disks
    allocated, \* clusters of the target that were written
    guest,     \* guest[c]: the guest's write of chunk c, "none", "sent" or "landed"
    writes, errors

vars == <<job, dirty, iter, ops, src, tgt, allocated, guest, writes, errors>>
source == <<src, guest, writes>>
target == <<tgt, allocated>>

-----------------------------------------------------------------------------
(* Dirty bitmap (util/hbitmap.c): the iterator holds a copy of the word it *)
(* is in and knows which of the later words had a bit when it started.     *)

Word(c) == c \div WordSize
InWord(bitmap, w) == {c \in bitmap : Word(c) = w}

IterInit(bitmap) ==
    [bits |-> InWord(bitmap, 0), words |-> {Word(c) : c \in bitmap} \ {0}]

\* hbitmap_iter_next: the next chunk, or -1, and the iterator after it.
IterNext(i) ==
    LET w == IF i.bits # {} THEN -1 ELSE Min(i.words)
        bits == IF w = -1 THEN i.bits ELSE InWord(dirty, w) IN
    IF i.bits = {} /\ i.words = {} THEN <<-1, i>>
    ELSE <<Min(bits), [bits |-> bits \ {Min(bits)}, words |-> i.words \ {w}]>>

-----------------------------------------------------------------------------
(* The job.                                                                *)

Copying == UNION {op.chunks : op \in ops}
BufFree == BufChunks - Cardinality(Copying)
Asleep(j) == j.pc \in {"sleep_unsynced", "sleep_synced"}
Ended == job.pc = "done"

Init ==
    /\ \E x \in Setups :
         /\ src = [c \in Chunks |-> IF c \in x.alloc THEN 1 ELSE 0]
         /\ job = [pc |-> "scan", at |-> 0, fresh |-> TRUE, timer |-> FALSE,
                   synced |-> FALSE, shouldComplete |-> FALSE, cancelled |-> FALSE,
                   paused |-> FALSE, ioOk |-> TRUE, failed |-> FALSE, ret |-> 0,
                   inFlight |-> {}, cow |-> IF x.cow THEN {} ELSE Chunks,
                   backing |-> ~x.cow, onSource |-> x.onSource, onTarget |-> x.onTarget]
    /\ tgt = [c \in Chunks |-> 0] /\ allocated = {}
    /\ dirty = {} /\ iter = IterInit({}) /\ ops = {}
    /\ guest = [c \in Chunks |-> "none"]
    /\ writes = 0 /\ errors = 0

\* mirror_run, first part: the allocated chunks become dirty.
Scan ==
    /\ job.pc = "scan"
    /\ dirty' = IF src[job.at] # 0 THEN dirty \cup {job.at} ELSE dirty
    /\ IF job.at < N - 1
       THEN job' = [job EXCEPT !.at = @ + 1] /\ iter' = iter
       ELSE job' = [job EXCEPT !.pc = "loop"] /\ iter' = IterInit(dirty')
    /\ UNCHANGED <<ops, source, target, errors>>

ScanFails ==
    /\ job.pc = "scan" /\ errors < MaxErrors
    /\ job' = [job EXCEPT !.pc = "exit", !.ret = -1]
    /\ errors' = errors + 1
    /\ UNCHANGED <<dirty, iter, ops, source, target>>

\* block_job_sleep_ns returns at once when the job is cancelled and sets no
\* timer when it is paused; a job that is not in sync then ends if cancelled.
Sleep(j, pc) ==
    IF ~j.cancelled THEN [j EXCEPT !.pc = pc, !.timer = ~j.paused]
    ELSE [j EXCEPT !.pc = IF pc = "sleep_unsynced" THEN "exit" ELSE "loop"]

Woken(j) ==
    [j EXCEPT !.pc = IF j.pc = "sleep_unsynced" /\ j.cancelled THEN "exit" ELSE "loop",
              !.timer = FALSE]

\* The end of a pass of mirror_run's loop.
EndPass(j, clean, shouldComplete) ==
    LET j1 == [j EXCEPT !.ret = 0, !.fresh = TRUE] IN
    IF ~j.synced THEN Sleep(j1, "sleep_unsynced")
    ELSE IF ~shouldComplete THEN Sleep(j1, "sleep_synced")
    ELSE IF clean THEN [j1 EXCEPT !.pc = "exit", !.cancelled = FALSE]
    ELSE [j1 EXCEPT !.pc = "loop"]

\* A pass of the loop.  The slice has not expired in the first pass after a
\* sleep; with time left and no I/O error the job waits for an operation,
\* starts one (NextChunk), or goes on like this when there is nothing to do.
MustYield ==
    \/ Cardinality(ops) = MaxInFlight
    \/ BufFree = 0
    \/ (dirty = {} /\ ops # {})

Pass(expired) ==
    /\ job.pc = "loop" /\ (job.fresh => ~expired)
    /\ LET copying == ~expired /\ job.ioOk IN
       /\ job.failed \/ ~copying \/ MustYield \/ dirty = {}
       /\ job' = IF job.failed THEN [job EXCEPT !.pc = "exit", !.ret = -1]
                 ELSE IF copying /\ MustYield THEN [job EXCEPT !.pc = "yield", !.fresh = FALSE]
                 ELSE IF ops = {} /\ dirty = {} THEN [job EXCEPT !.pc = "flush"]
                 ELSE EndPass(job, dirty = {}, FALSE)
    /\ UNCHANGED <<dirty, iter, ops, source, target, errors>>

\* mirror_error_action: a failure that is reported ends the job.
ErrorAction(j, policy) ==
    [j EXCEPT !.synced = FALSE,
              !.paused = @ \/ policy = "stop",
              !.ioOk = @ /\ policy # "stop"]

FlushDone ==
    /\ job.pc = "flush"
    /\ LET j == [job EXCEPT !.synced = TRUE]
           shouldComplete == job.shouldComplete \/ job.cancelled IN
       job' = IF shouldComplete /\ dirty = {} THEN [j EXCEPT !.pc = "drain"]
              ELSE EndPass(j, dirty = {}, shouldComplete)
    /\ UNCHANGED <<dirty, iter, ops, source, target, errors>>

FlushFails ==
    /\ job.pc = "flush" /\ errors < MaxErrors
    /\ LET j == ErrorAction(job, job.onTarget) IN
       job' = IF job.onTarget = "report" THEN [j EXCEPT !.pc = "exit", !.ret = -1]
              ELSE EndPass(j, TRUE, FALSE)
    /\ errors' = errors + 1
    /\ UNCHANGED <<dirty, iter, ops, source, target>>

\* Mutant of AfterDrain: the count from before bdrv_drain_all is used.
AfterDrainStale == EndPass(job, TRUE, TRUE)

\* bdrv_drain_all returns when no request of the guest is left; what they
\* wrote is dirty by then.
AfterDrain == EndPass(job, dirty = {}, TRUE)

Drained ==
    /\ job.pc = "drain" /\ \A c \in Chunks : guest[c] = "none"
    /\ job' = AfterDrain
    /\ UNCHANGED <<dirty, iter, ops, source, target, errors>>

-----------------------------------------------------------------------------
(* mirror_iteration.                                                       *)

\* Mutant of NextDirty: at the end of the bitmap the iterator stays there.
NextDirtyOnce == IterNext(iter)

\* The next dirty chunk; at the end of the bitmap the iterator starts again.
NextDirty ==
    LET next == IterNext(iter) IN
    IF next[1] = -1 THEN IterNext(IterInit(dirty)) ELSE next

NextChunk ==
    /\ job.pc = "loop" /\ ~job.failed /\ job.ioOk /\ ~MustYield /\ dirty # {}
    /\ iter' = NextDirty[2]
    /\ job' = [job EXCEPT !.pc = "chunk", !.at = NextDirty[1], !.fresh = FALSE]
    /\ UNCHANGED <<dirty, ops, source, target, errors>>

\* The chunks that a copy of chunk c takes: all of the target's cluster the
\* first time (bdrv_round_to_clusters).
First(c) == IF c \in job.cow THEN c ELSE Cluster(c) * ClusterSize
After(c) == IF c \in job.cow THEN c + 1 ELSE (Cluster(c) + 1) * ClusterSize

\* The operation on chunk c goes on to chunk n.
MayAdd(c, n) == n \in dirty \ job.inFlight /\ After(n) - First(c) <= BufFree

\* The end of the operation on chunk c.
End(c) ==
    LET end[n \in c .. N] ==
          IF n = c \/ (n < N /\ MayAdd(c, n)) THEN end[After(n)] ELSE n IN
    end[c]

\* The iterator moves once for each further dirty chunk it is not yet past.
Advanced(c, end) ==
    LET adv[n \in c .. end - 1] ==
          IF n = c THEN <<c, iter>>
          ELSE IF n > adv[n - 1][1] /\ n \in dirty THEN IterNext(adv[n - 1][2])
          ELSE adv[n - 1] IN
    adv[end - 1][2]

\* Mutant of ChunkReady: an earlier operation on the chunk is not waited for.
ChunkReadyBusy ==
    /\ job.pc = "chunk"
    /\ After(job.at) - First(job.at) <= BufFree

\* The job waits for its chunk to be out of flight and for buffers, then
\* starts the operation with a read.
ChunkReady ==
    /\ job.pc = "chunk" /\ job.at \notin job.inFlight
    /\ After(job.at) - First(job.at) <= BufFree

StartOp ==
    /\ ChunkReady
    /\ LET chunks == First(job.at) .. End(job.at) - 1 IN
       /\ ops' = ops \cup {[chunks |-> chunks, stage |-> "read", val |-> <<>>]}
       /\ dirty' = dirty \ chunks
       /\ iter' = Advanced(job.at, End(job.at))
       /\ job' = [job EXCEPT !.pc = "loop", !.inFlight = @ \cup chunks]
    /\ UNCHANGED <<source, target, errors>>

\* The coroutine runs: nothing else does.
Running == job.pc = "loop" \/ ChunkReady \/ (job.pc = "exit" /\ ops = {})

\* mirror_iteration_done: the bits of the whole chunks are cleared and the
\* coroutine is entered.
WholeChunks(op) == IF PartialTail THEN op.chunks \ {N - 1} ELSE op.chunks

IterationDone(j, op, ok) ==
    LET j1 == [j EXCEPT !.inFlight = @ \ WholeChunks(op),
                        !.cow = IF ok THEN @ \cup WholeChunks(op) ELSE @] IN
    IF j.pc = "yield" THEN [j1 EXCEPT !.pc = "loop"]
    ELSE IF Asleep(j) THEN Woken(j1)
    ELSE j1

Failed(j, op, policy) ==
    IterationDone([ErrorAction(j, policy) EXCEPT !.failed = @ \/ policy = "report"],
                  op, FALSE)

\* mirror_read_complete.
ReadDone(op) ==
    /\ ~Running /\ op.stage = "read"
    /\ ops' = (ops \ {op}) \cup
         {[op EXCEPT !.stage = "write", !.val = [c \in op.chunks |-> src[c]]]}
    /\ UNCHANGED <<job, dirty, iter, source, target, errors>>

ReadFails(op) ==
    /\ ~Running /\ op.stage = "read" /\ errors < MaxErrors
    /\ ops' = ops \ {op}
    /\ dirty' = dirty \cup op.chunks
    /\ job' = Failed(job, op, job.onSource)
    /\ errors' = errors + 1
    /\ UNCHANGED <<iter, source, target>>

\* The target's write: without its backing file, the rest of a cluster that
\* is new becomes zeros.
TargetWrite(op) ==
    LET new == {Cluster(c) : c \in op.chunks} \ allocated IN
    /\ tgt' = [c \in Chunks |->
                 IF c \in op.chunks THEN op.val[c]
                 ELSE IF Cluster(c) \in new /\ ~job.backing THEN Lost ELSE tgt[c]]
    /\ allocated' = allocated \cup new

\* mirror_write_complete.
WriteDone(op) ==
    /\ ~Running /\ op.stage = "write"
    /\ TargetWrite(op)
    /\ ops' = ops \ {op}
    /\ job' = IterationDone(job, op, TRUE)
    /\ UNCHANGED <<dirty, iter, source, errors>>

WriteFails(op) ==
    /\ ~Running /\ op.stage = "write" /\ errors < MaxErrors
    /\ TargetWrite(op) \/ UNCHANGED target
    /\ ops' = ops \ {op}
    /\ dirty' = dirty \cup op.chunks
    /\ job' = Failed(job, op, job.onTarget)
    /\ errors' = errors + 1
    /\ UNCHANGED <<iter, source>>

\* immediate_exit: once nothing is in flight (mirror_drain) the job ends, and
\* the target takes the place of the source after mirror_complete.
Exit ==
    /\ job.pc = "exit" /\ ops = {}
    /\ job' = [job EXCEPT !.pc = "done"]
    /\ UNCHANGED <<dirty, iter, ops, source, target, errors>>

Swapped == Ended /\ job.shouldComplete /\ job.ret = 0

-----------------------------------------------------------------------------
(* Commands, and the timer of a sleeping job.  The monitor does not run    *)
(* while the job polls in bdrv_drain_all.                                  *)

Monitor == ~Running /\ ~Ended /\ job.pc # "drain"

\* Mutant of Resumed: the job is not entered.
ResumedLater(j) == [j EXCEPT !.paused = FALSE, !.ioOk = TRUE]

\* block_job_resume.
Resumed(j) ==
    LET j1 == [j EXCEPT !.paused = FALSE, !.ioOk = TRUE] IN
    IF Asleep(j1) THEN Woken(j1) ELSE j1

Command ==
    /\ Monitor
    /\ UNCHANGED <<dirty, iter, ops, source, target, errors>>

Pause == Command /\ ~job.paused /\ job' = [job EXCEPT !.paused = TRUE]
Resume == Command /\ (job.paused \/ ~job.ioOk) /\ job' = Resumed(job)
Cancel == Command /\ ~job.cancelled /\ job' = Resumed([job EXCEPT !.cancelled = TRUE])

\* block_job_complete and mirror_complete, which opens the backing file even
\* when it then finds that the job is not ready.
Complete ==
    /\ Command /\ ~job.paused /\ ~job.cancelled
    /\ LET j == [job EXCEPT !.backing = TRUE] IN
       job' = IF job.synced THEN Resumed([j EXCEPT !.shouldComplete = TRUE]) ELSE j

Timer ==
    /\ Asleep(job) /\ job.timer
    /\ job' = Woken(job)
    /\ UNCHANGED <<dirty, iter, ops, source, target, errors>>

-----------------------------------------------------------------------------
(* The guest: a write reaches the disk, then sets the dirty bit when it    *)
(* completes (bdrv_co_do_writev), also when it fails.                      *)

Submit(c) ==
    /\ ~Running /\ ~Ended
    /\ guest[c] = "none" /\ writes < MaxWrites
    /\ guest' = [guest EXCEPT ![c] = "sent"] /\ writes' = writes + 1
    /\ UNCHANGED <<job, dirty, iter, ops, src, target, errors>>

Land(c) ==
    /\ ~Running /\ guest[c] = "sent"
    /\ guest' = [guest EXCEPT ![c] = "landed"]
    /\ src' = [src EXCEPT ![c] = 1 + writes]
    /\ UNCHANGED <<job, dirty, iter, ops, writes, target, errors>>

GuestDone(c) ==
    /\ ~Running /\ guest[c] # "none"
    /\ guest' = [guest EXCEPT ![c] = "none"]
    /\ dirty' = dirty \cup {c}
    /\ UNCHANGED <<job, iter, ops, src, writes, target, errors>>

-----------------------------------------------------------------------------

JobStep ==
    \/ Scan \/ ScanFails \/ NextChunk \/ StartOp
    \/ \E expired \in BOOLEAN : Pass(expired)
    \/ FlushDone \/ FlushFails \/ Drained \/ Exit \/ Timer

OpStep(c) ==
    \E op \in ops : c \in op.chunks /\
      (ReadDone(op) \/ ReadFails(op) \/ WriteDone(op) \/ WriteFails(op))

Next ==
    \/ JobStep
    \/ \E c \in Chunks : OpStep(c) \/ Submit(c) \/ Land(c) \/ GuestDone(c)
    \/ Pause \/ Resume \/ Cancel \/ Complete

Spec == Init /\ [][Next]_vars

\* Every request is completed and a timer that is set fires.
FairSpec ==
    /\ Spec /\ WF_vars(JobStep)
    /\ \A c \in Chunks : WF_vars(OpStep(c)) /\ WF_vars(GuestDone(c))

-----------------------------------------------------------------------------
(* Properties.                                                             *)

\* The state has its type: in particular the job never works on a chunk that
\* is not on the disk.
TypeOK ==
    /\ job.pc \in {"scan", "loop", "chunk", "yield", "flush", "drain",
                   "sleep_unsynced", "sleep_synced", "exit", "done"}
    /\ job.at \in Chunks /\ job.ret \in {0, -1}
    /\ job.inFlight \subseteq Chunks /\ job.cow \subseteq Chunks
    /\ dirty \subseteq Chunks /\ iter.bits \subseteq Chunks
    /\ Cardinality(ops) <= MaxInFlight /\ BufFree >= 0
    /\ \A op \in ops : op.chunks # {} /\ op.stage \in {"read", "write"}
    /\ \A c \in Chunks : src[c] \in 0 .. 1 + MaxWrites /\ tgt[c] \in Lost .. 1 + MaxWrites
    /\ writes \in 0 .. MaxWrites /\ errors \in 0 .. MaxErrors

\* A chunk is marked in flight exactly as long as an operation copies it, and
\* never two operations copy the same chunk: the wait at the start of
\* mirror_iteration ("Wait for I/O to this cluster") ends, and no old copy
\* overtakes a newer one.
InFlightExact ==
    /\ job.inFlight = Copying
    /\ \A a, b \in ops : a = b \/ a.chunks \cap b.chunks = {}

\* Besides, the assertions of mirror.c and hbitmap.c hold: the iterator is
\* never ahead of bits that were reset, so what it returns is dirty, and only
\* a failed or early cancelled job leaves the loop with operations in flight;
\* none is left when the buffers are freed.
OperationsSound ==
    /\ InFlightExact
    /\ iter.bits \subseteq dirty
    /\ \A w \in iter.words : InWord(dirty, w) # {}
    /\ job.pc = "chunk" => job.at \in dirty
    /\ job.pc = "exit" /\ ops # {} => job.ret < 0 \/ (~job.synced /\ job.cancelled)
    /\ Ended => ops = {}

IsCopy == tgt = src /\ \A c \in Chunks : guest[c] = "none"

\* A job that ends without an error and is not reported as cancelled leaves a
\* target equal to the source, with no write of the guest pending, although
\* the guest wrote, operations failed and were repeated, and clusters of the
\* target were filled without its backing file.
CompletedIsCopy == Ended /\ job.ret = 0 /\ ~job.cancelled => IsCopy

\* The target takes the place of the source only as a copy of it.
SwapIsCopy == Swapped => tgt = src

\* A cancelled job ends.
CancelFinishes == job.cancelled ~> Ended
=============================================================================
