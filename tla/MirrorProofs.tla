---------------------------- MODULE MirrorProofs ----------------------------
(***************************************************************************)
(* Theorems about Mirror, for disks, clusters, bitmap words and buffers of *)
(* any size and any number of guest writes and errors.                     *)
(***************************************************************************)
EXTENDS Mirror, NatLemmas, FiniteSetTheorems

-----------------------------------------------------------------------------
(* The inductive invariant.                                                *)

Pcs == {"scan", "loop", "chunk", "yield", "flush", "drain", "sleep_unsynced",
        "sleep_synced", "exit", "done"}

\* The fields of MirrorBlockJob that matter to where the job is.
Fields == {"pc", "at", "fresh", "timer", "synced", "shouldComplete", "cancelled", "paused",
           "ioOk", "failed", "ret", "inFlight", "cow", "backing", "onSource", "onTarget"}

JobOK(j) ==
    /\ DOMAIN j = Fields
    /\ j.pc \in Pcs /\ j.at \in Chunks /\ j.ret \in {0, -1}
    /\ j.inFlight \subseteq Chunks /\ j.cow \subseteq Chunks

OpOK(op) ==
    /\ DOMAIN op = {"chunks", "stage", "val"}
    /\ op.chunks \subseteq Chunks /\ op.chunks # {} /\ op.stage \in {"read", "write"}

\* The types, and the limits on operations and buffers.
Shape ==
    /\ JobOK(job) /\ dirty \subseteq Chunks
    /\ IsFiniteSet(ops) /\ \A op \in ops : OpOK(op)
    /\ src \in [Chunks -> 0 .. 1 + MaxWrites] /\ tgt \in [Chunks -> Lost .. 1 + MaxWrites]
    /\ guest \in [Chunks -> {"none", "sent", "landed"}]
    /\ writes \in 0 .. MaxWrites /\ errors \in 0 .. MaxErrors

Limits ==
    /\ Cardinality(ops) <= MaxInFlight /\ BufFree >= 0
    /\ job.pc = "chunk" => Cardinality(ops) < MaxInFlight

\* The iterator: what is left of its word is dirty, and comes before the words
\* it has yet to look at, which have dirty chunks.
IterOK(i) ==
    /\ i = [bits |-> i.bits, words |-> i.words]
    /\ i.bits \subseteq dirty /\ i.words \subseteq Nat
    /\ \A w \in i.words : InWord(dirty, w) # {}
    /\ \A c \in i.bits, w \in i.words : Word(c) < w

\* While the job waits for its chunk the iterator is past it.
IterPast ==
    job.pc = "chunk" =>
        /\ job.at \in dirty
        /\ \A c \in iter.bits : c > job.at
        /\ \A w \in iter.words : w > Word(job.at)

\* A set of chunks that has all of a cluster or only chunks that need no copy
\* of the whole cluster.
Rounded(chunks) ==
    \A c \in chunks \ job.cow : \A d \in Chunks : Cluster(d) = Cluster(c) => d \in chunks

\* cow_bitmap has whole clusters, which exist on a target without its backing file.
CowOK ==
    /\ \A c \in job.cow, d \in Chunks : Cluster(d) = Cluster(c) => d \in job.cow
    /\ PartialTail => job.cow = Chunks
    /\ ~ job.backing => \A c \in job.cow : Cluster(c) \in allocated

OpsOK ==
    /\ Copying \subseteq job.inFlight
    /\ ~ PartialTail => job.inFlight = Copying
    /\ \A a, b \in ops : a = b \/ a.chunks \cap b.chunks = {}
    /\ \A op \in ops : Rounded(op.chunks)

\* Where the coroutine may be with operations in flight, and how it got to the end.
Control ==
    /\ job.pc \in {"scan", "flush", "drain", "done"} => ops = {}
    /\ job.pc = "scan" => \A c \in Chunks : tgt[c] = 0
    /\ job.pc = "sleep_unsynced" => ~ job.synced
    /\ job.pc = "exit" /\ ops # {} => job.ret < 0 \/ (~ job.synced /\ job.cancelled)
    /\ job.pc \in {"exit", "done"} /\ job.ret = 0 /\ ~ job.cancelled =>
         dirty = {} /\ ops = {} /\ \A c \in Chunks : guest[c] = "none"

\* A chunk of the target that differs from the source is dirty, will be when
\* the guest's write completes, or is being copied; and so is a chunk read
\* from the source before the guest wrote it.
\* Chunks that the first part of mirror_run has not looked at are exempt, and
\* so is a job that has failed.
Tracked(c) == c \in dirty \/ guest[c] = "landed"

Unscanned(c) ==
    \/ job.pc = "scan" /\ c >= job.at
    \/ job.pc \in {"exit", "done"} /\ job.ret < 0

Data ==
    /\ \A c \in Chunks : tgt[c] # src[c] => Tracked(c) \/ c \in Copying \/ Unscanned(c)
    /\ \A op \in ops : op.stage = "write" =>
         /\ op.val \in [op.chunks -> 0 .. 1 + MaxWrites]
         /\ \A c \in op.chunks : op.val[c] # src[c] => Tracked(c)

\* The inductive invariant.
IInv ==
    /\ Shape /\ Limits /\ IterOK(iter) /\ IterPast /\ CowOK /\ OpsOK /\ Control /\ Data

-----------------------------------------------------------------------------
(* Chunks, clusters and words.                                             *)

\* What the proofs use of MirrorAssumption.
LEMMA Constants ==
    /\ N \in Nat \ {0} /\ ClusterSize \in Nat \ {0} /\ WordSize \in Nat \ {0}
    /\ MaxInFlight \in Nat \ {0} /\ BufChunks \in Nat \ {0}
    /\ MaxWrites \in Nat /\ MaxErrors \in Nat /\ N % ClusterSize = 0
    /\ Chunks \subseteq Nat
  BY MirrorAssumption DEF Chunks

\* Sets of chunks are finite and can be counted.
LEMMA ChunksFinite ==
    /\ IsFiniteSet(Chunks)
    /\ \A S \in SUBSET Chunks : IsFiniteSet(S) /\ Cardinality(S) \in Nat
<1>1. IsFiniteSet(Chunks)
  BY Constants, FS_Interval DEF Chunks
<1> QED BY <1>1, FS_Subset, FS_CardinalityType

\* The words of the bitmap are in the order of their chunks.
LEMMA WordFacts ==
    /\ \A c \in Chunks : Word(c) \in Nat
    /\ \A c, d \in Chunks : Word(c) < Word(d) => c < d
<1>1. ASSUME NEW c \in Chunks PROVE Word(c) \in Nat
  BY Constants, DivNat DEF Word
<1>2. ASSUME NEW c \in Chunks, NEW d \in Chunks, Word(c) < Word(d) PROVE c < d
  <2>1. c \in Nat /\ d \in Nat
    BY Constants
  <2>2. c \div WordSize < d \div WordSize
    BY <1>2 DEF Word
  <2> QED BY <2>1, <2>2, Constants, DivMonotone
<1> QED BY <1>1, <1>2

\* The cluster of a chunk is on the disk, whose size is a multiple of it.
LEMMA ClusterFacts ==
    ASSUME NEW c \in Chunks
    PROVE  LET first == Cluster(c) * ClusterSize
               after == (Cluster(c) + 1) * ClusterSize IN
           /\ Cluster(c) \in Nat /\ first \in Nat /\ after \in Nat
           /\ first <= c /\ c < after /\ after <= N /\ after - first = ClusterSize
           /\ \A d \in Chunks : Cluster(d) = Cluster(c) <=> d \in first .. after - 1
<1> DEFINE first == Cluster(c) * ClusterSize
           after == (Cluster(c) + 1) * ClusterSize
<1>1. c \in Nat /\ ClusterSize \in Nat \ {0} /\ c < N /\ N \in Nat
  BY Constants DEF Chunks
<1>2. Cluster(c) \in Nat
  BY <1>1, DivNat DEF Cluster
<1>3. first \in Nat /\ after \in Nat /\ after = first + ClusterSize
  BY <1>1, <1>2
<1>4. first <= c /\ c < after
  BY <1>1, DivBounds DEF Cluster
<1>5. N = (N \div ClusterSize) * ClusterSize
  BY Constants, DivMod
<1>6. N \div ClusterSize \in Nat
  BY <1>1, DivNat
<1>7. after <= N
  <2> SUFFICES ASSUME ~ (Cluster(c) + 1 <= N \div ClusterSize) PROVE FALSE
    BY <1>1, <1>2, <1>5, <1>6, TimesMonotone
  <2>1. N \div ClusterSize <= Cluster(c)
    BY <1>2, <1>6
  <2>2. N <= first
    BY <1>1, <1>2, <1>5, <1>6, <2>1, TimesMonotone
  <2> QED BY <1>1, <1>3, <1>4, <2>2
<1>8. ASSUME NEW d \in Chunks PROVE Cluster(d) = Cluster(c) <=> d \in first .. after - 1
  <2>1. d \in Nat
    BY Constants
  <2>2. ASSUME Cluster(d) = Cluster(c) PROVE d \in first .. after - 1
    <3>1. Cluster(d) * ClusterSize <= d /\ d < (Cluster(d) + 1) * ClusterSize
      BY <1>1, <2>1, DivBounds DEF Cluster
    <3> QED BY <1>3, <2>1, <2>2, <3>1
  <2>3. ASSUME d \in first .. after - 1 PROVE Cluster(d) = Cluster(c)
    <3>1. Cluster(c) * ClusterSize <= d /\ d < (Cluster(c) + 1) * ClusterSize
      BY <1>3, <2>1, <2>3
    <3> QED BY <1>1, <1>2, <2>1, <3>1, DivUnique DEF Cluster
  <2> QED BY <2>2, <2>3
<1> HIDE DEF first, after
<1>9. after - first = ClusterSize
  BY <1>1, <1>3
<1> QED BY <1>2, <1>3, <1>4, <1>7, <1>8, <1>9 DEF first, after

\* bdrv_round_to_clusters: the chunks of a copy of chunk c, at least.
LEMMA RoundFacts ==
    ASSUME NEW c \in Chunks
    PROVE  /\ First(c) \in Chunks /\ First(c) <= c /\ After(c) \in Nat
           /\ c < After(c) /\ After(c) <= N
           /\ \A d \in First(c) .. After(c) - 1 : d \in Chunks /\ Cluster(d) = Cluster(c)
           /\ c \in job.cow => First(c) = c /\ After(c) = c + 1
           /\ c \notin job.cow => \A d \in Chunks :
                Cluster(d) = Cluster(c) <=> d \in First(c) .. After(c) - 1
<1>1. c \in Nat /\ c < N /\ N \in Nat
  BY Constants DEF Chunks
<1>2. CASE c \in job.cow
  <2>1. First(c) = c /\ After(c) = c + 1
    BY <1>2 DEF First, After
  <2>2. \A d \in First(c) .. After(c) - 1 : d = c
    BY <1>1, <2>1
  <2> QED BY <1>1, <1>2, <2>1, <2>2
<1>3. CASE c \notin job.cow
  <2>1. First(c) = Cluster(c) * ClusterSize /\ After(c) = (Cluster(c) + 1) * ClusterSize
    BY <1>3 DEF First, After
  <2>2. /\ First(c) \in Nat /\ After(c) \in Nat /\ First(c) <= c /\ c < After(c) /\ After(c) <= N
        /\ \A d \in Chunks : Cluster(d) = Cluster(c) <=> d \in First(c) .. After(c) - 1
    BY <2>1, ClusterFacts
  <2>3. \A d \in First(c) .. After(c) - 1 : d \in Chunks
    BY <1>1, <2>2 DEF Chunks
  <2>4. First(c) \in Chunks
    BY <1>1, <2>2 DEF Chunks
  <2> QED BY <1>3, <2>2, <2>3, <2>4
<1> QED BY <1>2, <1>3

-----------------------------------------------------------------------------
(* The iterator of the dirty bitmap.                                       *)

\* hbitmap_iter_next returns a dirty chunk and leaves only later ones.
LEMMA IterNextFacts ==
    ASSUME dirty \subseteq Chunks, NEW i, IterOK(i)
    PROVE  /\ i.bits = {} /\ i.words = {} => IterNext(i) = <<-1, i>>
           /\ i.bits # {} \/ i.words # {} =>
                /\ IterNext(i)[1] \in dirty /\ IterOK(IterNext(i)[2])
                /\ IterNext(i)[1] \in i.bits \/ Word(IterNext(i)[1]) \in i.words
                /\ \A c \in IterNext(i)[2].bits : c > IterNext(i)[1]
                /\ \A w \in IterNext(i)[2].words : w > Word(IterNext(i)[1])
<1> DEFINE w == IF i.bits # {} THEN -1 ELSE Min(i.words)
           bits == IF w = -1 THEN i.bits ELSE InWord(dirty, w)
           c == Min(bits)
           rest == [bits |-> bits \ {c}, words |-> i.words \ {w}]
<1>0. /\ i.bits \subseteq Chunks /\ i.words \subseteq Nat /\ i.bits \subseteq dirty
      /\ \A x \in i.words : InWord(dirty, x) # {}
      /\ \A d \in i.bits, x \in i.words : Word(d) < x
  BY DEF IterOK
<1>1. CASE i.bits = {} /\ i.words = {}
  BY <1>1 DEF IterNext
<1>2. CASE i.bits # {} \/ i.words # {}
  <2>1. IterNext(i) = <<c, rest>>
    BY <1>2 DEF IterNext
  <2>2. /\ bits # {} /\ bits \subseteq dirty
        /\ \A x \in i.words \ {w}, d \in bits : Word(d) < x
        /\ bits = i.bits \/ (w \in i.words /\ \A d \in bits : Word(d) = w)
    <3>1. CASE i.bits # {}
      BY <1>0, <3>1
    <3>2. CASE i.bits = {}
      <4>1. w \in i.words /\ (\A x \in i.words : w <= x) /\ w \in Nat
        BY <1>0, <1>2, <3>2, NatMin
      <4>2. bits = InWord(dirty, w)
        BY <3>2, <4>1
      <4>3. \A x \in i.words \ {w} : w < x
        BY <1>0, <4>1
      <4> QED BY <1>0, <4>1, <4>2, <4>3 DEF InWord
    <3> QED BY <3>1, <3>2
  <2> HIDE DEF bits, w
  <2>3. bits \in SUBSET Nat /\ bits \subseteq Chunks
    BY <2>2, Constants
  <2>4. c \in bits /\ \A d \in bits : c <= d
    BY <2>2, <2>3, NatMin
  <2> HIDE DEF c
  <2>5. ASSUME NEW d \in bits \ {c} PROVE d > c
    <3>1. d \in Nat /\ c \in Nat /\ c <= d /\ c # d
      BY <2>3, <2>4
    <3> QED BY <3>1
  <2>6. rest.bits = bits \ {c} /\ rest.words = i.words \ {w}
        /\ rest = [bits |-> rest.bits, words |-> rest.words]
    OBVIOUS
  <2> HIDE DEF rest
  <2>7. IterOK(rest)
    BY <1>0, <2>2, <2>6 DEF IterOK
  <2>8. \A x \in rest.words : x > Word(c)
    BY <1>0, <2>2, <2>3, <2>4, <2>6, WordFacts
  <2>9. c \in i.bits \/ Word(c) \in i.words
    BY <2>2, <2>4
  <2> QED BY <1>2, <2>1, <2>2, <2>4, <2>5, <2>6, <2>7, <2>8, <2>9
<1> QED BY <1>1, <1>2

\* hbitmap_iter_init: the iterator is before all dirty chunks.
LEMMA IterInitFacts ==
    ASSUME NEW bitmap \in SUBSET Chunks
    PROVE  /\ LET i == IterInit(bitmap) IN
              /\ i = [bits |-> i.bits, words |-> i.words]
              /\ i.bits \subseteq bitmap /\ i.words \subseteq Nat
              /\ \A w \in i.words : InWord(bitmap, w) # {}
              /\ \A c \in i.bits, w \in i.words : Word(c) < w
              /\ bitmap # {} => i.bits # {} \/ i.words # {}
<1> DEFINE i == IterInit(bitmap)
<1>1. i = [bits |-> InWord(bitmap, 0), words |-> {Word(c) : c \in bitmap} \ {0}]
  BY DEF IterInit
<1>2. i.bits = InWord(bitmap, 0) /\ i.words = {Word(c) : c \in bitmap} \ {0}
      /\ i = [bits |-> i.bits, words |-> i.words]
  BY <1>1
<1> HIDE DEF i
<1>3. \A w \in i.words : w \in Nat /\ w # 0 /\ InWord(bitmap, w) # {}
  BY <1>2, WordFacts DEF InWord
<1>4. \A c \in i.bits : c \in bitmap /\ Word(c) = 0
  BY <1>2 DEF InWord
<1>5. bitmap # {} => i.bits # {} \/ i.words # {}
  BY <1>2 DEF InWord
<1> QED BY <1>2, <1>3, <1>4, <1>5 DEF i

\* What the iterator has yet to return comes after chunk n.
Ahead(i, n) ==
    /\ \A c \in i.bits : c > n
    /\ \A w \in i.words : \A c \in InWord(dirty, w) : c > n

\* The position and the iterator are advanced over chunk n if it is dirty.
AdvanceOver(n, p) == IF n > p[1] /\ n \in dirty THEN IterNext(p[2]) ELSE p

\* The iterator is in order, and past its position and chunk n.
At(p, n) ==
    /\ p = <<p[1], p[2]>> /\ p[1] \in Int /\ IterOK(p[2]) /\ Ahead(p[2], p[1]) /\ Ahead(p[2], n)

\* One more chunk brings the iterator to the next state it is specified to be in.
LEMMA AdvanceStep ==
    ASSUME dirty \subseteq Chunks, NEW n \in Nat, NEW p, At(p, n)
    PROVE  At(AdvanceOver(n + 1, p), n + 1)
<1> DEFINE i == p[2]
           next == IterNext(i)
<1>0. IterOK(i) /\ Ahead(i, n) /\ Ahead(i, p[1]) /\ p[1] \in Int
  BY DEF At
<1>i. /\ i.bits \subseteq dirty /\ i.words \subseteq Nat
      /\ \A w \in i.words : InWord(dirty, w) \subseteq dirty
  BY <1>0 DEF IterOK, InWord
<1>d. dirty \subseteq Nat
  BY Constants
<1>1. CASE ~ (n + 1 > p[1] /\ n + 1 \in dirty)
  <2>1. AdvanceOver(n + 1, p) = p
    BY <1>1 DEF AdvanceOver
  <2>2. Ahead(i, n + 1)
    <3>1. CASE n + 1 \notin dirty
      <4>1. ASSUME NEW c \in dirty, c > n PROVE c > n + 1
        BY <1>d, <3>1, <4>1
      <4> QED BY <1>0, <1>i, <4>1 DEF Ahead
    <3>2. CASE ~ (n + 1 > p[1])
      <4>1. ASSUME NEW c \in dirty, c > p[1] PROVE c > n + 1
        BY <1>0, <1>d, <3>2, <4>1
      <4> QED BY <1>0, <1>i, <4>1 DEF Ahead
    <3> QED BY <1>1, <3>1, <3>2
  <2> QED BY <2>1, <2>2 DEF At
<1>2. CASE n + 1 > p[1] /\ n + 1 \in dirty
  <2>1. AdvanceOver(n + 1, p) = next
    BY <1>2 DEF AdvanceOver
  <2>2. CASE i.bits = {} /\ i.words = {}
    <3>1. next = <<-1, i>>
      BY <1>0, <2>2, IterNextFacts
    <3>2. next[1] = -1 /\ next[2] = i /\ next = <<next[1], next[2]>>
      BY <3>1
    <3> QED BY <1>0, <2>1, <2>2, <3>2 DEF At, Ahead
  <2>3. CASE i.bits # {} \/ i.words # {}
    <3>1. /\ next[1] \in dirty /\ IterOK(next[2])
          /\ next[1] \in i.bits \/ Word(next[1]) \in i.words
          /\ \A c \in next[2].bits : c > next[1]
          /\ \A w \in next[2].words : w > Word(next[1])
      BY <1>0, <2>3, IterNextFacts
    <3>2. next = <<next[1], next[2]>>
      BY <2>3 DEF IterNext
    <3> HIDE DEF next
    <3>3. Ahead(next[2], next[1])
      <4>1. ASSUME NEW w \in next[2].words, NEW c \in InWord(dirty, w) PROVE c > next[1]
        <5>1. c \in Chunks /\ next[1] \in Chunks /\ Word(next[1]) < Word(c)
          BY <3>1, <4>1, WordFacts DEF InWord, IterOK
        <5> QED BY <5>1, WordFacts, Constants
      <4> QED BY <3>1, <4>1 DEF Ahead
    <3>4. next[1] > n
      BY <1>0, <3>1 DEF Ahead, InWord
    <3>5. Ahead(next[2], n + 1)
      <4>1. ASSUME NEW c \in dirty, c > next[1] PROVE c > n + 1
        <5>1. c \in Nat /\ next[1] \in Nat
          BY <1>d, <3>1
        <5> QED BY <3>4, <4>1, <5>1
      <4>2. next[2].bits \subseteq dirty /\ \A w : InWord(dirty, w) \subseteq dirty
        BY <3>1 DEF IterOK, InWord
      <4> QED BY <3>3, <4>1, <4>2 DEF Ahead
    <3>6. next[1] \in Int
      <4>1. next[1] \in Nat
        BY <1>d, <3>1
      <4> QED BY <4>1
    <3> QED BY <2>1, <3>1, <3>2, <3>3, <3>5, <3>6 DEF At
  <2> QED BY <2>2, <2>3
<1> QED BY <1>1, <1>2

\* The function by which Advanced is defined exists ...
IsAdvance(c, end, f) ==
    f = [n \in c .. end - 1 |-> IF n = c THEN <<c, iter>> ELSE AdvanceOver(n, f[n - 1])]

\* The recursive function by which Advance is defined exists.
LEMMA AdvanceExists ==
    ASSUME NEW c \in Nat, NEW end \in Nat, c < end
    PROVE  \E f : IsAdvance(c, end, f)
<1> DEFINE bad == {k \in Nat : c < k /\ ~ \E f : IsAdvance(c, k, f)}
<1> SUFFICES ASSUME bad # {} PROVE FALSE
  OBVIOUS
<1>1. Min(bad) \in bad /\ \A k \in bad : Min(bad) <= k
  BY NatMin
<1> DEFINE m == Min(bad)
<1>2. m \in Nat /\ c < m /\ ~ \E f : IsAdvance(c, m, f)
  BY <1>1
<1>3. \A k \in Nat : c < k /\ k < m => \E f : IsAdvance(c, k, f)
  BY <1>1, <1>2
<1> HIDE DEF m, bad
<1>4. CASE m = c + 1
  <2> DEFINE f == [n \in c .. m - 1 |-> <<c, iter>>]
  <2>1. \A n \in c .. m - 1 : n = c
    BY <1>4
  <2>2. IsAdvance(c, m, f)
    BY <2>1 DEF IsAdvance
  <2> QED BY <1>2, <2>2
<1>5. CASE m # c + 1
  <2>1. m - 1 \in Nat /\ c < m - 1 /\ m - 1 < m
    BY <1>2, <1>5
  <2>2. PICK f : IsAdvance(c, m - 1, f)
    BY <1>3, <2>1
  <2>3. \A n \in c .. m - 2 :
          f[n] = IF n = c THEN <<c, iter>> ELSE AdvanceOver(n, f[n - 1])
    <3>1. (m - 1) - 1 = m - 2
      BY <1>2
    <3>2. f = [n \in c .. m - 2 |-> IF n = c THEN <<c, iter>> ELSE AdvanceOver(n, f[n - 1])]
      BY <2>2, <3>1 DEF IsAdvance
    <3> QED BY <3>2
  <2> DEFINE body(n) == IF n = c THEN <<c, iter>> ELSE AdvanceOver(n, f[n - 1])
             g == [n \in c .. m - 1 |-> body(n)]
  <2>4. \A n \in c .. m - 2 : g[n] = f[n]
    BY <1>2, <2>3
  <2>5. ASSUME NEW n \in c .. m - 1
        PROVE  body(n) = IF n = c THEN <<c, iter>> ELSE AdvanceOver(n, g[n - 1])
    <3>1. n # c => n - 1 \in c .. m - 2
      BY <1>2
    <3> HIDE DEF g
    <3> QED BY <2>4, <3>1
  <2>6. IsAdvance(c, m, g)
    BY <2>5 DEF IsAdvance
  <2> HIDE DEF g
  <2> QED BY <1>2, <2>6
<1> QED BY <1>4, <1>5

\* ... so that the iterator after an operation is past all of its chunks.
LEMMA AdvancedFacts ==
    ASSUME dirty \subseteq Chunks, NEW c \in Nat, NEW end \in Nat, c < end,
           IterOK(iter), Ahead(iter, c)
    PROVE  IterOK(Advanced(c, end)) /\ Ahead(Advanced(c, end), end - 1)
<1> DEFINE f == CHOOSE f : IsAdvance(c, end, f)
<1>1. IsAdvance(c, end, f)
  BY AdvanceExists
<1>2. Advanced(c, end) = f[end - 1][2]
  BY DEF Advanced, IsAdvance, AdvanceOver
<1> HIDE DEF f
<1>3. \A n \in c .. end - 1 :
        f[n] = IF n = c THEN <<c, iter>> ELSE AdvanceOver(n, f[n - 1])
  BY <1>1 DEF IsAdvance
<1> DEFINE bad == {n \in Nat : n \in c .. end - 1 /\ ~ At(f[n], n)}
<1>4. ASSUME bad # {} PROVE FALSE
  <2> DEFINE m == Min(bad)
  <2>1. m \in bad /\ \A n \in bad : m <= n
    BY <1>4, NatMin
  <2>2. m \in Nat /\ m \in c .. end - 1 /\ ~ At(f[m], m)
        /\ \A n \in Nat : n < m /\ n \in c .. end - 1 => At(f[n], n)
    BY <2>1
  <2> HIDE DEF bad, m
  <2>3. CASE m = c
    <3>1. f[m] = <<c, iter>> /\ f[m][1] = c /\ f[m][2] = iter
      BY <1>3, <2>2, <2>3
    <3> QED BY <2>2, <2>3, <3>1 DEF At
  <2>4. CASE m # c
    <3>1. m - 1 \in Nat /\ m - 1 < m /\ m - 1 \in c .. end - 1 /\ (m - 1) + 1 = m
      BY <2>2, <2>4
    <3>2. At(f[m - 1], m - 1)
      BY <2>2, <3>1
    <3>3. At(AdvanceOver(m, f[m - 1]), m)
      BY <3>1, <3>2, AdvanceStep
    <3>4. f[m] = AdvanceOver(m, f[m - 1])
      BY <1>3, <2>2, <2>4
    <3> QED BY <2>2, <3>3, <3>4
  <2> QED BY <2>3, <2>4
<1>5. At(f[end - 1], end - 1)
  <2>1. end - 1 \in Nat /\ end - 1 \in c .. end - 1
    OBVIOUS
  <2> QED BY <1>4, <2>1
<1> QED BY <1>2, <1>5 DEF At

-----------------------------------------------------------------------------
(* The chunks of a new operation.                                          *)

\* A run of chunks that an operation on chunk c may take: there are buffers
\* for it, no operation copies any of it, and it can end before chunk n.
Run(c, n) ==
    /\ n \in c + 1 .. N /\ n - First(c) <= BufFree
    /\ \A d \in First(c) .. n - 1 : d \notin Copying
    /\ Rounded(First(c) .. n - 1)
    /\ n = N \/ n \in job.cow \/ First(n) = n

\* The function by which End is defined exists.
IsEnd(c, f) ==
    f = [n \in c .. N |-> IF n = c \/ (n < N /\ MayAdd(c, n)) THEN f[After(n)] ELSE n]

\* The recursive function by which End is defined exists.
LEMMA EndExists == ASSUME NEW c \in Chunks PROVE \E f : IsEnd(c, f)
<1> DEFINE go(n) == n = c \/ (n < N /\ MayAdd(c, n))
           IsTail(b, f) == f = [n \in b .. N |-> IF go(n) THEN f[After(n)] ELSE n]
           bad == {k \in 0 .. N - c : ~ \E f : IsTail(N - k, f)}
<1>0. c \in Nat /\ N \in Nat /\ c < N
  BY Constants DEF Chunks
<1>1. ASSUME NEW n \in c .. N, go(n) PROVE n \in Chunks /\ After(n) \in n + 1 .. N
  <2>1. n \in Chunks
    BY <1>0, <1>1 DEF Chunks
  <2> QED BY <1>0, <2>1, RoundFacts
<1> HIDE DEF go, IsTail
<1>2. ASSUME bad # {} PROVE FALSE
  <2> DEFINE m == Min(bad)
  <2>1. bad \subseteq Nat
    BY <1>0
  <2>2. m \in bad /\ \A k \in bad : m <= k
    BY <1>2, <2>1, NatMin
  <2>3. /\ m \in Nat /\ m <= N - c /\ ~ \E f : IsTail(N - m, f)
        /\ \A k \in 0 .. N - c : k < m => \E f : IsTail(N - k, f)
    <3>1. m \in 0 .. N - c /\ ~ \E f : IsTail(N - m, f)
      BY <2>2
    <3>2. \A k \in 0 .. N - c : k < m => k \notin bad
      BY <1>0, <2>2, <3>1
    <3> QED BY <1>0, <3>1, <3>2
  <2> HIDE DEF bad, m
  <2> DEFINE b == N - m
  <2>4. b \in c .. N
    BY <1>0, <2>3
  <2>5. PICK f : \A n \in b + 1 .. N : f[n] = IF go(n) THEN f[After(n)] ELSE n
    <3>1. CASE m = 0
      <4>1. b + 1 .. N = {}
        BY <1>0, <3>1
      <4> QED BY <4>1
    <3>2. CASE m # 0
      <4>1. m - 1 \in 0 .. N - c /\ m - 1 < m /\ N - (m - 1) = b + 1
        BY <1>0, <2>3, <3>2
      <4>2. PICK f : IsTail(b + 1, f)
        BY <2>3, <4>1
      <4> QED BY <4>2 DEF IsTail
    <3> QED BY <3>1, <3>2
  <2> DEFINE body(n) == IF go(n) THEN f[After(n)] ELSE n
             g == [n \in b .. N |-> body(n)]
  <2>6. \A n \in b + 1 .. N : g[n] = f[n]
    BY <2>4, <2>5
  <2>7. ASSUME NEW n \in b .. N
        PROVE  body(n) = IF go(n) THEN g[After(n)] ELSE n
    <3>1. go(n) => After(n) \in b + 1 .. N
      BY <1>0, <1>1, <2>4
    <3> HIDE DEF g
    <3> QED BY <2>6, <3>1
  <2>8. IsTail(N - m, g)
    BY <2>7 DEF IsTail
  <2> HIDE DEF g
  <2> QED BY <2>3, <2>8
<1>3. \E f : IsTail(c, f)
  <2>1. N - c \in 0 .. N - c /\ N - (N - c) = c
    BY <1>0
  <2> QED BY <1>2, <2>1
<1> QED BY <1>3 DEF IsEnd, IsTail, go

\* The chunks that a copy of a chunk takes are those of no other operation.
LEMMA PieceFacts ==
    ASSUME CowOK, OpsOK, NEW n \in Chunks \ job.inFlight
    PROVE  /\ \A d \in First(n) .. After(n) - 1 : d \notin Copying
           /\ Rounded(First(n) .. After(n) - 1)
<1>0. n \notin Copying
  BY DEF OpsOK
<1>1. CASE n \in job.cow
  <2>1. \A d \in First(n) .. After(n) - 1 : d = n
    BY <1>1, RoundFacts, Constants
  <2> QED BY <1>0, <1>1, <2>1 DEF Rounded
<1>2. CASE n \notin job.cow
  <2>1. \A d \in Chunks : Cluster(d) = Cluster(n) <=> d \in First(n) .. After(n) - 1
    BY <1>2, RoundFacts
  <2>2. ASSUME NEW d \in First(n) .. After(n) - 1 PROVE d \notin Copying
    <3>1. d \in Chunks /\ Cluster(d) = Cluster(n)
      BY RoundFacts
    <3>2. d \notin job.cow
      BY <1>2, <3>1 DEF CowOK
    <3>3. ASSUME NEW op \in ops, d \in op.chunks PROVE FALSE
      <4>1. n \in op.chunks
        BY <3>1, <3>2, <3>3 DEF OpsOK, Rounded
      <4> QED BY <1>0, <4>1 DEF Copying
    <3> QED BY <3>3 DEF Copying
  <2>3. Rounded(First(n) .. After(n) - 1)
    BY <2>1, RoundFacts DEF Rounded
  <2> QED BY <2>2, <2>3
<1> QED BY <1>1, <1>2

\* The next copy of a whole cluster starts where that cluster does.
LEMMA NextPiece ==
    ASSUME CowOK, NEW n \in Chunks
    PROVE  After(n) = N \/ After(n) \in job.cow \/ First(After(n)) = After(n)
<1> DEFINE m == After(n)
<1> SUFFICES ASSUME m # N, m \notin job.cow PROVE First(m) = m
  OBVIOUS
<1>0. n \in Nat /\ n < m /\ m \in Nat /\ m \in Chunks /\ ClusterSize \in Nat \ {0}
  BY RoundFacts, Constants DEF Chunks
<1>1. First(m) = Cluster(m) * ClusterSize
  BY DEF First
<1>2. CASE n \in job.cow
  <2>1. m = n + 1
    BY <1>2 DEF After
  <2>2. Cluster(n) # Cluster(m)
    BY <1>0, <1>2 DEF CowOK
  <2>3. n \notin First(m) .. After(m) - 1
    BY <1>0, <2>2, RoundFacts
  <2>4. First(m) \in Nat /\ First(m) <= m /\ After(m) \in Nat /\ m < After(m)
    BY <1>0, RoundFacts, Constants
  <2> HIDE DEF m
  <2> QED BY <1>0, <2>1, <2>3, <2>4
<1>3. CASE n \notin job.cow
  <2>1. m = (Cluster(n) + 1) * ClusterSize /\ Cluster(n) + 1 \in Nat
    BY <1>3, ClusterFacts DEF After
  <2> HIDE DEF m
  <2>2. m < (Cluster(n) + 1 + 1) * ClusterSize
    BY <1>0, <2>1
  <2>3. m \div ClusterSize = Cluster(n) + 1
    BY <1>0, <2>1, <2>2, DivUnique
  <2> QED BY <1>1, <2>1, <2>3 DEF Cluster
<1> QED BY <1>2, <1>3

\* Chunks being copied are chunks of the disk, so free buffers can be counted.
LEMMA BufFreeInt ==
    ASSUME Shape PROVE Copying \in SUBSET Chunks /\ Cardinality(Copying) \in Nat /\ BufFree \in Int
<1>1. Copying \in SUBSET Chunks
  BY DEF Shape, OpOK, Copying
<1>2. Cardinality(Copying) \in Nat
  BY <1>1, ChunksFinite
<1> QED BY <1>1, <1>2, Constants DEF BufFree

\* mirror_iteration adds chunks as long as it may.
LEMMA EndFacts ==
    ASSUME Shape, CowOK, OpsOK, NEW c \in Chunks \ job.inFlight, After(c) - First(c) <= BufFree
    PROVE  Run(c, End(c))
<1>0. c \in Nat /\ N \in Nat /\ c < N /\ First(c) \in Nat /\ First(c) <= c
  BY Constants, RoundFacts DEF Chunks
<1> DEFINE f == CHOOSE f : IsEnd(c, f)
<1>1. IsEnd(c, f)
  BY EndExists
<1>2. End(c) = f[c]
  BY DEF End, IsEnd
<1> HIDE DEF f
<1>3. \A n \in c .. N : f[n] = IF n = c \/ (n < N /\ MayAdd(c, n)) THEN f[After(n)] ELSE n
  BY <1>1 DEF IsEnd
<1>4. Run(c, After(c))
  <2>1. After(c) \in c + 1 .. N
    BY <1>0, RoundFacts
  <2> QED BY <2>1, PieceFacts, NextPiece DEF Run
<1>5. ASSUME NEW n \in Nat, Run(c, n), n < N, MayAdd(c, n) PROVE Run(c, After(n))
  <2>1. n \in Chunks \ job.inFlight /\ n \in c + 1 .. N
    BY <1>5, Constants DEF Run, MayAdd, Shape
  <2>2. After(n) \in n + 1 .. N
    BY <1>0, <2>1, RoundFacts
  <2>3. First(n) = n
    BY <1>5, <2>1, RoundFacts DEF Run
  <2>4. (First(c) .. After(n) - 1) = (First(c) .. n - 1) \cup (First(n) .. After(n) - 1)
    BY <1>0, <2>1, <2>2, <2>3
  <2>5. /\ \A d \in First(n) .. After(n) - 1 : d \notin Copying
        /\ Rounded(First(n) .. After(n) - 1)
    BY <2>1, PieceFacts
  <2>6. /\ \A d \in First(c) .. n - 1 : d \notin Copying
        /\ Rounded(First(c) .. n - 1)
    BY <1>5 DEF Run
  <2>7. Rounded(First(c) .. After(n) - 1)
    BY <2>4, <2>5, <2>6 DEF Rounded
  <2>8. \A d \in First(c) .. After(n) - 1 : d \notin Copying
    BY <2>4, <2>5, <2>6
  <2>9. After(n) - First(c) <= BufFree
    BY <1>5 DEF MayAdd
  <2>10. After(n) = N \/ After(n) \in job.cow \/ First(After(n)) = After(n)
    BY <2>1, NextPiece
  <2>11. After(n) \in c + 1 .. N
    BY <1>0, <2>1, <2>2
  <2> QED BY <2>7, <2>8, <2>9, <2>10, <2>11 DEF Run
<1>6. ASSUME NEW n \in Nat, Run(c, n) PROVE Run(c, f[n])
  <2> DEFINE bad == {k \in Nat : k <= N /\ Run(c, N - k) /\ ~ Run(c, f[N - k])}
  <2>1. bad = {}
    <3> SUFFICES ASSUME bad # {} PROVE FALSE
      OBVIOUS
    <3> DEFINE m == Min(bad)
               b == N - m
    <3>1. m \in bad /\ \A k \in bad : m <= k
      BY NatMin
    <3>2. m \in Nat /\ m <= N /\ Run(c, b) /\ ~ Run(c, f[b])
      BY <3>1
    <3>3. \A k \in Nat : k < m => k \notin bad
      BY <3>1, <3>2
    <3>4. \A k \in Nat : k < m /\ Run(c, N - k) => Run(c, f[N - k])
      BY <1>0, <3>2, <3>3
    <3> HIDE DEF bad, m
    <3>5. b \in c + 1 .. N /\ b \in Nat /\ b \in c .. N /\ b # c
      BY <1>0, <3>2 DEF Run
    <3>6. b < N /\ MayAdd(c, b)
      BY <1>3, <3>2, <3>5
    <3>7. f[b] = f[After(b)] /\ Run(c, After(b))
      BY <1>3, <1>5, <3>2, <3>5, <3>6
    <3>8. After(b) \in Nat /\ After(b) > b /\ After(b) <= N
      BY <1>0, <3>5, <3>6, RoundFacts DEF Chunks
    <3>9. N - After(b) \in Nat /\ N - After(b) < m /\ N - (N - After(b)) = After(b)
      BY <1>0, <3>2, <3>8
    <3>10. Run(c, f[After(b)])
      BY <3>4, <3>7, <3>9
    <3> QED BY <3>2, <3>7, <3>10
  <2>2. n <= N /\ N - n \in Nat /\ N - n <= N /\ N - (N - n) = n
    BY <1>0, <1>6 DEF Run
  <2> QED BY <1>6, <2>1, <2>2
<1>7. f[c] = f[After(c)] /\ After(c) \in Nat
  BY <1>0, <1>3, RoundFacts
<1> QED BY <1>2, <1>4, <1>6, <1>7

-----------------------------------------------------------------------------
(* What the helpers of the job do to it.                                   *)

\* The fields that the invariant speaks of, apart from the place and the result.
Keeps(j, k) ==
    /\ JobOK(k) /\ k.at = j.at /\ k.inFlight = j.inFlight /\ k.cow = j.cow
    /\ k.backing = j.backing

KeepsAll(j, k) == Keeps(j, k) /\ k.ret = j.ret /\ k.synced = j.synced /\ k.cancelled = j.cancelled

\* The coroutine stays where it is, or a sleep or a wait ends: only a sleep of
\* a job that is not in sync ends the loop, and only when the job is cancelled.
Wakes(j, k) ==
    \/ k.pc = j.pc
    \/ /\ j.pc \in {"yield", "sleep_unsynced", "sleep_synced"} /\ k.pc \in {"loop", "exit"}
       /\ k.pc = "exit" => j.pc = "sleep_unsynced" /\ j.cancelled

\* block_job_sleep_ns changes only where the coroutine is; it leaves the loop only
\* when the job was cancelled before it was synchronised.
LEMMA SleepFacts ==
    ASSUME NEW j, JobOK(j), NEW pc \in {"sleep_unsynced", "sleep_synced"}
    PROVE  /\ KeepsAll(j, Sleep(j, pc))
           /\ Sleep(j, pc).pc \in {pc, "exit", "loop"}
           /\ Sleep(j, pc).pc = "exit" => pc = "sleep_unsynced" /\ j.cancelled
<1>1. CASE ~ j.cancelled
  BY <1>1 DEF Sleep, KeepsAll, Keeps, JobOK, Fields, Pcs
<1>2. CASE j.cancelled
  BY <1>2 DEF Sleep, KeepsAll, Keeps, JobOK, Fields, Pcs
<1> QED BY <1>1, <1>2

\* The end of a sleep changes only where the coroutine is.
LEMMA WokenFacts ==
    ASSUME NEW j, JobOK(j), j.pc \in {"sleep_unsynced", "sleep_synced"}
    PROVE  KeepsAll(j, Woken(j)) /\ Wakes(j, Woken(j)) /\ Woken(j).pc \in {"loop", "exit"}
<1>1. CASE j.pc = "sleep_unsynced" /\ j.cancelled
  BY <1>1 DEF Woken, KeepsAll, Keeps, Wakes, JobOK, Fields, Pcs
<1>2. CASE ~ (j.pc = "sleep_unsynced" /\ j.cancelled)
  BY <1>2 DEF Woken, KeepsAll, Keeps, Wakes, JobOK, Fields, Pcs
<1> QED BY <1>1, <1>2

\* mirror_error_action leaves the coroutine where it is and takes back "synced".
LEMMA ErrorActionFacts ==
    ASSUME NEW j, JobOK(j), NEW policy
    PROVE  LET k == ErrorAction(j, policy) IN
           Keeps(j, k) /\ k.pc = j.pc /\ k.ret = j.ret /\ k.cancelled = j.cancelled /\ ~ k.synced
  BY DEF ErrorAction, Keeps, JobOK, Fields, Pcs

\* block_job_resume and the wake-up in it change only where the coroutine is.
LEMMA ResumedFacts ==
    ASSUME NEW j, JobOK(j)
    PROVE  KeepsAll(j, Resumed(j)) /\ Wakes(j, Resumed(j))
<1> DEFINE j1 == [j EXCEPT !.paused = FALSE, !.ioOk = TRUE]
<1>1. KeepsAll(j, j1) /\ j1.pc = j.pc
  BY DEF KeepsAll, Keeps, JobOK, Fields, Pcs
<1>2. Resumed(j) = IF Asleep(j1) THEN Woken(j1) ELSE j1
  BY DEF Resumed
<1> HIDE DEF j1
<1>3. CASE Asleep(j1)
  <2>1. KeepsAll(j1, Woken(j1)) /\ Wakes(j1, Woken(j1))
    BY <1>1, <1>3, WokenFacts DEF Asleep, KeepsAll, Keeps
  <2> QED BY <1>1, <1>2, <1>3, <2>1 DEF KeepsAll, Keeps, Wakes
<1>4. CASE ~ Asleep(j1)
  BY <1>1, <1>2, <1>4 DEF Wakes
<1> QED BY <1>3, <1>4

\* A pass ends the loop when a job that is not in sync is cancelled, or when
\* there is nothing left to copy.
LEMMA EndPassFacts ==
    ASSUME NEW j, JobOK(j), NEW clean \in BOOLEAN, NEW should \in BOOLEAN
    PROVE  LET k == EndPass(j, clean, should) IN
           /\ Keeps(j, k) /\ k.ret = 0 /\ k.synced = j.synced
           /\ k.pc \in {"sleep_unsynced", "sleep_synced", "loop", "exit"}
           /\ k.pc = "sleep_unsynced" => ~ k.synced
           /\ k.pc = "exit" =>
                \/ ~ j.synced /\ j.cancelled /\ k.cancelled = j.cancelled
                \/ j.synced /\ clean /\ should
<1> DEFINE j1 == [j EXCEPT !.ret = 0, !.fresh = TRUE]
           k == EndPass(j, clean, should)
<1>1. Keeps(j, j1) /\ j1.ret = 0 /\ j1.synced = j.synced /\ j1.cancelled = j.cancelled
  BY DEF Keeps, JobOK, Fields, Pcs
<1>j. JobOK(j1) /\ DOMAIN j1 = Fields
  BY <1>1 DEF Keeps, JobOK
<1> HIDE DEF j1
<1>2. CASE ~ j.synced
  <2>1. k = Sleep(j1, "sleep_unsynced")
    BY <1>2 DEF EndPass, j1
  <2> HIDE DEF k
  <2> QED BY <1>1, <1>2, <1>j, <2>1, SleepFacts DEF KeepsAll, Keeps, k
<1>3. CASE j.synced /\ ~ should
  <2>1. k = Sleep(j1, "sleep_synced")
    BY <1>3 DEF EndPass, j1
  <2> HIDE DEF k
  <2>2. KeepsAll(j1, k) /\ k.pc \in {"sleep_synced", "exit", "loop"} /\ k.pc # "exit"
    BY <1>j, <2>1, SleepFacts
  <2> QED BY <1>1, <1>3, <2>2 DEF KeepsAll, Keeps, k
<1>4. CASE j.synced /\ should /\ clean
  <2>1. k = [j1 EXCEPT !.pc = "exit", !.cancelled = FALSE]
    BY <1>4 DEF EndPass, j1
  <2>2. Keeps(j1, k) /\ k.pc = "exit" /\ k.ret = j1.ret /\ k.synced = j1.synced
    BY <1>j, <2>1 DEF Keeps, JobOK, Fields, Pcs
  <2> HIDE DEF k
  <2> QED BY <1>1, <1>4, <2>2 DEF Keeps, k
<1>5. CASE j.synced /\ should /\ ~ clean
  <2>1. k = [j1 EXCEPT !.pc = "loop"]
    BY <1>5 DEF EndPass, j1
  <2>2. Keeps(j1, k) /\ k.pc = "loop" /\ k.ret = j1.ret /\ k.synced = j1.synced
    BY <1>j, <2>1 DEF Keeps, JobOK, Fields, Pcs
  <2> HIDE DEF k
  <2> QED BY <1>1, <1>5, <2>2 DEF Keeps, k
<1> QED BY <1>2, <1>3, <1>4, <1>5

\* mirror_iteration_done.
LEMMA IterationDoneFacts ==
    ASSUME NEW j, JobOK(j), NEW op, op.chunks \subseteq Chunks, NEW ok \in BOOLEAN
    PROVE  LET k == IterationDone(j, op, ok) IN
           /\ JobOK(k) /\ k.at = j.at /\ k.backing = j.backing
           /\ k.ret = j.ret /\ k.synced = j.synced /\ k.cancelled = j.cancelled
           /\ k.inFlight = j.inFlight \ WholeChunks(op)
           /\ ok => k.cow = j.cow \cup WholeChunks(op)
           /\ ~ ok => k.cow = j.cow
           /\ Wakes(j, k)
<1> DEFINE whole == WholeChunks(op)
           j1 == [j EXCEPT !.inFlight = @ \ whole, !.cow = IF ok THEN @ \cup whole ELSE @]
           k == IterationDone(j, op, ok)
<1>1. whole \subseteq Chunks
  BY DEF WholeChunks
<1> HIDE DEF whole
<1>2. /\ JobOK(j1) /\ j1.pc = j.pc /\ j1.at = j.at /\ j1.backing = j.backing
      /\ j1.ret = j.ret /\ j1.synced = j.synced /\ j1.cancelled = j.cancelled
      /\ j1.inFlight = j.inFlight \ whole
      /\ j1.cow = IF ok THEN j.cow \cup whole ELSE j.cow
  BY <1>1 DEF JobOK, Fields, Pcs
<1>3. k = IF j.pc = "yield" THEN [j1 EXCEPT !.pc = "loop"]
          ELSE IF Asleep(j) THEN Woken(j1) ELSE j1
  BY DEF IterationDone, whole
<1> HIDE DEF j1, k
<1>4. KeepsAll(j1, k) /\ Wakes(j1, k)
  <2>1. CASE j.pc = "yield"
    <3>1. k = [j1 EXCEPT !.pc = "loop"]
      BY <1>3, <2>1
    <3> QED BY <1>2, <2>1, <3>1 DEF KeepsAll, Keeps, Wakes, JobOK, Fields, Pcs
  <2>2. CASE j.pc # "yield" /\ Asleep(j)
    BY <1>2, <1>3, <2>2, WokenFacts DEF Asleep
  <2>3. CASE j.pc # "yield" /\ ~ Asleep(j)
    BY <1>2, <1>3, <2>3 DEF KeepsAll, Keeps, Wakes
  <2> QED BY <2>1, <2>2, <2>3
<1> QED BY <1>2, <1>4 DEF KeepsAll, Keeps, Wakes, whole, k

-----------------------------------------------------------------------------
(* Steps of the job that copy nothing.                                     *)

\* Only the job changes, and of it only where it is and how it ends.
Quiet ==
    /\ UNCHANGED <<dirty, iter, ops, src, tgt, allocated, guest, writes>>
    /\ errors' \in 0 .. MaxErrors
    /\ JobOK(job') /\ job'.at = job.at /\ job'.inFlight = job.inFlight /\ job'.cow = job.cow
    /\ job'.backing = job.backing \/ job'.backing

\* It starts no operation, and does not get to the end the wrong way.
RightPlace ==
    /\ job'.pc \in {"scan", "chunk"} => job.pc = job'.pc
    /\ job'.pc \in {"flush", "drain", "done"} => ops = {}
    /\ job'.pc = "sleep_unsynced" => ~ job'.synced
    /\ job'.pc = "exit" /\ ops # {} => job'.ret < 0 \/ (~ job'.synced /\ job'.cancelled)
    /\ job'.pc \in {"exit", "done"} /\ job'.ret = 0 /\ ~ job'.cancelled =>
         dirty = {} /\ ops = {} /\ \A c \in Chunks : guest[c] = "none"
    /\ job.pc = "scan" => job'.pc = "scan" \/ (job'.pc = "exit" /\ job'.ret < 0)
    /\ job.pc \in {"exit", "done"} /\ job.ret < 0 => job'.pc \in {"exit", "done"} /\ job'.ret < 0

\* A step that touches neither bitmaps, operations nor data keeps the invariant if it
\* puts the coroutine where it may be.
LEMMA QuietStep == ASSUME IInv, Quiet, RightPlace PROVE IInv'
<1>0. /\ UNCHANGED <<dirty, iter, ops, src, tgt, allocated, guest, writes>>
      /\ job'.at = job.at /\ job'.inFlight = job.inFlight /\ job'.cow = job.cow
      /\ Copying' = Copying
  BY DEF Quiet, Copying
<1>1. Shape'
  BY <1>0 DEF IInv, Shape, Quiet
<1>2. Limits'
  BY <1>0 DEF IInv, Limits, RightPlace, BufFree
<1>3. IterOK(iter)'
  BY <1>0 DEF IInv, IterOK
<1>4. IterPast'
  BY <1>0 DEF IInv, IterPast, RightPlace
<1>5. CowOK'
  BY <1>0 DEF IInv, CowOK, Quiet
<1>6. OpsOK'
  BY <1>0 DEF IInv, OpsOK, Rounded
<1>7. Control'
  BY <1>0 DEF IInv, Control, RightPlace
<1>8. Data'
  <2>1. \A c \in Chunks : Unscanned(c) => Unscanned(c)'
    BY <1>0 DEF Unscanned, RightPlace
  <2>2. ASSUME NEW c \in Chunks, tgt[c] # src[c]
        PROVE  Tracked(c)' \/ c \in Copying \/ Unscanned(c)'
    BY <1>0, <2>1, <2>2 DEF IInv, Data, Tracked
  <2>3. ASSUME NEW op \in ops, op.stage = "write"
        PROVE  /\ op.val \in [op.chunks -> 0 .. 1 + MaxWrites]
               /\ \A c \in op.chunks : op.val[c] # src[c] => Tracked(c)'
    BY <1>0, <2>3 DEF IInv, Data, Tracked
  <2> QED BY <1>0, <2>2, <2>3 DEF Data
<1> QED BY <1>1, <1>2, <1>3, <1>4, <1>5, <1>6, <1>7, <1>8 DEF IInv

\* A command or a timer wakes the coroutine at most.
LEMMA WakeStep ==
    ASSUME IInv, Quiet, Wakes(job, job'), job'.ret = job.ret,
           job'.synced = job.synced, job.cancelled => job'.cancelled,
           job'.pc = "exit" /\ job.pc # "exit" => job'.cancelled
    PROVE  RightPlace
<1>0. Control
  BY DEF IInv
<1> QED BY <1>0 DEF Wakes, Control, RightPlace

\* The monitor commands and the timer keep the invariant.
LEMMA CommandStep == ASSUME IInv, Pause \/ Resume \/ Cancel \/ Complete \/ Timer PROVE IInv'
<1>0. JobOK(job) /\ errors \in 0 .. MaxErrors
  BY DEF IInv, Shape
<1>u. UNCHANGED <<dirty, iter, ops, src, tgt, allocated, guest, writes, errors>>
  BY DEF Pause, Resume, Cancel, Complete, Timer, Command, source, target
<1>1. CASE Pause
  <2>1. job' = [job EXCEPT !.paused = TRUE]
    BY <1>1 DEF Pause
  <2>2. KeepsAll(job, job') /\ job'.pc = job.pc
    BY <1>0, <2>1 DEF KeepsAll, Keeps, JobOK, Fields, Pcs
  <2>3. Quiet
    BY <1>0, <1>u, <2>2 DEF Quiet, KeepsAll, Keeps
  <2> QED BY <2>2, <2>3, WakeStep, QuietStep DEF KeepsAll, Wakes
<1>2. CASE Resume \/ Timer
  <2>1. KeepsAll(job, job') /\ Wakes(job, job')
    BY <1>0, <1>2, ResumedFacts, WokenFacts DEF Resume, Timer, Asleep
  <2>2. Quiet
    BY <1>0, <1>u, <2>1 DEF Quiet, KeepsAll, Keeps
  <2> QED BY <2>1, <2>2, WakeStep, QuietStep DEF KeepsAll, Wakes
<1>3. CASE Cancel
  <2> DEFINE j == [job EXCEPT !.cancelled = TRUE]
  <2>1. Keeps(job, j) /\ j.pc = job.pc /\ j.ret = job.ret /\ j.synced = job.synced /\ j.cancelled
    BY <1>0 DEF Keeps, JobOK, Fields, Pcs
  <2>2. job' = Resumed(j)
    BY <1>3 DEF Cancel
  <2> HIDE DEF j
  <2>3. KeepsAll(j, job') /\ Wakes(j, job')
    BY <2>1, <2>2, ResumedFacts DEF Keeps
  <2>4. Quiet
    BY <1>0, <1>u, <2>1, <2>3 DEF Quiet, KeepsAll, Keeps
  <2>5. job'.pc = "exit" /\ job.pc # "exit" => job'.cancelled
    BY <2>1, <2>3 DEF KeepsAll
  <2>6. RightPlace
    <3>1. Control
      BY DEF IInv
    <3> QED BY <2>1, <2>3, <3>1 DEF KeepsAll, Wakes, Control, RightPlace
  <2> QED BY <2>4, <2>6, QuietStep
<1>4. CASE Complete
  <2> DEFINE j == [job EXCEPT !.backing = TRUE]
             k == [j EXCEPT !.shouldComplete = TRUE]
  <2>1. /\ JobOK(j) /\ j.at = job.at /\ j.inFlight = job.inFlight /\ j.cow = job.cow
        /\ j.backing /\ j.pc = job.pc /\ j.ret = job.ret /\ j.synced = job.synced
        /\ j.cancelled = job.cancelled
    BY <1>0 DEF JobOK, Fields, Pcs
  <2>2. job' = IF job.synced THEN Resumed(k) ELSE j
    BY <1>4 DEF Complete
  <2> HIDE DEF j
  <2>3. KeepsAll(j, k) /\ k.pc = j.pc
    BY <2>1 DEF KeepsAll, Keeps, JobOK, Fields, Pcs
  <2> HIDE DEF k
  <2>4. KeepsAll(k, Resumed(k)) /\ Wakes(k, Resumed(k))
    BY <2>3, ResumedFacts DEF KeepsAll, Keeps
  <2>5. KeepsAll(j, job') /\ Wakes(j, job')
    BY <2>1, <2>2, <2>3, <2>4 DEF KeepsAll, Keeps, Wakes
  <2>6. Quiet
    BY <1>0, <1>u, <2>1, <2>5 DEF Quiet, KeepsAll, Keeps
  <2>7. Wakes(job, job') /\ job'.ret = job.ret /\ job'.synced = job.synced
        /\ job'.cancelled = job.cancelled
    BY <2>1, <2>5 DEF Wakes, KeepsAll
  <2> QED BY <2>6, <2>7, WakeStep, QuietStep DEF Wakes
<1> QED BY <1>1, <1>2, <1>3, <1>4

\* The passes of mirror_run's loop that start no operation, and its end.
LEMMA LoopStep ==
    ASSUME IInv,
           \/ ScanFails \/ (\E expired \in BOOLEAN : Pass(expired))
           \/ FlushDone \/ FlushFails \/ Drained \/ Exit
    PROVE  IInv'
<1>0. JobOK(job) /\ Control /\ errors \in 0 .. MaxErrors /\ MaxErrors \in Nat
  BY Constants DEF IInv, Shape
<1>j. DOMAIN job = Fields
  BY <1>0 DEF JobOK
<1>1. CASE ScanFails
  <2>1. /\ job.pc = "scan" /\ job' = [job EXCEPT !.pc = "exit", !.ret = -1]
        /\ errors' \in 0 .. MaxErrors
        /\ UNCHANGED <<dirty, iter, ops, src, tgt, allocated, guest, writes>>
    BY <1>0, <1>1 DEF ScanFails, source, target
  <2>2. Keeps(job, job') /\ job'.pc = "exit" /\ job'.ret = -1
    BY <1>0, <2>1 DEF Keeps, JobOK, Fields, Pcs
  <2>3. Quiet /\ RightPlace
    BY <2>1, <2>2 DEF Quiet, Keeps, RightPlace
  <2> QED BY <2>3, QuietStep
<1>2. ASSUME NEW expired \in BOOLEAN, Pass(expired) PROVE IInv'
  <2> DEFINE copying == ~ expired /\ job.ioOk
  <2>1. /\ job.pc = "loop" /\ UNCHANGED <<dirty, iter, ops, src, tgt, allocated, guest, writes, errors>>
        /\ job' = IF job.failed THEN [job EXCEPT !.pc = "exit", !.ret = -1]
                  ELSE IF copying /\ MustYield THEN [job EXCEPT !.pc = "yield", !.fresh = FALSE]
                  ELSE IF ops = {} /\ dirty = {} THEN [job EXCEPT !.pc = "flush"]
                  ELSE EndPass(job, dirty = {}, FALSE)
    BY <1>2 DEF Pass, source, target
  <2> HIDE DEF copying
  <2>2. CASE job' = [job EXCEPT !.pc = "exit", !.ret = -1]
    <3>1. Keeps(job, job') /\ job'.pc = "exit" /\ job'.ret = -1
      BY <1>0, <2>2 DEF Keeps, JobOK, Fields, Pcs
    <3>2. Quiet
      BY <1>0, <2>1, <3>1 DEF Quiet, Keeps
    <3>3. job'.ret < 0 /\ job'.ret # 0
      BY <3>1
    <3>4. job.pc = "loop"
      BY <2>1
    <3>5. RightPlace
      BY <3>1, <3>3, <3>4 DEF RightPlace
    <3> QED BY <3>2, <3>5, QuietStep
  <2>3. CASE job' = [job EXCEPT !.pc = "yield", !.fresh = FALSE]
    <3>1. Keeps(job, job') /\ job'.pc = "yield"
      BY <1>0, <2>3 DEF Keeps, JobOK, Fields, Pcs
    <3>2. Quiet /\ RightPlace
      BY <1>0, <2>1, <3>1 DEF Quiet, Keeps, RightPlace
    <3> QED BY <3>2, QuietStep
  <2>4. CASE job' = [job EXCEPT !.pc = "flush"] /\ ops = {}
    <3>1. Keeps(job, job') /\ job'.pc = "flush"
      BY <1>0, <2>4 DEF Keeps, JobOK, Fields, Pcs
    <3>2. Quiet /\ RightPlace
      BY <1>0, <2>1, <2>4, <3>1 DEF Quiet, Keeps, RightPlace
    <3> QED BY <3>2, QuietStep
  <2>5. CASE job' = EndPass(job, dirty = {}, FALSE)
    <3>1. /\ Keeps(job, job') /\ job'.ret = 0 /\ job'.synced = job.synced
          /\ job'.pc \in {"sleep_unsynced", "sleep_synced", "loop", "exit"}
          /\ job'.pc = "sleep_unsynced" => ~ job'.synced
          /\ job'.pc = "exit" => ~ job.synced /\ job.cancelled /\ job'.cancelled = job.cancelled
      BY <1>0, <2>5, EndPassFacts
    <3>2. Quiet
      BY <1>0, <2>1, <3>1 DEF Quiet, Keeps
    <3>3. RightPlace
      BY <2>1, <3>1 DEF RightPlace
    <3> QED BY <3>2, <3>3, QuietStep
  <2> QED BY <2>1, <2>2, <2>3, <2>4, <2>5
<1>3. CASE FlushDone
  <2> DEFINE j == [job EXCEPT !.synced = TRUE]
             should == job.shouldComplete \/ job.cancelled
  <2>1. /\ job.pc = "flush" /\ UNCHANGED <<dirty, iter, ops, src, tgt, allocated, guest, writes, errors>>
        /\ job' = IF should /\ dirty = {} THEN [j EXCEPT !.pc = "drain"]
                  ELSE EndPass(j, dirty = {}, should)
    BY <1>3 DEF FlushDone, source, target
  <2>2. Keeps(job, j) /\ j.synced /\ j.cancelled = job.cancelled
    BY <1>0 DEF Keeps, JobOK, Fields, Pcs
  <2>3. ops = {}
    BY <1>0, <2>1 DEF Control
  <2> HIDE DEF j
  <2>4. CASE should /\ dirty = {}
    <3>1. job' = [j EXCEPT !.pc = "drain"]
      BY <2>1, <2>4
    <3>2. Keeps(j, job') /\ job'.pc = "drain"
      BY <2>2, <3>1 DEF Keeps, JobOK, Fields, Pcs
    <3>3. Quiet /\ RightPlace
      BY <1>0, <2>1, <2>2, <2>3, <3>2 DEF Quiet, Keeps, RightPlace
    <3> QED BY <3>3, QuietStep
  <2>5. CASE ~ (should /\ dirty = {})
    <3>1. job' = EndPass(j, dirty = {}, should)
      BY <2>1, <2>5
    <3>b. should \in BOOLEAN /\ (dirty = {}) \in BOOLEAN
      OBVIOUS
    <3> HIDE DEF should
    <3>2. /\ Keeps(j, job') /\ job'.ret = 0 /\ job'.synced = j.synced
          /\ job'.pc \in {"sleep_unsynced", "sleep_synced", "loop", "exit"}
          /\ job'.pc = "sleep_unsynced" => ~ job'.synced
          /\ job'.pc = "exit" => ~ j.synced \/ (dirty = {} /\ should)
      <4> DEFINE clean == dirty = {}
      <4>1. job' = EndPass(j, clean, should) /\ clean \in BOOLEAN /\ JobOK(j)
        BY <2>2, <3>1 DEF Keeps
      <4>2. (dirty = {}) <=> clean
        OBVIOUS
      <4> HIDE DEF clean
      <4> QED BY <3>b, <4>1, <4>2, EndPassFacts
    <3>3. Quiet
      BY <1>0, <2>1, <2>2, <3>2 DEF Quiet, Keeps
    <3>4. job'.pc # "exit"
      BY <2>2, <2>5, <3>2
    <3>5. RightPlace
      BY <2>1, <3>2, <3>4 DEF RightPlace
    <3> QED BY <3>3, <3>5, QuietStep
  <2> QED BY <2>4, <2>5
<1>4. CASE FlushFails
  <2> DEFINE j == ErrorAction(job, job.onTarget)
  <2>1. /\ job.pc = "flush" /\ errors' \in 0 .. MaxErrors
        /\ UNCHANGED <<dirty, iter, ops, src, tgt, allocated, guest, writes>>
        /\ job' = IF job.onTarget = "report" THEN [j EXCEPT !.pc = "exit", !.ret = -1]
                  ELSE EndPass(j, TRUE, FALSE)
    BY <1>0, <1>4 DEF FlushFails, source, target
  <2>2. Keeps(job, j) /\ j.cancelled = job.cancelled /\ ~ j.synced
    BY <1>0, ErrorActionFacts
  <2> HIDE DEF j
  <2>3. CASE job' = [j EXCEPT !.pc = "exit", !.ret = -1]
    <3>1. Keeps(j, job') /\ job'.pc = "exit" /\ job'.ret = -1
      BY <2>2, <2>3 DEF Keeps, JobOK, Fields, Pcs
    <3>2. Quiet
      BY <2>1, <2>2, <3>1 DEF Quiet, Keeps
    <3>3. job'.ret < 0 /\ job'.ret # 0
      BY <3>1
    <3>4. job.pc = "flush"
      BY <2>1
    <3>5. RightPlace
      BY <3>1, <3>3, <3>4 DEF RightPlace
    <3> QED BY <3>2, <3>5, QuietStep
  <2>4. CASE job' = EndPass(j, TRUE, FALSE)
    <3>1. /\ Keeps(j, job') /\ job'.ret = 0 /\ job'.synced = j.synced
          /\ job'.pc \in {"sleep_unsynced", "sleep_synced", "loop", "exit"}
          /\ job'.pc = "sleep_unsynced" => ~ job'.synced
          /\ job'.pc = "exit" => ~ j.synced /\ j.cancelled /\ job'.cancelled = j.cancelled
      BY <2>2, <2>4, EndPassFacts DEF Keeps
    <3>2. Quiet
      BY <2>1, <2>2, <3>1 DEF Quiet, Keeps
    <3>3. RightPlace
      BY <2>1, <2>2, <3>1 DEF RightPlace
    <3> QED BY <3>2, <3>3, QuietStep
  <2> QED BY <2>1, <2>3, <2>4
<1>5. CASE Drained
  <2>1. /\ job.pc = "drain" /\ UNCHANGED <<dirty, iter, ops, src, tgt, allocated, guest, writes, errors>>
        /\ job' = EndPass(job, dirty = {}, TRUE) /\ \A c \in Chunks : guest[c] = "none"
    BY <1>5 DEF Drained, AfterDrain, source, target
  <2>2. ops = {}
    BY <1>0, <2>1 DEF Control
  <2>3. /\ Keeps(job, job') /\ job'.ret = 0 /\ job'.synced = job.synced
        /\ job'.pc \in {"sleep_unsynced", "sleep_synced", "loop", "exit"}
        /\ job'.pc = "sleep_unsynced" => ~ job'.synced
        /\ job'.pc = "exit" => (job.cancelled /\ job'.cancelled = job.cancelled) \/ dirty = {}
    BY <1>0, <2>1, EndPassFacts
  <2>4. Quiet
    BY <1>0, <2>1, <2>3 DEF Quiet, Keeps
  <2>5. RightPlace
    BY <2>1, <2>2, <2>3 DEF RightPlace
  <2> QED BY <2>4, <2>5, QuietStep
<1>6. CASE Exit
  <2>1. /\ job.pc = "exit" /\ ops = {} /\ job' = [job EXCEPT !.pc = "done"]
        /\ UNCHANGED <<dirty, iter, ops, src, tgt, allocated, guest, writes, errors>>
    BY <1>6 DEF Exit, source, target
  <2>2. KeepsAll(job, job') /\ job'.pc = "done"
    BY <1>0, <2>1 DEF KeepsAll, Keeps, JobOK, Fields, Pcs
  <2>3. Quiet
    BY <1>0, <2>1, <2>2 DEF Quiet, KeepsAll, Keeps
  <2>4. RightPlace
    BY <1>0, <2>1, <2>2 DEF RightPlace, Control, KeepsAll
  <2> QED BY <2>3, <2>4, QuietStep
<1> QED BY <1>1, <1>2, <1>3, <1>4, <1>5, <1>6

-----------------------------------------------------------------------------
(* The guest, and the first look at the disk.                              *)

\* More dirty chunks do not confuse the iterator.
LEMMA IterGrow ==
    ASSUME NEW i, IterOK(i), dirty \subseteq dirty'
    PROVE  /\ i = [bits |-> i.bits, words |-> i.words]
           /\ i.bits \subseteq dirty' /\ i.words \subseteq Nat
           /\ \A w \in i.words : InWord(dirty', w) # {}
           /\ \A c \in i.bits, w \in i.words : Word(c) < w
  BY DEF IterOK, InWord

\* A write of the guest, whose chunk is dirty when it completes.
LEMMA GuestStep ==
    ASSUME IInv, NEW c \in Chunks, Submit(c) \/ Land(c) \/ GuestDone(c)
    PROVE  IInv'
<1>0. Shape /\ Limits /\ IterOK(iter) /\ IterPast /\ CowOK /\ OpsOK /\ Control /\ Data
  BY DEF IInv
<1>1. /\ UNCHANGED <<job, iter, ops, tgt, allocated, errors>> /\ ~ Running
      /\ dirty' \in {dirty, dirty \cup {c}} /\ src' \in {src, [src EXCEPT ![c] = 1 + writes]}
      /\ guest' \in {[guest EXCEPT ![c] = x] : x \in {"none", "sent", "landed"}}
      /\ writes' \in {writes, writes + 1} /\ (writes' # writes => writes < MaxWrites)
      /\ guest[c] # "none" \/ ~ Ended
  BY DEF Submit, Land, GuestDone, target
<1>2. Copying' = Copying
  BY <1>1 DEF Copying
<1>3. Shape'
  <2>1. src' \in [Chunks -> 0 .. 1 + MaxWrites] /\ writes' \in 0 .. MaxWrites
    BY <1>0, <1>1, Constants DEF Shape
  <2>2. guest' \in [Chunks -> {"none", "sent", "landed"}] /\ dirty' \subseteq Chunks
    BY <1>0, <1>1 DEF Shape
  <2> QED BY <1>0, <1>1, <2>1, <2>2 DEF Shape
<1>4. Limits'
  BY <1>0, <1>1, <1>2 DEF Limits, BufFree
<1>5. IterOK(iter)'
  BY <1>0, <1>1, IterGrow DEF IterOK
<1>6. IterPast'
  BY <1>0, <1>1 DEF IterPast
<1>7. CowOK' /\ OpsOK'
  BY <1>0, <1>1, <1>2 DEF CowOK, OpsOK, Rounded
<1>8. Control'
  <2>1. ~ (job.pc \in {"exit", "done"} /\ job.ret = 0 /\ ~ job.cancelled)
    BY <1>0, <1>1 DEF Control, Running, Ended
  <2> QED BY <1>0, <1>1, <2>1 DEF Control
<1>9. Data'
  <2>1. ASSUME NEW d \in Chunks, Tracked(d) PROVE Tracked(d)'
    <3>1. CASE GuestDone(c)
      BY <1>0, <2>1, <3>1 DEF GuestDone, Tracked, Shape
    <3>2. CASE Submit(c) \/ Land(c)
      BY <1>0, <2>1, <3>2 DEF Submit, Land, Tracked, Shape
    <3> QED BY <3>1, <3>2
  <2>2. ASSUME NEW d \in Chunks PROVE src'[d] = src[d] \/ Tracked(d)'
    BY <1>0 DEF Submit, Land, GuestDone, Shape, Tracked
  <2>3. \A d : Unscanned(d)' <=> Unscanned(d)
    BY <1>1 DEF Unscanned
  <2>4. \A op \in ops : op.chunks \subseteq Chunks
    BY <1>0 DEF Shape, OpOK
  <2>5. ASSUME NEW d \in Chunks, tgt[d] # src'[d]
        PROVE  Tracked(d)' \/ d \in Copying \/ Unscanned(d)'
    BY <1>0, <2>1, <2>2, <2>3, <2>5 DEF Data
  <2>6. ASSUME NEW op \in ops, op.stage = "write"
        PROVE  /\ op.val \in [op.chunks -> 0 .. 1 + MaxWrites]
               /\ \A d \in op.chunks : op.val[d] # src'[d] => Tracked(d)'
    BY <1>0, <2>1, <2>2, <2>4, <2>6 DEF Data
  <2> QED BY <1>1, <1>2, <2>5, <2>6 DEF Data
<1> QED BY <1>3, <1>4, <1>5, <1>6, <1>7, <1>8, <1>9 DEF IInv

\* mirror_run looks at a chunk of the source.
LEMMA ScanStep == ASSUME IInv, Scan PROVE IInv'
<1>0. Shape /\ Limits /\ IterOK(iter) /\ IterPast /\ CowOK /\ OpsOK /\ Control /\ Data
  BY DEF IInv
<1>1. /\ job.pc = "scan" /\ UNCHANGED <<ops, src, tgt, allocated, guest, writes, errors>>
      /\ dirty' = IF src[job.at] # 0 THEN dirty \cup {job.at} ELSE dirty
      /\ \/ /\ job.at < N - 1 /\ job' = [job EXCEPT !.at = @ + 1] /\ iter' = iter
         \/ /\ ~ (job.at < N - 1) /\ job' = [job EXCEPT !.pc = "loop"] /\ iter' = IterInit(dirty')
  BY DEF Scan, source, target
<1>2. JobOK(job) /\ job.at \in Nat /\ job.at < N /\ N \in Nat
  BY <1>0, Constants DEF Shape, JobOK, Chunks
<1>3. /\ JobOK(job') /\ job'.inFlight = job.inFlight /\ job'.cow = job.cow
      /\ job'.backing = job.backing
      /\ \/ job'.pc = "scan" /\ job'.at = job.at + 1 /\ iter' = iter
         \/ job'.pc = "loop" /\ job.at = N - 1 /\ iter' = IterInit(dirty')
  <2>1. CASE job.at < N - 1
    <3>1. job' = [job EXCEPT !.at = job.at + 1] /\ iter' = iter
      BY <1>1, <2>1
    <3>2. job.at + 1 \in Chunks
      BY <1>2, <2>1 DEF Chunks
    <3> QED BY <1>1, <1>2, <3>1, <3>2 DEF JobOK, Fields
  <2>2. CASE ~ (job.at < N - 1)
    <3>1. job' = [job EXCEPT !.pc = "loop"] /\ iter' = IterInit(dirty')
      BY <1>1, <2>2
    <3>2. job.at = N - 1
      BY <1>2, <2>2
    <3> QED BY <1>2, <3>1, <3>2 DEF JobOK, Fields, Pcs
  <2> QED BY <2>1, <2>2
<1>4. ops = {} /\ Copying' = Copying
  BY <1>0, <1>1 DEF Control, Copying
<1>5. dirty \subseteq dirty' /\ dirty' \in SUBSET Chunks
  BY <1>0, <1>1, <1>2 DEF Shape, JobOK
<1>6. Shape'
  BY <1>0, <1>1, <1>3, <1>5 DEF Shape
<1>7. Limits' /\ IterPast'
  BY <1>0, <1>1, <1>3, <1>4 DEF Limits, BufFree, IterPast
<1>8. IterOK(iter)'
  <2>1. CASE iter' = iter
    BY <1>0, <1>5, <2>1, IterGrow DEF IterOK
  <2>2. CASE iter' = IterInit(dirty')
    BY <1>5, <2>2, IterInitFacts DEF IterOK
  <2> QED BY <1>3, <2>1, <2>2
<1>9. CowOK' /\ OpsOK'
  BY <1>0, <1>1, <1>3, <1>4 DEF CowOK, OpsOK, Rounded
<1>10. Control'
  BY <1>0, <1>1, <1>3, <1>4 DEF Control
<1>11. Data'
  <2>1. ASSUME NEW c \in Chunks, tgt[c] # src[c]
        PROVE  Tracked(c)' \/ c \in Copying \/ Unscanned(c)'
    <3>1. Tracked(c) \/ c \in Copying \/ c >= job.at
      BY <1>0, <1>1, <2>1 DEF Data, Unscanned
    <3>2. Tracked(c) => Tracked(c)'
      BY <1>1, <1>5 DEF Tracked
    <3>3. CASE c = job.at
      <4>1. CASE src[c] # 0
        BY <1>1, <3>3, <4>1 DEF Tracked
      <4>2. CASE src[c] = 0
        BY <1>0, <1>1, <2>1, <4>2 DEF Control
      <4> QED BY <4>1, <4>2
    <3>4. CASE c # job.at /\ c >= job.at
      <4>1. c \in Nat /\ c < N /\ c >= job.at + 1
        BY <1>2, <3>4, Constants DEF Chunks
      <4> QED BY <1>2, <1>3, <4>1 DEF Unscanned
    <3> QED BY <3>1, <3>2, <3>3, <3>4
  <2> QED BY <1>1, <1>4, <2>1 DEF Data
<1> QED BY <1>6, <1>7, <1>8, <1>9, <1>10, <1>11 DEF IInv

-----------------------------------------------------------------------------
(* mirror_iteration.                                                       *)

\* The next dirty chunk, at the end of the bitmap the first one.
LEMMA NextDirtyFacts ==
    ASSUME dirty \in SUBSET Chunks, IterOK(iter), dirty # {}
    PROVE  /\ NextDirty[1] \in dirty /\ IterOK(NextDirty[2])
           /\ \A c \in NextDirty[2].bits : c > NextDirty[1]
           /\ \A w \in NextDirty[2].words : w > Word(NextDirty[1])
<1>1. CASE iter.bits = {} /\ iter.words = {}
  <2> DEFINE i == IterInit(dirty)
  <2>1. IterNext(iter) = <<-1, iter>>
    BY <1>1, IterNextFacts
  <2>2. NextDirty = IterNext(i)
    BY <2>1 DEF NextDirty
  <2>3. IterOK(i) /\ (i.bits # {} \/ i.words # {})
    BY IterInitFacts DEF IterOK
  <2> HIDE DEF i
  <2> QED BY <2>2, <2>3, IterNextFacts
<1>2. CASE iter.bits # {} \/ iter.words # {}
  <2>1. IterNext(iter)[1] \in Nat
    BY <1>2, IterNextFacts, Constants
  <2>2. NextDirty = IterNext(iter)
    BY <2>1 DEF NextDirty
  <2> QED BY <1>2, <2>2, IterNextFacts
<1> QED BY <1>1, <1>2

\* Taking the next dirty chunk from the iterator keeps the invariant.
LEMMA NextChunkStep == ASSUME IInv, NextChunk PROVE IInv'
<1>0. Shape /\ Limits /\ IterOK(iter) /\ IterPast /\ CowOK /\ OpsOK /\ Control /\ Data
  BY DEF IInv
<1>1. /\ job.pc = "loop" /\ ~ MustYield /\ dirty # {}
      /\ iter' = NextDirty[2]
      /\ job' = [job EXCEPT !.pc = "chunk", !.at = NextDirty[1], !.fresh = FALSE]
      /\ UNCHANGED <<dirty, ops, src, tgt, allocated, guest, writes, errors>>
  BY DEF NextChunk, source, target
<1>2. dirty \in SUBSET Chunks /\ JobOK(job)
  BY <1>0 DEF Shape
<1>3. /\ NextDirty[1] \in dirty /\ IterOK(NextDirty[2])
      /\ \A c \in NextDirty[2].bits : c > NextDirty[1]
      /\ \A w \in NextDirty[2].words : w > Word(NextDirty[1])
  BY <1>0, <1>1, <1>2, NextDirtyFacts
<1>4. /\ JobOK(job') /\ job'.pc = "chunk" /\ job'.at = NextDirty[1]
      /\ job'.inFlight = job.inFlight /\ job'.cow = job.cow /\ job'.backing = job.backing
  BY <1>1, <1>2, <1>3 DEF JobOK, Fields, Pcs
<1>5. Copying' = Copying
  BY <1>1 DEF Copying
<1>6. Shape'
  BY <1>0, <1>1, <1>4 DEF Shape
<1>7. Limits'
  <2>1. Cardinality(ops) \in Nat /\ Cardinality(ops) # MaxInFlight
    BY <1>0, <1>1, FS_CardinalityType DEF Shape, MustYield
  <2> QED BY <1>0, <1>1, <1>5, <2>1, Constants DEF Limits, BufFree
<1>8. IterOK(iter)' /\ IterPast'
  BY <1>1, <1>3, <1>4 DEF IterOK, IterPast
<1>9. CowOK' /\ OpsOK'
  BY <1>0, <1>1, <1>4, <1>5 DEF CowOK, OpsOK, Rounded
<1>10. Control'
  BY <1>4 DEF Control
<1>11. Data'
  <2>1. \A c \in Chunks : Tracked(c) => Tracked(c)'
    BY <1>1 DEF Tracked
  <2>2. \A c : ~ Unscanned(c)
    BY <1>1 DEF Unscanned
  <2>3. ASSUME NEW c \in Chunks, tgt[c] # src[c] PROVE Tracked(c)' \/ c \in Copying
    BY <1>0, <2>1, <2>2, <2>3 DEF Data
  <2>4. ASSUME NEW op \in ops, op.stage = "write"
        PROVE  /\ op.val \in [op.chunks -> 0 .. 1 + MaxWrites]
               /\ \A d \in op.chunks : op.val[d] # src[d] => Tracked(d)'
    BY <1>0, <1>1, <2>4 DEF Data, Tracked
  <2> QED BY <1>1, <1>5, <2>3, <2>4 DEF Data
<1> QED BY <1>6, <1>7, <1>8, <1>9, <1>10, <1>11 DEF IInv

\* An operation starts: its chunks are those of no other one, there are
\* buffers for them, and the iterator goes past them.
LEMMA StartOpStep == ASSUME IInv, StartOp PROVE IInv'
<1>0. Shape /\ Limits /\ IterOK(iter) /\ IterPast /\ CowOK /\ OpsOK /\ Control /\ Data
  BY DEF IInv
<1> DEFINE c == job.at
           end == End(c)
           chunks == First(c) .. end - 1
           new == [chunks |-> chunks, stage |-> "read", val |-> <<>>]
<1>1. /\ job.pc = "chunk" /\ c \notin job.inFlight /\ After(c) - First(c) <= BufFree
      /\ ops' = ops \cup {new} /\ dirty' = dirty \ chunks
      /\ iter' = Advanced(c, end)
      /\ job' = [job EXCEPT !.pc = "loop", !.inFlight = @ \cup chunks]
      /\ UNCHANGED <<src, tgt, allocated, guest, writes, errors>>
  BY DEF StartOp, ChunkReady, source, target
<1>2. JobOK(job) /\ c \in Chunks /\ c \in Nat /\ N \in Nat /\ dirty \subseteq Chunks
  BY <1>0, Constants DEF Shape, JobOK
<1>3. Run(c, end)
  BY <1>0, <1>1, <1>2, EndFacts
<1>4. /\ First(c) \in Nat /\ First(c) <= c /\ end \in c + 1 .. N /\ end - First(c) <= BufFree
      /\ Rounded(chunks) /\ \A d \in chunks : d \notin Copying
  BY <1>2, <1>3, RoundFacts, Constants DEF Run
<1>5. chunks \subseteq Chunks /\ c \in chunks /\ chunks # {}
  BY <1>2, <1>4 DEF Chunks
<1>6. Cardinality(chunks) = end - First(c) /\ IsFiniteSet(chunks)
  <2>1. First(c) \in Int /\ end - 1 \in Int /\ ~ (First(c) > end - 1)
    BY <1>2, <1>4
  <2>2. Cardinality(First(c) .. end - 1) = (end - 1) - First(c) + 1
        /\ IsFiniteSet(First(c) .. end - 1)
    BY <2>1, FS_Interval
  <2>3. (end - 1) - First(c) + 1 = end - First(c)
    BY <1>4
  <2> QED BY <2>2, <2>3
<1> HIDE DEF end, chunks
<1>7. OpOK(new) /\ new.chunks = chunks /\ new.stage = "read"
  BY <1>5 DEF OpOK
<1>8. /\ JobOK(job') /\ job'.pc = "loop" /\ job'.inFlight = job.inFlight \cup chunks
      /\ job'.cow = job.cow /\ job'.backing = job.backing
  BY <1>1, <1>2, <1>5 DEF JobOK, Fields, Pcs
<1> HIDE DEF new
<1>9. Copying' = Copying \cup chunks
  BY <1>1, <1>7 DEF Copying
<1>10. Shape'
  <2>1. IsFiniteSet(ops')
    BY <1>0, <1>1, FS_AddElement DEF Shape
  <2> QED BY <1>0, <1>1, <1>2, <1>7, <1>8, <2>1 DEF Shape
<1>11. Limits'
  <2>1. Cardinality(ops') <= MaxInFlight
    <3>1. Cardinality(ops) \in Nat /\ Cardinality(ops) < MaxInFlight
      BY <1>0, <1>1, FS_CardinalityType DEF Shape, Limits
    <3>2. Cardinality(ops') = IF new \in ops THEN Cardinality(ops) ELSE Cardinality(ops) + 1
      BY <1>0, <1>1, FS_AddElement DEF Shape
    <3> QED BY <3>1, <3>2, Constants
  <2>2. BufFree' >= 0
    <3>1. Cardinality(Copying) \in Nat /\ IsFiniteSet(Copying) /\ BufFree \in Int
      BY <1>0, BufFreeInt, ChunksFinite
    <3>2. Copying \cap chunks = {}
      BY <1>4
    <3>3. Cardinality(Copying \cup chunks) =
            Cardinality(Copying) + Cardinality(chunks) - Cardinality(Copying \cap chunks)
      BY <1>6, <3>1, FS_Union, Zenon
    <3>4. Cardinality(Copying \cap chunks) = 0
      BY <3>2, FS_EmptySet
    <3>5. Cardinality(Copying') = Cardinality(Copying) + (end - First(c))
      BY <1>4, <1>6, <1>9, <3>1, <3>3, <3>4
    <3> QED BY <1>4, <3>1, <3>5, Constants DEF BufFree
  <2> QED BY <1>8, <2>1, <2>2 DEF Limits
<1>12. IterOK(iter)'
  <2>1. Ahead(iter, c)
    <3>1. ASSUME NEW w \in iter.words, NEW d \in InWord(dirty, w) PROVE d > c
      <4>1. d \in Chunks /\ Word(d) = w /\ w > Word(c)
        BY <1>0, <1>1, <1>2 DEF InWord, IterPast
      <4>2. Word(c) \in Nat /\ Word(d) \in Nat /\ (Word(c) < Word(d) => c < d)
        BY <1>2, <4>1, WordFacts
      <4>3. d \in Nat
        BY <4>1, Constants
      <4> QED BY <1>2, <4>1, <4>2, <4>3
    <3> QED BY <1>0, <1>1, <3>1 DEF Ahead, IterPast
  <2>2. end \in Nat /\ c < end
    BY <1>2, <1>4
  <2>3. IterOK(iter') /\ Ahead(iter', end - 1)
    BY <1>0, <1>1, <1>2, <2>1, <2>2, AdvancedFacts
  <2>4. \A d \in chunks : ~ (d > end - 1)
    BY <1>2, <1>4 DEF chunks
  <2>5. iter'.bits \subseteq dirty'
    BY <1>1, <2>3, <2>4 DEF Ahead, IterOK
  <2>6. \A w \in iter'.words : InWord(dirty', w) = InWord(dirty, w)
    BY <1>1, <2>3, <2>4 DEF Ahead, InWord
  <2> QED BY <2>3, <2>5, <2>6 DEF IterOK
<1>13. IterPast' /\ Control'
  BY <1>8 DEF IterPast, Control
<1>14. CowOK'
  BY <1>0, <1>1, <1>8 DEF CowOK
<1>15. OpsOK'
  <2>1. \A op \in ops : op.chunks \cap chunks = {}
    BY <1>4 DEF Copying
  <2>2. \A a, b \in ops' : a = b \/ a.chunks \cap b.chunks = {}
    BY <1>0, <1>1, <1>7, <2>1 DEF OpsOK
  <2>3. \A op \in ops' : Rounded(op.chunks)'
    BY <1>0, <1>1, <1>4, <1>7, <1>8 DEF OpsOK, Rounded
  <2> QED BY <1>0, <1>8, <1>9, <2>2, <2>3 DEF OpsOK
<1>16. Data'
  <2>1. \A d : ~ Unscanned(d)
    BY <1>1 DEF Unscanned
  <2>2. ASSUME NEW d \in Chunks, tgt[d] # src[d] PROVE Tracked(d)' \/ d \in Copying'
    BY <1>0, <1>1, <1>9, <2>1, <2>2 DEF Data, Tracked
  <2>3. ASSUME NEW op \in ops, op.stage = "write"
        PROVE  /\ op.val \in [op.chunks -> 0 .. 1 + MaxWrites]
               /\ \A d \in op.chunks : op.val[d] # src[d] => Tracked(d)'
    <3>1. \A d \in op.chunks : d \notin chunks
      BY <1>4 DEF Copying
    <3> QED BY <1>0, <1>1, <2>3, <3>1 DEF Data, Tracked
  <2> QED BY <1>1, <1>7, <2>2, <2>3 DEF Data
<1> QED BY <1>10, <1>11, <1>12, <1>13, <1>14, <1>15, <1>16 DEF IInv

-----------------------------------------------------------------------------
(* The completion of reads and writes.                                     *)

\* mirror_read_complete hands the data over to the write.
LEMMA ReadDoneStep == ASSUME IInv, NEW op \in ops, ReadDone(op) PROVE IInv'
<1>0. Shape /\ Limits /\ IterOK(iter) /\ IterPast /\ CowOK /\ OpsOK /\ Control /\ Data
  BY DEF IInv
<1> DEFINE new == [op EXCEPT !.stage = "write", !.val = [c \in op.chunks |-> src[c]]]
<1>1. /\ op.stage = "read" /\ ops' = (ops \ {op}) \cup {new}
      /\ UNCHANGED <<job, dirty, iter, src, tgt, allocated, guest, writes, errors>>
  BY DEF ReadDone, source, target
<1>2. OpOK(op) /\ op.chunks \subseteq Chunks
  BY <1>0 DEF Shape, OpOK
<1>3. OpOK(new) /\ new.chunks = op.chunks /\ new.stage = "write"
      /\ new.val = [c \in op.chunks |-> src[c]]
  BY <1>2 DEF OpOK
<1>4. new.val \in [op.chunks -> 0 .. 1 + MaxWrites] /\ \A c \in op.chunks : new.val[c] = src[c]
  BY <1>0, <1>2, <1>3 DEF Shape
<1> HIDE DEF new
<1>5. Copying' = Copying
  BY <1>1, <1>3 DEF Copying
<1>6. IsFiniteSet(ops') /\ Cardinality(ops') <= Cardinality(ops)
  <2>1. IsFiniteSet(ops) /\ Cardinality(ops) \in Nat
    BY <1>0, FS_CardinalityType DEF Shape
  <2>2. IsFiniteSet(ops \ {op}) /\ Cardinality(ops \ {op}) = Cardinality(ops) - 1
    BY <2>1, FS_RemoveElement
  <2>3. /\ IsFiniteSet((ops \ {op}) \cup {new})
        /\ Cardinality((ops \ {op}) \cup {new}) =
             IF new \in ops \ {op} THEN Cardinality(ops \ {op}) ELSE Cardinality(ops \ {op}) + 1
    BY <2>2, FS_AddElement
  <2> QED BY <1>1, <2>1, <2>2, <2>3
<1>7. Shape'
  BY <1>0, <1>1, <1>3, <1>6 DEF Shape
<1>8. Limits'
  <2>1. Cardinality(ops) \in Nat /\ Cardinality(ops') \in Nat /\ MaxInFlight \in Nat
    BY <1>0, <1>6, FS_CardinalityType, Constants DEF Shape
  <2> QED BY <1>0, <1>1, <1>5, <1>6, <2>1 DEF Limits, BufFree
<1>9. IterOK(iter)' /\ IterPast' /\ CowOK'
  BY <1>0, <1>1 DEF IterOK, IterPast, CowOK
<1>10. OpsOK'
  <2>1. \A a, b \in ops' : a = b \/ a.chunks \cap b.chunks = {}
    BY <1>0, <1>1, <1>3 DEF OpsOK
  <2>2. \A x \in ops' : Rounded(x.chunks)'
    BY <1>0, <1>1, <1>3 DEF OpsOK, Rounded
  <2> QED BY <1>0, <1>1, <1>5, <2>1, <2>2 DEF OpsOK
<1>11. Control'
  BY <1>0, <1>1 DEF Control
<1>12. Data'
  <2>1. \A c : Tracked(c) => Tracked(c)'
    BY <1>1 DEF Tracked
  <2>2. ASSUME NEW c \in Chunks, tgt[c] # src[c]
        PROVE  Tracked(c)' \/ c \in Copying \/ Unscanned(c)'
    BY <1>0, <1>1, <2>1, <2>2 DEF Data, Unscanned
  <2>3. ASSUME NEW x \in ops', x.stage = "write"
        PROVE  /\ x.val \in [x.chunks -> 0 .. 1 + MaxWrites]
               /\ \A c \in x.chunks : x.val[c] # src[c] => Tracked(c)'
    <3>1. CASE x = new
      BY <1>3, <1>4, <3>1
    <3>2. CASE x \in ops
      BY <1>0, <2>1, <2>3, <3>2 DEF Data
    <3> QED BY <1>1, <3>1, <3>2
  <2> QED BY <1>1, <1>5, <2>2, <2>3 DEF Data
<1> QED BY <1>7, <1>8, <1>9, <1>10, <1>11, <1>12 DEF IInv

\* An operation is over: mirror_iteration_done takes its chunks out of flight.
OpOver(op) ==
    /\ ops' = ops \ {op} /\ iter' = iter
    /\ dirty \subseteq dirty' /\ dirty' \subseteq Chunks
    /\ UNCHANGED <<src, guest, writes>> /\ errors' \in 0 .. MaxErrors
    /\ JobOK(job') /\ job'.at = job.at /\ job'.backing = job.backing
    /\ job'.ret = job.ret /\ (job'.synced => job.synced) /\ job'.cancelled = job.cancelled
    /\ job'.inFlight = job.inFlight \ WholeChunks(op)
    /\ Wakes(job, job')

\* The end of an operation frees its buffers and its bits, whatever it did to the target.
LEMMA OpOverFacts ==
    ASSUME IInv, NEW op \in ops, OpOver(op),
           tgt' \in [Chunks -> Lost .. 1 + MaxWrites], job.cow \subseteq job'.cow
    PROVE  /\ Shape' /\ Limits' /\ IterOK(iter)' /\ IterPast' /\ OpsOK' /\ Control'
           /\ Copying' = Copying \ op.chunks
<1>0. Shape /\ Limits /\ IterOK(iter) /\ IterPast /\ CowOK /\ OpsOK /\ Control
  BY DEF IInv
<1>1. ops' = ops \ {op} /\ job.pc \notin {"scan", "flush", "drain", "done"}
  BY <1>0 DEF OpOver, Control
<1>2. Copying' = Copying \ op.chunks
  <2>1. \A x \in ops : x = op \/ x.chunks \cap op.chunks = {}
    BY <1>0 DEF OpsOK
  <2> QED BY <1>1, <2>1 DEF Copying
<1>3. IsFiniteSet(ops') /\ Cardinality(ops') < Cardinality(ops)
  <2>1. IsFiniteSet(ops) /\ Cardinality(ops) \in Nat
    BY <1>0, FS_CardinalityType DEF Shape
  <2>2. IsFiniteSet(ops \ {op}) /\ Cardinality(ops \ {op}) = Cardinality(ops) - 1
    BY <2>1, FS_RemoveElement
  <2> QED BY <1>1, <2>1, <2>2
<1>4. Shape'
  BY <1>0, <1>1, <1>3 DEF Shape, OpOver
<1>5. Limits'
  <2>1. /\ Cardinality(ops) \in Nat /\ Cardinality(ops') \in Nat /\ MaxInFlight \in Nat
        /\ Cardinality(ops) <= MaxInFlight
    BY <1>0, <1>3, FS_CardinalityType, Constants DEF Shape, Limits
  <2>2. IsFiniteSet(Copying) /\ Cardinality(Copying) \in Nat /\ BufFree \in Int
    BY <1>0, BufFreeInt, ChunksFinite
  <2>3. Cardinality(Copying') <= Cardinality(Copying) /\ Cardinality(Copying') \in Nat
    BY <1>2, <2>2, FS_Subset, FS_CardinalityType
  <2>4. BufFree' >= 0
    BY <1>0, <2>2, <2>3, Constants DEF Limits, BufFree
  <2>5. Cardinality(ops') < MaxInFlight
    BY <1>3, <2>1
  <2> QED BY <2>1, <2>4, <2>5 DEF Limits
<1>6. IterOK(iter)'
  BY <1>0, IterGrow DEF OpOver, IterOK
<1>7. IterPast'
  BY <1>0 DEF IterPast, OpOver, Wakes
<1>8. OpsOK'
  <2>1. \A a, b \in ops' : a = b \/ a.chunks \cap b.chunks = {}
    BY <1>0, <1>1 DEF OpsOK
  <2>2. \A x \in ops' : Rounded(x.chunks)'
    BY <1>0, <1>1 DEF OpsOK, Rounded
  <2>3. Copying' \subseteq job'.inFlight
    BY <1>0, <1>2 DEF OpsOK, OpOver, WholeChunks
  <2>4. ~ PartialTail => job'.inFlight = Copying'
    BY <1>0, <1>2 DEF OpsOK, OpOver, WholeChunks
  <2> QED BY <2>1, <2>2, <2>3, <2>4 DEF OpsOK
<1>9. Control'
  <2>1. job'.pc \notin {"scan", "flush", "drain", "done"}
    BY <1>1 DEF OpOver, Wakes
  <2>2. job'.pc = "sleep_unsynced" => ~ job'.synced
    BY <1>0 DEF Control, OpOver, Wakes
  <2>3. job'.pc = "exit" => job'.ret < 0 \/ (~ job'.synced /\ job'.cancelled)
    BY <1>0 DEF Control, OpOver, Wakes
  <2>4. ~ (job'.pc = "exit" /\ job'.ret = 0 /\ ~ job'.cancelled)
    BY <1>0 DEF Control, OpOver, Wakes
  <2> QED BY <2>1, <2>2, <2>3, <2>4 DEF Control
<1> QED BY <1>2, <1>4, <1>5, <1>6, <1>7, <1>8, <1>9

\* A write of the target reaches no chunk that it was not meant for: a cluster
\* that it allocates without the backing file it fills.
LEMMA TargetWriteFacts ==
    ASSUME IInv, NEW op \in ops, op.stage = "write", TargetWrite(op)
    PROVE  /\ tgt' \in [Chunks -> Lost .. 1 + MaxWrites]
           /\ \A c \in Chunks : tgt'[c] = IF c \in op.chunks THEN op.val[c] ELSE tgt[c]
           /\ allocated' = allocated \cup {Cluster(c) : c \in op.chunks}
<1>0. Shape /\ CowOK /\ OpsOK /\ Data
  BY DEF IInv
<1> DEFINE new == {Cluster(c) : c \in op.chunks} \ allocated
<1>1. /\ tgt' = [c \in Chunks |->
                   IF c \in op.chunks THEN op.val[c]
                   ELSE IF Cluster(c) \in new /\ ~ job.backing THEN Lost ELSE tgt[c]]
      /\ allocated' = allocated \cup new
  BY DEF TargetWrite
<1>2. ASSUME NEW c \in Chunks, c \notin op.chunks, Cluster(c) \in new, ~ job.backing PROVE FALSE
  <2>1. PICK d \in op.chunks : Cluster(d) = Cluster(c)
    BY <1>2
  <2>2. d \in job.cow
    BY <1>0, <1>2, <2>1 DEF OpsOK, Rounded
  <2>3. Cluster(d) \in allocated
    BY <1>0, <1>2, <2>2 DEF CowOK
  <2> QED BY <1>2, <2>1, <2>3
<1> HIDE DEF new
<1>3. \A c \in Chunks : tgt'[c] = IF c \in op.chunks THEN op.val[c] ELSE tgt[c]
  BY <1>1, <1>2
<1>4. op.val \in [op.chunks -> 0 .. 1 + MaxWrites]
  BY <1>0 DEF Data
<1>5. tgt' \in [Chunks -> Lost .. 1 + MaxWrites]
  <2>1. tgt' = [c \in Chunks |-> tgt'[c]]
    BY <1>1
  <2>2. ASSUME NEW c \in Chunks PROVE tgt'[c] \in Lost .. 1 + MaxWrites
    BY <1>0, <1>3, <1>4, Constants DEF Shape, Lost
  <2> QED BY <2>1, <2>2
<1> QED BY <1>1, <1>3, <1>5 DEF new

\* The job when an operation has failed.
LEMMA FailedFacts ==
    ASSUME NEW j, JobOK(j), NEW op, op.chunks \subseteq Chunks, NEW policy
    PROVE  LET k == Failed(j, op, policy) IN
           /\ JobOK(k) /\ k.at = j.at /\ k.backing = j.backing
           /\ k.ret = j.ret /\ ~ k.synced /\ k.cancelled = j.cancelled
           /\ k.inFlight = j.inFlight \ WholeChunks(op) /\ k.cow = j.cow
           /\ Wakes(j, k)
<1> DEFINE e == ErrorAction(j, policy)
           f == [e EXCEPT !.failed = @ \/ policy = "report"]
           k == Failed(j, op, policy)
<1>1. Keeps(j, e) /\ e.pc = j.pc /\ e.ret = j.ret /\ e.cancelled = j.cancelled /\ ~ e.synced
  BY ErrorActionFacts
<1>2. k = IterationDone(f, op, FALSE)
  BY DEF Failed
<1> HIDE DEF e
<1>3. KeepsAll(e, f) /\ f.pc = e.pc
  BY <1>1 DEF KeepsAll, Keeps, JobOK, Fields, Pcs
<1> HIDE DEF f, k
<1>j. JobOK(f)
  BY <1>3 DEF KeepsAll, Keeps
<1>4. /\ JobOK(k) /\ k.at = f.at /\ k.backing = f.backing
      /\ k.ret = f.ret /\ k.synced = f.synced /\ k.cancelled = f.cancelled
      /\ k.inFlight = f.inFlight \ WholeChunks(op) /\ k.cow = f.cow /\ Wakes(f, k)
  BY <1>2, <1>j, IterationDoneFacts
<1>5. Wakes(j, k)
  BY <1>1, <1>3, <1>4 DEF Wakes, KeepsAll
<1> QED BY <1>1, <1>3, <1>4, <1>5 DEF KeepsAll, Keeps, k

\* A read or a write fails: the chunks are dirty again, whatever the target has.
LEMMA OpFailsStep ==
    ASSUME IInv, NEW op \in ops, ReadFails(op) \/ WriteFails(op)
    PROVE  IInv'
<1>0. Shape /\ CowOK /\ OpsOK /\ Control /\ Data
  BY DEF IInv
<1>1. OpOK(op) /\ op.chunks \subseteq Chunks /\ JobOK(job)
  BY <1>0 DEF Shape, OpOK
<1>2. /\ ops' = ops \ {op} /\ dirty' = dirty \cup op.chunks /\ errors' \in 0 .. MaxErrors
      /\ UNCHANGED <<iter, src, guest, writes>>
      /\ \E policy : job' = Failed(job, op, policy)
      /\ \/ UNCHANGED <<tgt, allocated>>
         \/ op.stage = "write" /\ TargetWrite(op)
  BY <1>0, Constants DEF ReadFails, WriteFails, source, target, Shape
<1>3. /\ JobOK(job') /\ job'.at = job.at /\ job'.backing = job.backing
      /\ job'.ret = job.ret /\ ~ job'.synced /\ job'.cancelled = job.cancelled
      /\ job'.inFlight = job.inFlight \ WholeChunks(op) /\ job'.cow = job.cow
      /\ Wakes(job, job')
  BY <1>1, <1>2, FailedFacts
<1>4. OpOver(op)
  BY <1>0, <1>1, <1>2, <1>3 DEF OpOver, Shape
<1>5. /\ tgt' \in [Chunks -> Lost .. 1 + MaxWrites]
      /\ \A c \in Chunks \ op.chunks : tgt'[c] = tgt[c]
      /\ allocated \subseteq allocated'
  BY <1>0, <1>2, TargetWriteFacts DEF Shape
<1>6. /\ Shape' /\ Limits' /\ IterOK(iter)' /\ IterPast' /\ OpsOK' /\ Control'
      /\ Copying' = Copying \ op.chunks
  BY <1>3, <1>4, <1>5, OpOverFacts
<1>7. CowOK'
  BY <1>0, <1>3, <1>5 DEF CowOK
<1>8. Data'
  <2>1. \A c : Tracked(c) \/ c \in op.chunks => Tracked(c)'
    BY <1>2 DEF Tracked
  <2>2. \A c : Unscanned(c) => Unscanned(c)'
    BY <1>0, <1>3 DEF Unscanned, Wakes, Control
  <2>3. ASSUME NEW c \in Chunks, tgt'[c] # src[c]
        PROVE  Tracked(c)' \/ c \in Copying' \/ Unscanned(c)'
    <3>1. CASE c \in op.chunks
      BY <2>1, <3>1
    <3>2. CASE c \notin op.chunks
      BY <1>0, <1>5, <1>6, <2>1, <2>2, <2>3, <3>2 DEF Data
    <3> QED BY <3>1, <3>2
  <2>4. ASSUME NEW x \in ops', x.stage = "write"
        PROVE  /\ x.val \in [x.chunks -> 0 .. 1 + MaxWrites]
               /\ \A c \in x.chunks : x.val[c] # src[c] => Tracked(c)'
    BY <1>0, <1>2, <2>1, <2>4 DEF Data
  <2> QED BY <1>2, <2>3, <2>4 DEF Data
<1> QED BY <1>6, <1>7, <1>8 DEF IInv

\* A write completes: what the target has now is what was read, and if the
\* guest has written since then the chunk is dirty or will be.
LEMMA WriteDoneStep == ASSUME IInv, NEW op \in ops, WriteDone(op) PROVE IInv'
<1>0. Shape /\ CowOK /\ OpsOK /\ Control /\ Data
  BY DEF IInv
<1>1. OpOK(op) /\ op.chunks \subseteq Chunks /\ JobOK(job)
  BY <1>0 DEF Shape, OpOK
<1>2. /\ ops' = ops \ {op} /\ op.stage = "write" /\ TargetWrite(op)
      /\ UNCHANGED <<dirty, iter, src, guest, writes, errors>>
      /\ job' = IterationDone(job, op, TRUE)
  BY DEF WriteDone, source
<1>3. /\ JobOK(job') /\ job'.at = job.at /\ job'.backing = job.backing
      /\ job'.ret = job.ret /\ job'.synced = job.synced /\ job'.cancelled = job.cancelled
      /\ job'.inFlight = job.inFlight \ WholeChunks(op)
      /\ job'.cow = job.cow \cup WholeChunks(op) /\ Wakes(job, job')
  <2>1. TRUE \in BOOLEAN /\ op.chunks \subseteq Chunks /\ JobOK(job)
    BY <1>1
  <2>2. job' = IterationDone(job, op, TRUE)
    BY <1>2
  <2> QED BY <2>1, <2>2, IterationDoneFacts
<1>4. job'.cow = job.cow \cup op.chunks
  BY <1>0, <1>1, <1>3 DEF WholeChunks, CowOK
<1>5. OpOver(op)
  BY <1>0, <1>2, <1>3 DEF OpOver, Shape
<1>6. /\ tgt' \in [Chunks -> Lost .. 1 + MaxWrites]
      /\ \A c \in Chunks : tgt'[c] = IF c \in op.chunks THEN op.val[c] ELSE tgt[c]
      /\ allocated' = allocated \cup {Cluster(c) : c \in op.chunks}
  BY <1>2, TargetWriteFacts
<1>7. /\ Shape' /\ Limits' /\ IterOK(iter)' /\ IterPast' /\ OpsOK' /\ Control'
      /\ Copying' = Copying \ op.chunks
  BY <1>4, <1>5, <1>6, OpOverFacts
<1>8. CowOK'
  <2>1. ASSUME NEW c \in job'.cow, NEW d \in Chunks, Cluster(d) = Cluster(c)
        PROVE  d \in job'.cow
    BY <1>0, <1>4, <2>1 DEF CowOK, OpsOK, Rounded
  <2>2. PartialTail => job'.cow = Chunks
    BY <1>0, <1>1, <1>4 DEF CowOK
  <2>3. ~ job'.backing => \A c \in job'.cow : Cluster(c) \in allocated'
    BY <1>0, <1>3, <1>4, <1>6 DEF CowOK
  <2> QED BY <2>1, <2>2, <2>3 DEF CowOK
<1>9. Data'
  <2>1. \A c : Tracked(c) => Tracked(c)'
    BY <1>2 DEF Tracked
  <2>2. \A c : Unscanned(c) => Unscanned(c)'
    BY <1>0, <1>3 DEF Unscanned, Wakes, Control
  <2>3. ASSUME NEW c \in Chunks, tgt'[c] # src[c]
        PROVE  Tracked(c)' \/ c \in Copying' \/ Unscanned(c)'
    <3>1. CASE c \in op.chunks
      BY <1>0, <1>2, <1>6, <2>1, <2>3, <3>1 DEF Data
    <3>2. CASE c \notin op.chunks
      BY <1>0, <1>6, <1>7, <2>1, <2>2, <2>3, <3>2 DEF Data
    <3> QED BY <3>1, <3>2
  <2>4. ASSUME NEW x \in ops', x.stage = "write"
        PROVE  /\ x.val \in [x.chunks -> 0 .. 1 + MaxWrites]
               /\ \A c \in x.chunks : x.val[c] # src[c] => Tracked(c)'
    BY <1>0, <1>2, <2>1, <2>4 DEF Data
  <2> QED BY <1>2, <2>3, <2>4 DEF Data
<1> QED BY <1>7, <1>8, <1>9 DEF IInv

-----------------------------------------------------------------------------
(* The theorems.                                                           *)

\* The invariant holds before the first step of mirror_run.
LEMMA InitIInv == Init => IInv
<1> SUFFICES ASSUME Init PROVE IInv
  OBVIOUS
<1>1. PICK x \in Setups :
        /\ src = [c \in Chunks |-> IF c \in x.alloc THEN 1 ELSE 0]
        /\ job = [pc |-> "scan", at |-> 0, fresh |-> TRUE, timer |-> FALSE,
                  synced |-> FALSE, shouldComplete |-> FALSE, cancelled |-> FALSE,
                  paused |-> FALSE, ioOk |-> TRUE, failed |-> FALSE, ret |-> 0,
                  inFlight |-> {}, cow |-> IF x.cow THEN {} ELSE Chunks,
                  backing |-> ~ x.cow, onSource |-> x.onSource, onTarget |-> x.onTarget]
  BY DEF Init
<1>2. /\ tgt = [c \in Chunks |-> 0] /\ allocated = {} /\ dirty = {} /\ ops = {}
      /\ iter = [bits |-> InWord({}, 0), words |-> {Word(c) : c \in {}} \ {0}]
      /\ guest = [c \in Chunks |-> "none"] /\ writes = 0 /\ errors = 0
  BY DEF Init, IterInit
<1>3. x.cow \in BOOLEAN /\ ~ (PartialTail /\ x.cow)
  BY MirrorAssumption
<1>4. /\ DOMAIN job = Fields /\ job.pc = "scan" /\ job.at = 0 /\ job.ret = 0
      /\ job.inFlight = {} /\ job.cow = (IF x.cow THEN {} ELSE Chunks) /\ (x.cow \/ job.backing)
  BY <1>1, <1>3 DEF Fields
<1>5. 0 \in Chunks
  BY Constants DEF Chunks
<1>6. JobOK(job)
  BY <1>3, <1>4, <1>5 DEF JobOK, Pcs
<1>7. Shape
  <2>1. IsFiniteSet(ops)
    BY <1>2, FS_EmptySet
  <2>2. src \in [Chunks -> 0 .. 1 + MaxWrites] /\ tgt \in [Chunks -> Lost .. 1 + MaxWrites]
    BY <1>1, <1>2, Constants DEF Lost
  <2>3. writes \in 0 .. MaxWrites /\ errors \in 0 .. MaxErrors
    BY <1>2, Constants
  <2> QED BY <1>2, <1>6, <2>1, <2>2, <2>3 DEF Shape
<1>8. Copying = {}
  BY <1>2 DEF Copying
<1>9. Limits
  BY <1>2, <1>4, <1>8, FS_EmptySet, Constants DEF Limits, BufFree
<1>10. IterOK(iter) /\ IterPast
  <2>1. iter.bits = {} /\ iter.words = {} /\ iter = [bits |-> iter.bits, words |-> iter.words]
    BY <1>2 DEF InWord
  <2> QED BY <1>4, <2>1 DEF IterOK, IterPast
<1>11. CowOK
  BY <1>3, <1>4 DEF CowOK
<1>12. OpsOK
  BY <1>2, <1>4, <1>8 DEF OpsOK
<1>13. Control
  BY <1>2, <1>4 DEF Control
<1>14. Data
  <2>1. \A c \in Chunks : Unscanned(c)
    BY <1>4, Constants DEF Unscanned, Chunks
  <2> QED BY <1>2, <2>1 DEF Data
<1> QED BY <1>7, <1>9, <1>10, <1>11, <1>12, <1>13, <1>14 DEF IInv

\* Nothing that the invariant speaks of changes in a stuttering step.
LEMMA StutterIInv == ASSUME IInv, UNCHANGED vars PROVE IInv'
<1>0. Shape /\ Control
  BY DEF IInv
<1>1. UNCHANGED <<job, dirty, iter, ops, src, tgt, allocated, guest, writes, errors>>
  BY DEF vars
<1>2. Quiet
  BY <1>0, <1>1 DEF Quiet, Shape
<1>3. RightPlace
  BY <1>0, <1>1 DEF RightPlace, Control
<1> QED BY <1>2, <1>3, QuietStep

\* The inductive invariant holds, through all interleavings of the job, its
\* operations, the guest, errors and commands.
THEOREM Invariance == Spec => []IInv
<1>1. IInv /\ [Next]_vars => IInv'
  <2> SUFFICES ASSUME IInv, [Next]_vars PROVE IInv'
    OBVIOUS
  <2>1. CASE JobStep
    <3>1. CASE Scan
      BY <3>1, ScanStep
    <3>2. CASE NextChunk
      BY <3>2, NextChunkStep
    <3>3. CASE StartOp
      BY <3>3, StartOpStep
    <3>4. CASE Timer
      BY <3>4, CommandStep
    <3>5. CASE \/ ScanFails \/ (\E expired \in BOOLEAN : Pass(expired))
               \/ FlushDone \/ FlushFails \/ Drained \/ Exit
      BY <3>5, LoopStep
    <3> QED BY <2>1, <3>1, <3>2, <3>3, <3>4, <3>5 DEF JobStep
  <2>2. ASSUME NEW c \in Chunks, OpStep(c) \/ Submit(c) \/ Land(c) \/ GuestDone(c)
        PROVE  IInv'
    <3>1. CASE Submit(c) \/ Land(c) \/ GuestDone(c)
      BY <3>1, GuestStep
    <3>2. CASE OpStep(c)
      <4>1. PICK op \in ops : ReadDone(op) \/ ReadFails(op) \/ WriteDone(op) \/ WriteFails(op)
        BY <3>2 DEF OpStep
      <4> QED BY <4>1, ReadDoneStep, OpFailsStep, WriteDoneStep
    <3> QED BY <2>2, <3>1, <3>2
  <2>3. CASE Pause \/ Resume \/ Cancel \/ Complete
    BY <2>3, CommandStep
  <2>4. CASE UNCHANGED vars
    BY <2>4, StutterIInv
  <2> QED BY <2>1, <2>2, <2>3, <2>4 DEF Next
<1> QED BY <1>1, InitIInv, PTL DEF Spec

\* The job never works on a chunk that is not on the disk, starts no more than
\* MAX_IN_FLIGHT operations and takes no buffer that is in use.
THEOREM TypeCorrect == Spec => []TypeOK
<1>1. IInv => TypeOK
  <2> SUFFICES ASSUME IInv PROVE TypeOK
    OBVIOUS
  <2>1. Shape /\ Limits /\ IterOK(iter)
    BY DEF IInv
  <2> QED BY <2>1 DEF Shape, Limits, IterOK, TypeOK, JobOK, Pcs, OpOK
<1> QED BY <1>1, Invariance, PTL

\* On a disk of whole chunks the in-flight bitmap is exact and the assertions
\* of mirror.c and hbitmap.c hold (with a partial chunk at the end the bitmap
\* is not: its bit stays set).
THEOREM SoundOperations == Spec => [](~ PartialTail => OperationsSound)
<1>1. IInv => (~ PartialTail => OperationsSound)
  <2> SUFFICES ASSUME IInv, ~ PartialTail PROVE OperationsSound
    OBVIOUS
  <2>1. IterOK(iter) /\ IterPast /\ OpsOK /\ Control
    BY DEF IInv
  <2>2. InFlightExact
    BY <2>1 DEF InFlightExact, OpsOK
  <2> QED BY <2>1, <2>2 DEF OperationsSound, IterOK, IterPast, Control, Ended
<1> QED BY <1>1, Invariance, PTL

\* A job that ends well has made a copy of the disk, whatever the guest wrote
\* and which operations failed.
THEOREM CopyCorrect == Spec => []CompletedIsCopy
<1>1. IInv => CompletedIsCopy
  <2> SUFFICES ASSUME IInv, Ended, job.ret = 0, ~ job.cancelled PROVE IsCopy
    BY DEF CompletedIsCopy
  <2>1. Shape /\ Control /\ Data
    BY DEF IInv
  <2>2. dirty = {} /\ ops = {} /\ \A c \in Chunks : guest[c] = "none"
    BY <2>1 DEF Control, Ended
  <2>3. Copying = {}
    BY <2>2 DEF Copying
  <2>4. \A c \in Chunks : ~ Tracked(c) /\ ~ Unscanned(c)
    BY <2>2 DEF Tracked, Unscanned, Ended
  <2>5. \A c \in Chunks : tgt[c] = src[c]
    BY <2>1, <2>3, <2>4 DEF Data
  <2>6. tgt = src
    BY <2>1, <2>5 DEF Shape
  <2> QED BY <2>2, <2>6 DEF IsCopy
<1> QED BY <1>1, Invariance, PTL
=============================================================================
