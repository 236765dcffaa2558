---------------------------- MODULE Qcow2Proofs ----------------------------
(***************************************************************************)
(* What holds of a qcow2 image whatever the number of requests, clusters,  *)
(* crashes and discards and whatever the sizes of the caches: the          *)
(* refcounts suffice after every crash, the guest reads what it wrote and  *)
(* finds after a crash what it may find, the two metadata caches never     *)
(* wait for each other, and the tables have their types.                   *)
(*                                                                         *)
(* All four follow from one inductive invariant, Good. It says of every    *)
(* cluster that its refcount suffices for the references it has: in        *)
(* memory, in every state that a crash may leave, and in those that it may *)
(* leave after one cache is written back and the other is not, unless a    *)
(* dependency forbids that order (Safe). It says the same of the data: the *)
(* guest accepts what is behind every entry that a crash may leave, or     *)
(* that a write back may bring to the disk next (Faithful; the two and     *)
(* Valid make up Sound). Clusters on their way are set apart: H holds      *)
(* those that requests have allocated and no table refers to yet, L those  *)
(* of H that an L2 table is about to refer to. Of the requests it says     *)
(* where their data have got to (Transfers), and that no two of them       *)
(* allocate for the same guest cluster (Apart); of the guest, that what it *)
(* reads through the tables is what it wrote last (Visible).               *)
(***************************************************************************)
EXTENDS Qcow2, NatLemmas, FiniteSetTheorems, TLAPS

Caches == {"l2", "rb"}

\* The caches of an image are there.
Shape(st) ==
    /\ "cache" \in DOMAIN st
    /\ DOMAIN st.cache = Caches
    /\ \A w \in Caches : {"tables", "depends", "onFlush"} \subseteq DOMAIN st.cache[w]

\* Not both caches depend on the other one.
Acyclic(st) == ~(st.cache["l2"].depends /\ st.cache["rb"].depends)

-----------------------------------------------------------------------------
(* Crashes.  What the refcounts of an image on the disk rest on.           *)

\* The fields of an image.
Image(st) ==
    /\ Shape(st)
    /\ {"l1", "cache", "cur", "poss", "free", "vis", "acc", "refsOk", "dataOk"} \subseteq DOMAIN st
    /\ DOMAIN st.l1 = Guests /\ st.l1 = [g \in Guests |-> st.l1[g]]
    /\ DOMAIN st.cur = Places /\ DOMAIN st.poss = Places

\* The places of tables are told apart by cache and number.
LEMMA TablePlaces ==
    /\ \A b \in Blocks : RbAt(b) \in Places
    /\ \A t \in Hosts : L2At(t) \in Places
    /\ \A g \in Guests : L1At(g) \in Places
    /\ \A w \in Caches : \A i, D : <<w, i>> \in {<<w, j>> : j \in D} <=> i \in D
    /\ \A w \in Caches : \A i, D : <<Other(w), i>> \notin {<<w, j>> : j \in D}
    /\ \A w \in Caches : \A g, D : L1At(g) \notin {<<w, j>> : j \in D}
  BY DEF Places, RbAt, L2At, L1At, Caches, Other

\* So are those of data, by cluster and sector.
LEMMA DataPlaces ==
    /\ \A c \in Hosts, s \in Sectors : DataAt(c, s) \in Places
    /\ \A c, b, s, t : DataAt(c, s) = DataAt(b, t) => c = b /\ s = t
    /\ \A c, s, g : DataAt(c, s) # L1At(g)
    /\ \A c, s, t : DataAt(c, s) # L2At(t)
    /\ \A w \in Caches : \A c, s, D : DataAt(c, s) \notin {<<w, j>> : j \in D}
  BY DEF Places, DataAt, L1At, L2At, Caches

\* bdrv_flush: what was written last is all there can be.
LEMMA FileFlushFields ==
    ASSUME NEW st, Image(st)
    PROVE  LET f == FileFlush(st) IN
           /\ Image(f)
           /\ f.l1 = st.l1 /\ f.cache = st.cache /\ f.cur = st.cur /\ f.free = st.free
           /\ f.poss = [p \in Places |-> {st.cur[p]}]
           /\ f.refsOk = (st.refsOk /\ RefcountsSafe(st))
           /\ f.acc = st.acc /\ f.vis = st.vis
           /\ f.dataOk = (st.dataOk /\ DataSafe(st))
<1> DEFINE f == FileFlush(st)
<1>1. DOMAIN f = DOMAIN st
  BY DEF FileFlush
<1>2. f.l1 = st.l1 /\ f.cache = st.cache /\ f.cur = st.cur /\ f.free = st.free
  BY DEF Image, FileFlush
<1>3. f.poss = [p \in Places |-> {st.cur[p]}]
  BY DEF Image, FileFlush
<1>4. f.refsOk = (st.refsOk /\ RefcountsSafe(st))
  BY DEF Image, FileFlush
<1>5. f.dataOk = (st.dataOk /\ DataSafe(st))
  BY DEF Image, FileFlush
<1>6. f.acc = st.acc /\ f.vis = st.vis
  BY DEF Image, FileFlush
<1> HIDE DEF f
<1> QED
  BY <1>1, <1>2, <1>3, <1>4, <1>5, <1>6 DEF Image, Shape, f

\* bdrv_pwrite of tables: what becomes of the file and of the caches.
LEMMA WriteTablesFields ==
    ASSUME NEW st, Image(st), NEW w \in Caches, NEW D
    PROVE  LET f == WriteTables(st, w, D) IN
           /\ Image(f)
           /\ f.l1 = st.l1 /\ f.free = st.free /\ f.refsOk = st.refsOk
           /\ f.acc = st.acc /\ f.vis = st.vis /\ f.dataOk = st.dataOk
           /\ \A x \in Caches : /\ f.cache[x].depends = st.cache[x].depends
                               /\ f.cache[x].onFlush = st.cache[x].onFlush
           /\ Tables(f, Other(w)) = Tables(st, Other(w))
           /\ Cached(f, w) = Cached(st, w)
           /\ \A i \in Cached(st, w) :
                Tables(f, w)[i] =
                  [val |-> Tables(st, w)[i].val, dirty |-> Tables(st, w)[i].dirty /\ i \notin D]
           /\ \A p \in Places : p \notin {<<w, i>> : i \in D} =>
                f.cur[p] = st.cur[p] /\ f.poss[p] = st.poss[p]
           /\ \A i \in D : <<w, i>> \in Places =>
                /\ f.cur[<<w, i>>] = Tables(st, w)[i].val
                /\ f.poss[<<w, i>>] = st.poss[<<w, i>>] \cup {Tables(st, w)[i].val}
<1> DEFINE f == WriteTables(st, w, D)
           value == [p \in {<<w, i>> : i \in D} |-> Tables(st, w)[p[2]].val]
           cur == [p \in Places |-> IF p \in DOMAIN value THEN value[p] ELSE st.cur[p]]
           poss == [p \in Places |->
                      IF p \in DOMAIN value THEN st.poss[p] \cup {value[p]} ELSE st.poss[p]]
           tables == [i \in DOMAIN Tables(st, w) |->
                        [val |-> Tables(st, w)[i].val,
                         dirty |-> Tables(st, w)[i].dirty /\ i \notin D]]
<1>1. \A i \in D : value[<<w, i>>] = Tables(st, w)[i].val
  OBVIOUS
<1>2. DOMAIN value = {<<w, i>> : i \in D}
  OBVIOUS
<1> HIDE DEF value
<1>3. /\ DOMAIN f = DOMAIN st /\ f.l1 = st.l1 /\ f.free = st.free /\ f.refsOk = st.refsOk
      /\ f.acc = st.acc /\ f.vis = st.vis /\ f.dataOk = st.dataOk
      /\ f.cur = cur /\ f.poss = poss
  BY DEF WriteTables, Image, value
<1>4. f.cache = [st.cache EXCEPT ![w].tables = tables]
  BY DEF WriteTables, Image, Shape, Tables, value
<1> HIDE DEF f, cur, poss, tables
<1>5. /\ DOMAIN f.cache = Caches
      /\ \A x \in Caches : DOMAIN f.cache[x] = DOMAIN st.cache[x]
      /\ f.cache[w].tables = tables
      /\ \A x \in Caches : x # w => f.cache[x] = st.cache[x]
      /\ \A x \in Caches : /\ f.cache[x].depends = st.cache[x].depends
                          /\ f.cache[x].onFlush = st.cache[x].onFlush
  BY <1>4 DEF Image, Shape
<1>6. Image(f)
  BY <1>3, <1>5 DEF Image, Shape, cur, poss
<1>7. /\ Tables(f, Other(w)) = Tables(st, Other(w))
      /\ Cached(f, w) = Cached(st, w)
      /\ \A i \in Cached(st, w) :
           Tables(f, w)[i] =
             [val |-> Tables(st, w)[i].val, dirty |-> Tables(st, w)[i].dirty /\ i \notin D]
  BY <1>5 DEF Tables, Cached, tables, Other, Caches
<1>8. \A p \in Places : p \notin {<<w, i>> : i \in D} =>
                f.cur[p] = st.cur[p] /\ f.poss[p] = st.poss[p]
  BY <1>3, <1>2 DEF cur, poss
<1>9. \A i \in D : <<w, i>> \in Places =>
                /\ f.cur[<<w, i>>] = Tables(st, w)[i].val
                /\ f.poss[<<w, i>>] = st.poss[<<w, i>>] \cup {Tables(st, w)[i].val}
  BY <1>3, <1>1, <1>2 DEF cur, poss
<1> QED
  BY <1>3, <1>5, <1>6, <1>7, <1>8, <1>9 DEF f

\* Host clusters are numbered from 1.
LEMMA HostNumbers ==
    /\ Cardinality(Hosts) \in Nat
    /\ \A c \in Hosts : c \in Nat \ {0} /\ c <= Cardinality(Hosts)
    /\ \A c \in Nat \ {0} : c <= Cardinality(Hosts) => c \in Hosts
<1>1. Cardinality(Hosts) \in Nat
  BY Qcow2Assumption, FS_CardinalityType
<1>2. PICK n \in Nat : n = Cardinality(Hosts)
  BY <1>1
<1>3. Hosts = 1 .. n
  BY <1>2, Qcow2Assumption
<1>4. /\ \A c \in Hosts : c \in Nat \ {0} /\ c <= n
      /\ \A c \in Nat \ {0} : c <= n => c \in Hosts
  BY <1>3
<1> QED BY <1>2, <1>4, Zenon

\* The clusters of the snapshot, and the others.
Snapshot == {SnapTable(g) : g \in Shared} \cup {SnapData(g) : g \in Shared}
Own == Hosts \ Snapshot

\* An entry of guest cluster g: none, the snapshot's, or one of its own.
EntryOk(e, g, snap) ==
    \/ e = Unallocated
    \/ g \in Shared /\ e = Entry(snap, FALSE)
    \/ e.c \in Own /\ e = Entry(e.c, TRUE)

\* A cluster with refcount n, referenced by the active state or not.
Enough(n, used, c) ==
    /\ used => n >= 1
    /\ c \in Snapshot => n >= 1
    /\ c \in Snapshot /\ used => n >= 2

\* The refcounts that cluster c can have on the disk.
MayCount(st, c) == {v[c] : v \in st.poss[RbAt(Block(c))]}

\* The tables on the disk give each cluster at most one user, beside the
\* snapshot, and refcounts that suffice.
Distinct(st) ==
    /\ \A g \in Guests : \A e \in L1Poss(st, g) : EntryOk(e, g, SnapTable(g))
    /\ \A g \in Guests : \A e \in L2Poss(st, g) : EntryOk(e, g, SnapData(g))
    /\ \A g, h \in Guests : \A e \in L1Poss(st, g), f \in L1Poss(st, h) :
         e.c = f.c => g = h \/ e.c = 0
    /\ \A g, h \in Guests : \A e \in L2Poss(st, g), f \in L2Poss(st, h) :
         e.c = f.c => g = h \/ e.c = 0
    /\ \A g, h \in Guests : \A e \in L1Poss(st, g), f \in L2Poss(st, h) :
         e.c = f.c => e.c = 0

Counted(st) ==
    \A c \in Hosts :
      /\ MayCount(st, c) # {} /\ MayCount(st, c) \subseteq 0 .. 2
      /\ \A n \in MayCount(st, c) :
           Enough(n, \E g \in Guests : \E e \in L1Poss(st, g) \cup L2Poss(st, g) : e.c = c, c)

\* A set without two elements.
LEMMA AtMostOne ==
    ASSUME NEW S, \A x, y \in S : x = y
    PROVE  Cardinality(S) = IF S = {} THEN 0 ELSE 1
<1>1. CASE S = {}
  BY <1>1, FS_EmptySet
<1>2. CASE S # {}
  <2>1. PICK x : x \in S
    BY <1>2
  <2>2. S = {x}
    BY <2>1
  <2> QED BY <1>2, <2>2, FS_Singleton
<1> QED BY <1>1, <1>2

\* The snapshot has one reference to each of its clusters.
LEMMA SnapshotReferences ==
    ASSUME NEW c \in Hosts
    PROVE  Cardinality({g \in Shared : SnapTable(g) = c \/ SnapData(g) = c})
             = IF c \in Snapshot THEN 1 ELSE 0
<1> DEFINE S == {g \in Shared : SnapTable(g) = c \/ SnapData(g) = c}
<1>1. \A x, y \in S : x = y
  BY Qcow2Assumption DEF SnapTable, SnapData
<1>2. S = {} <=> c \notin Snapshot
  BY DEF Snapshot
<1> HIDE DEF S
<1>3. Cardinality(S) = IF c \in Snapshot THEN 1 ELSE 0
  BY <1>1, <1>2, AtMostOne
<1> QED BY <1>3 DEF S

\* The references to a cluster that the tables on the disk can have.
LEMMA ReferencesCounted ==
    ASSUME NEW st, Distinct(st), NEW c \in Hosts
    PROVE  References(st, c)
             = (IF \E g \in Guests : \E e \in L1Poss(st, g) \cup L2Poss(st, g) : e.c = c
                THEN 1 ELSE 0)
               + (IF c \in Snapshot THEN 1 ELSE 0)
<1> DEFINE A == {g \in Guests : \E e \in L1Poss(st, g) : e.c = c}
           B == {g \in Guests : \E e \in L2Poss(st, g) : e.c = c}
<1>0. c # 0
  BY HostNumbers
<1>1. \A x, y \in A : x = y
  BY <1>0 DEF Distinct
<1>2. \A x, y \in B : x = y
  BY <1>0 DEF Distinct
<1>3. A = {} \/ B = {}
  BY <1>0 DEF Distinct
<1>4. A \cup B # {} <=> \E g \in Guests : \E e \in L1Poss(st, g) \cup L2Poss(st, g) : e.c = c
  OBVIOUS
<1>5. References(st, c) = Cardinality(A) + Cardinality(B)
                            + (IF c \in Snapshot THEN 1 ELSE 0)
  BY SnapshotReferences DEF References
<1> HIDE DEF A, B
<1>6. Cardinality(A) = (IF A = {} THEN 0 ELSE 1) /\ Cardinality(B) = (IF B = {} THEN 0 ELSE 1)
  BY <1>1, <1>2, AtMostOne
<1>7. Cardinality(A) + Cardinality(B) = IF A \cup B # {} THEN 1 ELSE 0
  BY <1>3, <1>6
<1> QED BY <1>4, <1>5, <1>7

\* Tables like these survive a crash.
LEMMA RefcountsFollow ==
    ASSUME NEW st, Distinct(st), Counted(st)
    PROVE  RefcountsSafe(st)
<1>1. ASSUME NEW c \in Hosts PROVE References(st, c) <= Refcount(st, c)
  <2> DEFINE S == MayCount(st, c)
             used == \E g \in Guests : \E e \in L1Poss(st, g) \cup L2Poss(st, g) : e.c = c
  <2>1. S # {} /\ S \subseteq 0 .. 2 /\ \A n \in S : Enough(n, used, c)
    BY DEF Counted
  <2>2. Refcount(st, c) = Min(S)
    BY DEF Refcount, MayCount
  <2>3. References(st, c) = (IF used THEN 1 ELSE 0) + (IF c \in Snapshot THEN 1 ELSE 0)
    BY ReferencesCounted
  <2> HIDE DEF S, used
  <2>4. S \in SUBSET Nat
    BY <2>1
  <2>5. Min(S) \in S
    BY <2>1, <2>4, NatMin
  <2>6. Min(S) \in 0 .. 2 /\ Enough(Min(S), used, c)
    BY <2>1, <2>5
  <2> QED BY <2>2, <2>3, <2>6 DEF Enough
<1>2. ASSUME NEW g \in Guests, NEW e \in L1Poss(st, g) \cup L2Poss(st, g), e.copied
      PROVE  References(st, e.c) = 1
  <2>1. e.c \in Own
    BY <1>2 DEF Distinct, EntryOk, Unallocated, Entry
  <2>2. e.c \in Hosts /\ e.c \notin Snapshot
    BY <2>1 DEF Own
  <2> QED BY <2>2, ReferencesCounted
<1> QED BY <1>1, <1>2 DEF RefcountsSafe

-----------------------------------------------------------------------------
(* The inductive invariant.  A cluster's refcount is known in memory and,  *)
(* perhaps several times over, on the disk; so are its users.              *)

\* The refcount of c in memory.
Count(st, c) == Counts(st, Block(c))[c]

\* The L2 entries that g can have on the disk, and those it can have there
\* once the cached tables are written back.
OnDisk(st, g) == IF st.l1[g].c = 0 THEN {Unallocated} ELSE st.poss[L2At(st.l1[g].c)]
May(st, g) == OnDisk(st, g) \cup {L2Entry(st, g)}

\* Cluster c is in use: on the disk, there or in memory, in memory.
DiskUses(st, c) == \E g \in Guests : st.l1[g].c = c \/ \E e \in OnDisk(st, g) : e.c = c
MayUse(st, c) == \E g \in Guests : st.l1[g].c = c \/ \E e \in May(st, g) : e.c = c
NowUses(st, c) == \E g \in Guests : st.l1[g].c = c \/ L2Entry(st, g).c = c

\* The caches and the file.
CountFns(b) == [{c \in Hosts : Block(c) = b} -> 0 .. 2]

CacheOk(st, w) ==
    IsFiniteSet(Cached(st, w)) /\ Cardinality(Cached(st, w)) <= Size(w)

L2CacheOk(st) ==
    /\ Cached(st, "l2") \subseteq Hosts
    /\ \A g \in Guests : st.l1[g].c \in Cached(st, "l2") =>
         \/ Tables(st, "l2")[st.l1[g].c].dirty
         \/ Tables(st, "l2")[st.l1[g].c].val = st.cur[L2At(st.l1[g].c)]

RbCacheOk(st) ==
    /\ Cached(st, "rb") \subseteq Blocks
    /\ \A b \in Cached(st, "rb") :
         /\ Tables(st, "rb")[b].val \in CountFns(b)
         /\ Tables(st, "rb")[b].dirty \/ Tables(st, "rb")[b].val = st.cur[RbAt(b)]

FileOk(st) ==
    /\ \A p \in Places : st.cur[p] \in st.poss[p]
    /\ \A b \in Blocks : st.poss[RbAt(b)] \subseteq CountFns(b)
    /\ \A g \in Guests : st.poss[L1At(g)] = {st.l1[g]}

Valid(st) ==
    /\ Image(st) /\ Acyclic(st)
    /\ CacheOk(st, "l2") /\ CacheOk(st, "rb")
    /\ L2CacheOk(st) /\ RbCacheOk(st) /\ FileOk(st)
    /\ st.free \in Nat \ {0} /\ st.free <= Cardinality(Hosts) + 1

\* No cluster has two users, whatever reaches the disk.
Exclusive(st) ==
    /\ \A g \in Guests : EntryOk(st.l1[g], g, SnapTable(g))
    /\ \A g \in Guests : \A e \in May(st, g) : EntryOk(e, g, SnapData(g))
    /\ \A g, h \in Guests : st.l1[g].c = st.l1[h].c => g = h \/ st.l1[g].c = 0
    /\ \A g, h \in Guests : \A e \in May(st, g), f \in May(st, h) :
         e.c = f.c => g = h \/ e.c = 0
    /\ \A g, h \in Guests : \A f \in May(st, h) : st.l1[g].c = f.c => f.c = 0

\* H: clusters that have one reference less than their refcount says, since
\* requests have allocated them and no table refers to them yet.
Held(st, H) ==
    \A c \in H :
      /\ c \in Hosts /\ Enough(Count(st, c), TRUE, c) /\ ~ NowUses(st, c)
      /\ ~ st.cache["rb"].depends => ~ MayUse(st, c)

\* The refcounts suffice: in memory, on the disk, on the disk after the L2
\* tables are written back (which needs no more than their dependency says)
\* and in memory before they are.  L: the clusters of H that an L2 table is
\* about to refer to.
CountsNow(st) == \A c \in Hosts : Enough(Count(st, c), NowUses(st, c), c)
CountsOnDisk(st) ==
    \A c \in Hosts : \A n \in MayCount(st, c) : Enough(n, DiskUses(st, c), c)
CountsForL2(st, L) ==
    ~ st.cache["l2"].depends =>
      \A c \in Hosts : \A n \in MayCount(st, c) : Enough(n, MayUse(st, c) \/ c \in L, c)
CountsForRb(st) ==
    ~ st.cache["rb"].depends => \A c \in Hosts : Enough(Count(st, c), MayUse(st, c), c)

Safe(st, H, L) ==
    /\ st.refsOk /\ Exclusive(st) /\ L \subseteq H /\ Held(st, H)
    /\ CountsNow(st) /\ CountsOnDisk(st) /\ CountsForL2(st, L) /\ CountsForRb(st)

\* What sector s holds behind the L2 entry e, and what it may hold there
\* after a crash.
EntryNow(st, e, s) == IF e.c = 0 THEN "zero" ELSE st.cur[DataAt(e.c, s)]
EntryData(st, e, s) == IF e.c = 0 THEN {"zero"} ELSE st.poss[DataAt(e.c, s)]

\* Both images hold the same data and promise the same to the guest.
SameGuest(st, ref) ==
    /\ st.acc = ref.acc /\ st.vis = ref.vis
    /\ \A c \in Hosts, s \in Sectors : st.cur[DataAt(c, s)] = ref.cur[DataAt(c, s)]

DataTyped(st) ==
    /\ DOMAIN st.acc = Guests /\ DOMAIN st.vis = Guests
    /\ \A c \in Hosts, s \in Sectors : st.poss[DataAt(c, s)] \subseteq Values

\* The snapshot is as it was, in the file and in the cache.
SnapshotFiled(st) ==
    \A g \in Shared :
      /\ st.poss[L2At(SnapTable(g))] = {Entry(SnapData(g), FALSE)}
      /\ \A s \in Sectors : st.poss[DataAt(SnapData(g), s)] = {"old"}
SnapshotCached(st) ==
    \A g \in Shared : SnapTable(g) \in Cached(st, "l2") =>
      Tables(st, "l2")[SnapTable(g)].val = Entry(SnapData(g), FALSE)

\* The guest may find in g whatever a crash can leave behind the entry e.
Accepts(st, g, e) == \A s \in Sectors : EntryData(st, e, s) \subseteq st.acc[g][s]

\* It may find anything: g was discarded and not flushed since.
Discarded(st, g) == \A s \in Sectors : Values \subseteq st.acc[g][s]

\* What the guest may find after a crash: behind the entries on the disk, one
\* of which can refer to a cluster that g no longer has only after a discard;
\* behind those in memory; and behind these on the disk, once their table may
\* be written.  A cluster of L may be entered next.
DataOnDisk(st) ==
    \A g \in Guests : \A e \in OnDisk(st, g) :
      Accepts(st, g, e) /\ (e.c \in Own => e = L2Entry(st, g) \/ Discarded(st, g))
DataNow(st) ==
    \A g \in Guests, s \in Sectors : EntryNow(st, L2Entry(st, g), s) \in st.acc[g][s]
DataForL2(st, L) ==
    ~ st.cache["l2"].depends /\ ~ st.cache["l2"].onFlush =>
      /\ \A g \in Guests : Accepts(st, g, L2Entry(st, g))
      /\ \A c \in L, s \in Sectors : st.poss[DataAt(c, s)] = {st.cur[DataAt(c, s)]}

\* The guest's data are safe, and those of the image ref.
Faithful(st, L, ref) ==
    /\ st.dataOk /\ SameGuest(st, ref) /\ DataTyped(st)
    /\ SnapshotFiled(st) /\ SnapshotCached(st)
    /\ DataOnDisk(st) /\ DataNow(st) /\ DataForL2(st, L)

Sound(st, H, L, ref) == Valid(st) /\ Safe(st, H, L) /\ Faithful(st, L, ref)

\* An image like this survives a crash.
LEMMA SoundSurvives ==
    ASSUME NEW st, NEW H, NEW L, NEW ref, Sound(st, H, L, ref)
    PROVE  RefcountsSafe(st)
<1>1. \A g \in Guests : L1Poss(st, g) = {st.l1[g]}
  BY DEF Sound, Valid, FileOk, L1Poss
<1>2. \A g \in Guests : L2Poss(st, g) = OnDisk(st, g)
  BY <1>1 DEF L2Poss, OnDisk
<1>3. Distinct(st)
  BY <1>1, <1>2 DEF Sound, Safe, Exclusive, Distinct, May
<1>4. Counted(st)
  <2> SUFFICES ASSUME NEW c \in Hosts
               PROVE  /\ MayCount(st, c) # {} /\ MayCount(st, c) \subseteq 0 .. 2
                      /\ \A n \in MayCount(st, c) :
                           Enough(n, \E g \in Guests : \E e \in L1Poss(st, g) \cup L2Poss(st, g) :
                                       e.c = c, c)
    BY DEF Counted
  <2>1. Block(c) \in Blocks
    BY DEF Block, Blocks
  <2>2. st.poss[RbAt(Block(c))] # {} /\ st.poss[RbAt(Block(c))] \subseteq CountFns(Block(c))
    BY <2>1, TablePlaces DEF Sound, Valid, FileOk
  <2>3. \A v \in CountFns(Block(c)) : v[c] \in 0 .. 2
    BY DEF CountFns
  <2>4. (\E g \in Guests : \E e \in L1Poss(st, g) \cup L2Poss(st, g) : e.c = c) <=> DiskUses(st, c)
    BY <1>1, <1>2 DEF DiskUses
  <2>5. \A n \in MayCount(st, c) : Enough(n, DiskUses(st, c), c)
    BY DEF Sound, Safe, CountsOnDisk
  <2> QED BY <2>2, <2>3, <2>4, <2>5 DEF MayCount, Enough
<1> QED BY <1>3, <1>4, RefcountsFollow

\* So do the guest's data.
LEMMA SoundKeepsData ==
    ASSUME NEW st, NEW H, NEW L, NEW ref, Sound(st, H, L, ref)
    PROVE  DataSafe(st)
<1>1. \A g \in Guests : L1Poss(st, g) = {st.l1[g]}
  BY DEF Sound, Valid, FileOk, L1Poss
<1>2. \A g \in Guests : L2Poss(st, g) = OnDisk(st, g)
  BY <1>1 DEF L2Poss, OnDisk
<1>3. ASSUME NEW g \in Guests, NEW s \in Sectors
      PROVE  DataPoss(st, g, s) \subseteq st.acc[g][s]
  <2>1. \A e \in OnDisk(st, g) : EntryData(st, e, s) \subseteq st.acc[g][s]
    BY DEF Sound, Faithful, DataOnDisk, Accepts
  <2> QED BY <1>2, <2>1 DEF DataPoss, EntryData
<1> QED BY <1>3 DEF DataSafe, Sound, Faithful, SnapshotFiled

\* What the program reads through its caches is the same in both states.
SameMemory(a, b) ==
    /\ b.l1 = a.l1 /\ b.free = a.free
    /\ \A g \in Guests : L2Entry(b, g) = L2Entry(a, g)
    /\ \A c \in Hosts : Count(b, c) = Count(a, c)

\* Writing back what the dependencies allow is safe.
LEMMA SafeQuiet ==
    ASSUME NEW a, NEW b, NEW H, NEW L, Safe(a, H, L), SameMemory(a, b), b.refsOk,
           \A w \in Caches : b.cache[w].depends = a.cache[w].depends,
           \A g \in Guests : \/ OnDisk(b, g) \subseteq OnDisk(a, g)
                             \/ ~ a.cache["l2"].depends /\ OnDisk(b, g) \subseteq May(a, g),
           \A c \in Hosts : \/ MayCount(b, c) \subseteq MayCount(a, c)
                            \/ /\ ~ a.cache["rb"].depends
                               /\ MayCount(b, c) \subseteq MayCount(a, c) \cup {Count(a, c)}
    PROVE  Safe(b, H, L)
<1>1. \A g \in Guests : May(b, g) \subseteq May(a, g)
  BY DEF May, SameMemory
<1>2. \A c : NowUses(b, c) <=> NowUses(a, c)
  BY DEF NowUses, SameMemory
<1>3. \A c : MayUse(b, c) => MayUse(a, c)
  BY <1>1 DEF MayUse, SameMemory
<1>4. \A c : DiskUses(b, c) =>
               \/ DiskUses(a, c)
               \/ ~ a.cache["l2"].depends /\ MayUse(a, c)
  BY DEF DiskUses, MayUse, SameMemory
<1>5. Exclusive(b)
  BY <1>1 DEF Safe, Exclusive, SameMemory
<1>6. Held(b, H)
  BY <1>2, <1>3 DEF Safe, Held, SameMemory, Caches, Own, Enough
<1>7. CountsNow(b)
  BY <1>2 DEF Safe, CountsNow, SameMemory, Enough
<1>8. CountsOnDisk(b)
  BY <1>3, <1>4 DEF Safe, CountsOnDisk, CountsForL2, CountsForRb, SameMemory, Enough, MayUse,
     DiskUses, May
<1>9. CountsForL2(b, L)
  BY <1>3 DEF Safe, CountsForL2, CountsForRb, Held, SameMemory, Enough, Caches, Own
<1>10. CountsForRb(b)
  BY <1>3 DEF Safe, CountsForRb, SameMemory, Enough, Caches
<1> QED BY <1>5, <1>6, <1>7, <1>8, <1>9, <1>10 DEF Safe

\* The L2 tables are host clusters, and so is what they refer to.
LEMMA TablesAreHosts ==
    ASSUME NEW st, Exclusive(st)
    PROVE  /\ \A g \in Guests : st.l1[g].c = 0 \/ st.l1[g].c \in Hosts
           /\ \A g \in Guests : \A e \in May(st, g) : e.c = 0 \/ e.c \in Hosts
<1>1. \A g \in Shared : SnapTable(g) \in Hosts /\ SnapData(g) \in Hosts
  BY Qcow2Assumption
<1>2. \A g : \A e : EntryOk(e, g, SnapTable(g)) => e.c = 0 \/ e.c \in Hosts
  BY <1>1 DEF EntryOk, Entry, Unallocated, Own
<1>3. \A g : \A e : EntryOk(e, g, SnapData(g)) => e.c = 0 \/ e.c \in Hosts
  BY <1>1 DEF EntryOk, Entry, Unallocated, Own
<1> QED BY <1>2, <1>3 DEF Exclusive

\* A file on which every place has one possible value.
Clean(st) == \A p \in Places : st.poss[p] = {st.cur[p]}

\* Neither does a step harm the guest's data that leaves the data clusters
\* alone and writes L2 tables only when they may be.
LEMMA FaithfulQuiet ==
    ASSUME NEW a, NEW b, NEW H, NEW L, NEW M, NEW ref, Sound(a, H, L, ref), M \subseteq H,
           b.dataOk, b.acc = a.acc, b.vis = a.vis,
           \A p \in Places : b.cur[p] \in b.poss[p],
           \A c \in Hosts, s \in Sectors : /\ b.cur[DataAt(c, s)] = a.cur[DataAt(c, s)]
                                           /\ b.poss[DataAt(c, s)] \subseteq a.poss[DataAt(c, s)],
           \A g \in Shared : b.poss[L2At(SnapTable(g))] \subseteq a.poss[L2At(SnapTable(g))],
           SnapshotCached(b),
           \A g \in Guests : L2Entry(b, g) = L2Entry(a, g),
           \A g \in Guests : \/ OnDisk(b, g) \subseteq OnDisk(a, g)
                             \/ /\ ~ a.cache["l2"].depends /\ ~ a.cache["l2"].onFlush
                                /\ OnDisk(b, g) \subseteq May(a, g),
           ~ b.cache["l2"].depends /\ ~ b.cache["l2"].onFlush =>
             \/ Clean(b)
             \/ ~ a.cache["l2"].depends /\ ~ a.cache["l2"].onFlush /\ M \subseteq L
    PROVE  Faithful(b, M, ref)
<1>1. Faithful(a, L, ref) /\ Exclusive(a) /\ \A c \in H : c \in Hosts
  BY DEF Sound, Safe, Held
<1>2. \A g \in Guests : \A e \in May(a, g) : e.c = 0 \/ e.c \in Hosts
  BY <1>1, TablesAreHosts
<1>3. \A g \in Guests : \A e \in May(a, g) : \A s \in Sectors :
        EntryData(b, e, s) \subseteq EntryData(a, e, s) /\ EntryNow(b, e, s) = EntryNow(a, e, s)
  BY <1>2 DEF EntryData, EntryNow
<1>4. \A g \in Guests : \A e \in May(a, g) : Accepts(a, g, e) => Accepts(b, g, e)
  BY <1>3 DEF Accepts
<1>5. \A g \in Guests : L2Entry(a, g) \in May(a, g) /\ OnDisk(b, g) \subseteq May(a, g)
  BY DEF May
<1>6. \A g : Discarded(b, g) <=> Discarded(a, g)
  BY DEF Discarded
<1>7. DataOnDisk(b)
  <2> SUFFICES ASSUME NEW g \in Guests, NEW e \in OnDisk(b, g)
               PROVE  Accepts(b, g, e) /\ (e.c \in Own => e = L2Entry(b, g) \/ Discarded(b, g))
    BY DEF DataOnDisk
  <2>1. e \in May(a, g)
    BY <1>5
  <2>2. CASE e \in OnDisk(a, g)
    BY <1>1, <1>4, <1>6, <2>1, <2>2 DEF Faithful, DataOnDisk
  <2>3. CASE e \notin OnDisk(a, g)
    <3>1. ~ a.cache["l2"].depends /\ ~ a.cache["l2"].onFlush /\ e = L2Entry(a, g)
      BY <2>1, <2>3 DEF May
    <3> QED BY <1>1, <1>4, <2>1, <3>1 DEF Faithful, DataForL2
  <2> QED BY <2>2, <2>3
<1>8. DataNow(b)
  BY <1>1, <1>3, <1>5 DEF Faithful, DataNow
<1>9. DataForL2(b, M)
  <2> SUFFICES ASSUME ~ b.cache["l2"].depends, ~ b.cache["l2"].onFlush
               PROVE  /\ \A g \in Guests : Accepts(b, g, L2Entry(b, g))
                      /\ \A c \in M, s \in Sectors : b.poss[DataAt(c, s)] = {b.cur[DataAt(c, s)]}
    BY DEF DataForL2
  <2>1. CASE Clean(b)
    <3>1. \A c \in Hosts, s \in Sectors : b.poss[DataAt(c, s)] = {b.cur[DataAt(c, s)]}
      BY <2>1, DataPlaces DEF Clean
    <3>2. \A g \in Guests : \A s \in Sectors :
            EntryData(b, L2Entry(b, g), s) = {EntryNow(b, L2Entry(b, g), s)}
      BY <1>2, <1>5, <3>1 DEF EntryData, EntryNow
    <3>3. \A g \in Guests : Accepts(b, g, L2Entry(b, g))
      BY <1>8, <3>2 DEF Accepts, DataNow
    <3> QED BY <1>1, <3>1, <3>3
  <2>2. CASE ~ a.cache["l2"].depends /\ ~ a.cache["l2"].onFlush /\ M \subseteq L
    <3>1. \A g \in Guests : Accepts(b, g, L2Entry(b, g))
      BY <1>1, <1>4, <1>5, <2>2 DEF Faithful, DataForL2
    <3>2. ASSUME NEW c \in M, NEW s \in Sectors
          PROVE  b.poss[DataAt(c, s)] = {b.cur[DataAt(c, s)]}
      <4>1. a.poss[DataAt(c, s)] = {a.cur[DataAt(c, s)]}
        BY <1>1, <2>2 DEF Faithful, DataForL2
      <4>2. c \in Hosts /\ DataAt(c, s) \in Places
        BY <1>1, DataPlaces
      <4> QED BY <4>1, <4>2
    <3> QED BY <3>1, <3>2
  <2> QED BY <2>1, <2>2
<1>10. SnapshotFiled(b)
  <2> SUFFICES ASSUME NEW g \in Shared
               PROVE  /\ b.poss[L2At(SnapTable(g))] = {Entry(SnapData(g), FALSE)}
                      /\ \A s \in Sectors : b.poss[DataAt(SnapData(g), s)] = {"old"}
    BY DEF SnapshotFiled
  <2>1. SnapTable(g) \in Hosts /\ SnapData(g) \in Hosts
    BY Qcow2Assumption
  <2>2. b.poss[L2At(SnapTable(g))] = {Entry(SnapData(g), FALSE)}
    <3>1. b.poss[L2At(SnapTable(g))] \subseteq {Entry(SnapData(g), FALSE)}
      BY <1>1, <2>1 DEF Faithful, SnapshotFiled
    <3>2. b.poss[L2At(SnapTable(g))] # {}
      BY <2>1, TablePlaces
    <3> QED BY <3>1, <3>2
  <2>3. ASSUME NEW s \in Sectors PROVE b.poss[DataAt(SnapData(g), s)] = {"old"}
    <3>1. b.poss[DataAt(SnapData(g), s)] \subseteq {"old"}
      BY <1>1, <2>1 DEF Faithful, SnapshotFiled
    <3>2. b.poss[DataAt(SnapData(g), s)] # {}
      BY <2>1, DataPlaces
    <3> QED BY <3>1, <3>2
  <2> QED BY <2>2, <2>3
<1>11. DataTyped(b)
  BY <1>1 DEF Faithful, DataTyped
<1>12. SameGuest(b, ref)
  BY <1>1 DEF Faithful, SameGuest
<1> QED BY <1>7, <1>8, <1>9, <1>10, <1>11, <1>12 DEF Faithful

\* The refcount block of a cluster is one of the image's.
LEMMA BlockOf == \A c \in Hosts : Block(c) \in Blocks
  BY DEF Block, Blocks

\* bdrv_flush of the file.
LEMMA FileFlushSound ==
    ASSUME NEW st, NEW H, NEW L, NEW ref, Sound(st, H, L, ref)
    PROVE  LET f == FileFlush(st) IN
           Sound(f, H, L, ref) /\ SameMemory(st, f) /\ f.cache = st.cache
<1> DEFINE f == FileFlush(st)
<1>1. /\ Image(f)
      /\ f.l1 = st.l1 /\ f.cache = st.cache /\ f.cur = st.cur /\ f.free = st.free
      /\ f.poss = [p \in Places |-> {st.cur[p]}]
      /\ f.refsOk /\ f.dataOk /\ f.acc = st.acc /\ f.vis = st.vis
  BY FileFlushFields, SoundSurvives, SoundKeepsData DEF Sound, Valid, Safe, Faithful
<1> HIDE DEF f
<1>2. \A w \in Caches : Tables(f, w) = Tables(st, w) /\ Cached(f, w) = Cached(st, w)
  BY <1>1 DEF Tables, Cached
<1>3. \A p \in Places : f.poss[p] \subseteq st.poss[p] /\ f.cur[p] \in f.poss[p]
  BY <1>1 DEF Sound, Valid, FileOk
<1>4. SameMemory(st, f)
  BY <1>1, <1>2 DEF SameMemory, L2Entry, Count, Counts, Caches
<1>5. \A g \in Guests : OnDisk(f, g) \subseteq OnDisk(st, g)
  BY <1>1, <1>3, TablePlaces, TablesAreHosts DEF OnDisk, Sound, Safe
<1>6. \A c \in Hosts : MayCount(f, c) \subseteq MayCount(st, c)
  BY <1>1, <1>3, TablePlaces, BlockOf DEF MayCount
<1>7. Safe(f, H, L)
  BY <1>1, <1>4, <1>5, <1>6, SafeQuiet DEF Sound
<1>8. FileOk(f)
  BY <1>1, <1>3, TablePlaces DEF Sound, Valid, FileOk
<1>9. CacheOk(f, "l2") /\ CacheOk(f, "rb") /\ L2CacheOk(f) /\ RbCacheOk(f) /\ Acyclic(f)
  BY <1>1, <1>2 DEF Sound, Valid, CacheOk, L2CacheOk, RbCacheOk, Acyclic, Caches
<1>10. Valid(f)
  BY <1>1, <1>8, <1>9 DEF Sound, Valid
<1>11. Faithful(f, L, ref)
  <2>1. SnapshotCached(f) /\ L \subseteq H
    BY <1>2 DEF Sound, Safe, Faithful, SnapshotCached, Caches
  <2>2. Clean(f)
    BY <1>1 DEF Clean
  <2>3. \A c \in Hosts, s \in Sectors : /\ f.cur[DataAt(c, s)] = st.cur[DataAt(c, s)]
                                        /\ f.poss[DataAt(c, s)] \subseteq st.poss[DataAt(c, s)]
    BY <1>1, <1>3, DataPlaces
  <2>4. \A g \in Shared : f.poss[L2At(SnapTable(g))] \subseteq st.poss[L2At(SnapTable(g))]
    BY <1>3, TablePlaces, Qcow2Assumption
  <2> QED BY <1>1, <1>3, <1>4, <1>5, <2>1, <2>2, <2>3, <2>4, FaithfulQuiet DEF SameMemory
<1> QED BY <1>1, <1>4, <1>7, <1>10, <1>11 DEF Sound, f

\* Writing dirty tables of cache w, when w does not depend on the other one.
LEMMA WriteTablesSound ==
    ASSUME NEW st, NEW H, NEW L, NEW ref, Sound(st, H, L, ref), NEW w \in Caches,
           NEW D \in SUBSET Dirty(st, w),
           ~ st.cache[w].depends, ~ st.cache[w].onFlush
    PROVE  LET f == WriteTables(st, w, D) IN
           /\ Sound(f, H, L, ref) /\ SameMemory(st, f)
           /\ \A x \in Caches : /\ f.cache[x].depends = st.cache[x].depends
                               /\ f.cache[x].onFlush = st.cache[x].onFlush
           /\ \A x \in Caches : Cached(f, x) = Cached(st, x)
           /\ \A x \in Caches : \A i \in Cached(st, x) : Tables(f, x)[i].val = Tables(st, x)[i].val
           /\ Dirty(f, w) = Dirty(st, w) \ D
           /\ \A x \in Caches : Dirty(f, x) \subseteq Dirty(st, x)
<1> DEFINE f == WriteTables(st, w, D)
<1>1. /\ Image(f)
      /\ f.l1 = st.l1 /\ f.free = st.free /\ f.refsOk = st.refsOk
      /\ f.acc = st.acc /\ f.vis = st.vis /\ f.dataOk = st.dataOk
      /\ \A x \in Caches : /\ f.cache[x].depends = st.cache[x].depends
                          /\ f.cache[x].onFlush = st.cache[x].onFlush
      /\ Tables(f, Other(w)) = Tables(st, Other(w))
      /\ Cached(f, w) = Cached(st, w)
      /\ \A i \in Cached(st, w) :
           Tables(f, w)[i] =
             [val |-> Tables(st, w)[i].val, dirty |-> Tables(st, w)[i].dirty /\ i \notin D]
      /\ \A p \in Places : p \notin {<<w, i>> : i \in D} =>
           f.cur[p] = st.cur[p] /\ f.poss[p] = st.poss[p]
      /\ \A i \in D : <<w, i>> \in Places =>
           /\ f.cur[<<w, i>>] = Tables(st, w)[i].val
           /\ f.poss[<<w, i>>] = st.poss[<<w, i>>] \cup {Tables(st, w)[i].val}
  BY WriteTablesFields DEF Sound, Valid
<1> HIDE DEF f
<1>2. /\ \A x \in Caches : Cached(f, x) = Cached(st, x)
      /\ \A x \in Caches : \A i \in Cached(st, x) : Tables(f, x)[i].val = Tables(st, x)[i].val
      /\ Dirty(f, w) = Dirty(st, w) \ D
      /\ \A x \in Caches : Dirty(f, x) \subseteq Dirty(st, x)
      /\ \A i \in Cached(st, w) : Tables(f, w)[i].dirty <=> Tables(st, w)[i].dirty /\ i \notin D
      /\ D \subseteq Cached(st, w)
  <2>1. \A x \in Caches : x = w \/ x = Other(w)
    BY DEF Caches, Other
  <2>2. Cached(f, Other(w)) = Cached(st, Other(w)) /\ Dirty(f, Other(w)) = Dirty(st, Other(w))
    BY <1>1 DEF Cached, Dirty
  <2>3. \A i \in Cached(st, w) :
          /\ Tables(f, w)[i].val = Tables(st, w)[i].val
          /\ Tables(f, w)[i].dirty <=> Tables(st, w)[i].dirty /\ i \notin D
    <3> TAKE i \in Cached(st, w)
    <3>0. Tables(f, w)[i] =
            [val |-> Tables(st, w)[i].val, dirty |-> Tables(st, w)[i].dirty /\ i \notin D]
      BY <1>1, Zenon
    <3>1. Tables(f, w)[i].val = Tables(st, w)[i].val
      BY <3>0
    <3>2. Tables(f, w)[i].dirty = (Tables(st, w)[i].dirty /\ i \notin D)
      BY <3>0
    <3> QED BY <3>1, <3>2
  <2>4. Dirty(f, w) = Dirty(st, w) \ D
    BY <1>1, <2>3 DEF Dirty
  <2>5. D \subseteq Cached(st, w)
    BY DEF Dirty
  <2> QED BY <1>1, <2>1, <2>2, <2>3, <2>4, <2>5
<1>3. \A p \in Places : f.cur[p] \in f.poss[p]
  <2> SUFFICES ASSUME NEW p \in Places PROVE f.cur[p] \in f.poss[p]
    OBVIOUS
  <2>1. CASE p \notin {<<w, i>> : i \in D}
    BY <2>1, <1>1 DEF Sound, Valid, FileOk
  <2>2. CASE p \in {<<w, i>> : i \in D}
    <3>1. PICK i \in D : p = <<w, i>>
      BY <2>2
    <3> QED BY <3>1, <1>1
  <2> QED BY <2>1, <2>2
<1>3a. \A c \in Hosts, s \in Sectors : /\ f.cur[DataAt(c, s)] = st.cur[DataAt(c, s)]
                                         /\ f.poss[DataAt(c, s)] = st.poss[DataAt(c, s)]
  BY <1>1, DataPlaces
<1>3b. SnapshotCached(f)
  BY <1>2 DEF Sound, Faithful, SnapshotCached, Caches
<1>3c. \A g \in Shared : SnapTable(g) \in Hosts
  BY Qcow2Assumption
<1>4. CASE w = "rb"
  <2>1. \A b \in Blocks :
          IF b \in D
          THEN /\ f.cur[RbAt(b)] = Tables(st, "rb")[b].val
               /\ f.poss[RbAt(b)] = st.poss[RbAt(b)] \cup {Tables(st, "rb")[b].val}
          ELSE f.cur[RbAt(b)] = st.cur[RbAt(b)] /\ f.poss[RbAt(b)] = st.poss[RbAt(b)]
    BY <1>1, <1>4, TablePlaces DEF RbAt
  <2>2. \A t \in Hosts : f.cur[L2At(t)] = st.cur[L2At(t)] /\ f.poss[L2At(t)] = st.poss[L2At(t)]
    BY <1>1, <1>4, TablePlaces DEF L2At, Other
  <2>3. \A g \in Guests : f.poss[L1At(g)] = st.poss[L1At(g)]
    BY <1>1, TablePlaces
  <2>4. \A g \in Guests : L2Entry(f, g) = L2Entry(st, g) /\ OnDisk(f, g) = OnDisk(st, g)
    BY <1>1, <1>2, <2>2, TablesAreHosts DEF L2Entry, OnDisk, Sound, Safe, Caches
  <2>5. \A c \in Hosts : Count(f, c) = Count(st, c)
    BY <1>1, <1>2, <1>4, <2>1, BlockOf DEF Count, Counts, Caches
  <2>6. \A c \in Hosts : MayCount(f, c) \subseteq MayCount(st, c) \cup {Count(st, c)}
    BY <1>2, <1>4, <2>1, BlockOf DEF MayCount, Count, Counts
  <2>7. SameMemory(st, f)
    BY <1>1, <2>4, <2>5 DEF SameMemory
  <2>8. Safe(f, H, L)
    BY <1>1, <1>4, <2>4, <2>6, <2>7, SafeQuiet DEF Sound, Safe
  <2>9. FileOk(f)
    BY <1>1, <1>2, <1>3, <1>4, <2>1, <2>3 DEF Sound, Valid, FileOk, RbCacheOk
  <2>10. L2CacheOk(f)
    BY <1>1, <1>2, <1>4, <2>2, TablesAreHosts DEF Sound, Safe, Valid, L2CacheOk, Caches, Other
  <2>11. RbCacheOk(f)
    BY <1>2, <1>4, <2>1 DEF Sound, Valid, RbCacheOk, Caches
  <2>12. Valid(f)
    BY <1>1, <1>2, <2>9, <2>10, <2>11 DEF Sound, Valid, CacheOk, Acyclic, Caches
  <2>13. Faithful(f, L, ref)
    <3>1. f.dataOk /\ L \subseteq H
      BY <1>1 DEF Sound, Safe, Faithful
    <3>2. \A g \in Shared : f.poss[L2At(SnapTable(g))] \subseteq st.poss[L2At(SnapTable(g))]
      BY <1>3c, <2>2
    <3> QED BY <1>1, <1>3, <1>3a, <1>3b, <2>4, <3>1, <3>2, FaithfulQuiet DEF Caches
  <2> QED BY <1>1, <1>2, <2>7, <2>8, <2>12, <2>13 DEF Sound, f
<1>5. CASE w = "l2"
  <2>1. \A t \in Hosts :
          IF t \in D
          THEN /\ f.cur[L2At(t)] = Tables(st, "l2")[t].val
               /\ f.poss[L2At(t)] = st.poss[L2At(t)] \cup {Tables(st, "l2")[t].val}
          ELSE f.cur[L2At(t)] = st.cur[L2At(t)] /\ f.poss[L2At(t)] = st.poss[L2At(t)]
    BY <1>1, <1>5, TablePlaces DEF L2At
  <2>2. \A b \in Blocks : f.cur[RbAt(b)] = st.cur[RbAt(b)] /\ f.poss[RbAt(b)] = st.poss[RbAt(b)]
    BY <1>1, <1>5, TablePlaces DEF RbAt, Other
  <2>3. \A g \in Guests : f.poss[L1At(g)] = st.poss[L1At(g)]
    BY <1>1, TablePlaces
  <2>4. \A g \in Guests : L2Entry(f, g) = L2Entry(st, g)
    BY <1>1, <1>2, <1>5, <2>1, TablesAreHosts DEF L2Entry, Sound, Safe, Caches
  <2>5. \A g \in Guests : OnDisk(f, g) \subseteq May(st, g)
    BY <1>1, <1>2, <1>5, <2>1, TablesAreHosts DEF OnDisk, May, L2Entry, Sound, Safe, Caches
  <2>6. \A c \in Hosts : Count(f, c) = Count(st, c) /\ MayCount(f, c) = MayCount(st, c)
    BY <1>1, <1>2, <1>5, <2>2, BlockOf DEF Count, Counts, MayCount, Caches, Other
  <2>7. SameMemory(st, f)
    BY <1>1, <2>4, <2>6 DEF SameMemory
  <2>8. Safe(f, H, L)
    BY <1>1, <1>5, <2>5, <2>6, <2>7, SafeQuiet DEF Sound, Safe
  <2>9. FileOk(f)
    BY <1>1, <1>3, <2>2, <2>3 DEF Sound, Valid, FileOk
  <2>10. L2CacheOk(f)
    BY <1>1, <1>2, <1>5, <2>1, TablesAreHosts DEF Sound, Safe, Valid, L2CacheOk, Caches
  <2>11. RbCacheOk(f)
    BY <1>1, <1>2, <1>5, <2>2 DEF Sound, Valid, RbCacheOk, Caches, Other
  <2>12. Valid(f)
    BY <1>1, <1>2, <2>9, <2>10, <2>11 DEF Sound, Valid, CacheOk, Acyclic, Caches
  <2>13. Faithful(f, L, ref)
    <3>1. f.dataOk /\ L \subseteq H
      BY <1>1 DEF Sound, Safe, Faithful
    <3>2. \A g \in Shared : f.poss[L2At(SnapTable(g))] \subseteq st.poss[L2At(SnapTable(g))]
      BY <1>2, <1>3c, <1>5, <2>1 DEF Sound, Faithful, SnapshotFiled, SnapshotCached
    <3> QED BY <1>1, <1>3, <1>3a, <1>3b, <1>5, <2>4, <2>5, <3>1, <3>2, FaithfulQuiet DEF Caches
  <2> QED BY <1>1, <1>2, <2>7, <2>8, <2>12, <2>13 DEF Sound, f
<1> QED BY <1>4, <1>5 DEF Caches

\* A change that leaves all tables alone, in memory and on the disk.
SameTables(a, b) ==
    /\ b.l1 = a.l1 /\ b.free = a.free /\ b.refsOk = a.refsOk
    /\ \A w \in Caches : Tables(b, w) = Tables(a, w)
    /\ \A g \in Guests : b.poss[L1At(g)] = a.poss[L1At(g)]
    /\ \A t \in Hosts : b.cur[L2At(t)] = a.cur[L2At(t)] /\ b.poss[L2At(t)] = a.poss[L2At(t)]
    /\ \A i \in Blocks : b.cur[RbAt(i)] = a.cur[RbAt(i)] /\ b.poss[RbAt(i)] = a.poss[RbAt(i)]

\* Such a change leaves everything said about the tables alone.
LEMMA UnmovedTables ==
    ASSUME NEW a, NEW b, NEW H, NEW L, NEW ref, Sound(a, H, L, ref), SameTables(a, b),
           Image(b), Acyclic(b),
           \A p \in Places : b.cur[p] \in b.poss[p]
    PROVE  /\ Valid(b) /\ SameMemory(a, b) /\ Exclusive(b) /\ CountsNow(b) /\ CountsOnDisk(b)
           /\ \A w \in Caches : Cached(b, w) = Cached(a, w) /\ Dirty(b, w) = Dirty(a, w)
           /\ \A c : NowUses(b, c) <=> NowUses(a, c)
           /\ \A c : MayUse(b, c) <=> MayUse(a, c)
           /\ \A g \in Guests : May(b, g) = May(a, g) /\ OnDisk(b, g) = OnDisk(a, g)
           /\ \A c \in Hosts : MayCount(b, c) = MayCount(a, c)
<1>1. \A w \in Caches : Cached(b, w) = Cached(a, w) /\ Dirty(b, w) = Dirty(a, w)
  BY DEF SameTables, Cached, Dirty
<1>2. \A g \in Guests : L2Entry(b, g) = L2Entry(a, g) /\ OnDisk(b, g) = OnDisk(a, g)
  BY <1>1, TablesAreHosts DEF SameTables, L2Entry, OnDisk, Sound, Safe, Caches
<1>3. \A g \in Guests : May(b, g) = May(a, g)
  BY <1>2 DEF May
<1>4. \A c \in Hosts : Count(b, c) = Count(a, c) /\ MayCount(b, c) = MayCount(a, c)
  BY <1>1, BlockOf DEF SameTables, Count, Counts, MayCount, Caches
<1>5. SameMemory(a, b)
  BY <1>2, <1>4 DEF SameMemory, SameTables
<1>6. \A c : /\ NowUses(b, c) <=> NowUses(a, c)
             /\ MayUse(b, c) <=> MayUse(a, c)
             /\ DiskUses(b, c) <=> DiskUses(a, c)
  BY <1>2, <1>3 DEF NowUses, MayUse, DiskUses, SameTables
<1>7. Exclusive(b)
  BY <1>3 DEF Sound, Safe, Exclusive, SameTables
<1>8. CountsNow(b) /\ CountsOnDisk(b)
  BY <1>4, <1>6 DEF Sound, Safe, CountsNow, CountsOnDisk, Enough
<1>9. FileOk(b)
  BY DEF Sound, Valid, FileOk, SameTables
<1>10. L2CacheOk(b)
  BY <1>1, TablesAreHosts DEF Sound, Safe, Valid, L2CacheOk, SameTables, Caches
<1>11. RbCacheOk(b)
  BY <1>1 DEF Sound, Valid, RbCacheOk, SameTables, Caches
<1>12. Valid(b)
  BY <1>1, <1>9, <1>10, <1>11 DEF Sound, Valid, CacheOk, SameTables, Caches
<1> QED BY <1>1, <1>3, <1>4, <1>5, <1>6, <1>7, <1>8, <1>12, <1>2

\* ... and the image sound, when the dependencies stay as well and the
\* guest's data are safe.
LEMMA UnmovedSound ==
    ASSUME NEW a, NEW b, NEW H, NEW L, NEW ref, Sound(a, H, L, ref), SameTables(a, b), Image(b),
           \A p \in Places : b.cur[p] \in b.poss[p],
           \A w \in Caches : b.cache[w].depends = a.cache[w].depends,
           NEW new, Faithful(b, L, new)
    PROVE  Sound(b, H, L, new)
<1>1. Acyclic(b)
  BY DEF Acyclic, Caches, Sound, Valid
<1>2. /\ Valid(b) /\ SameMemory(a, b) /\ Exclusive(b) /\ CountsNow(b) /\ CountsOnDisk(b)
      /\ \A c : NowUses(b, c) <=> NowUses(a, c)
      /\ \A c : MayUse(b, c) <=> MayUse(a, c)
      /\ \A c \in Hosts : MayCount(b, c) = MayCount(a, c)
  BY <1>1, UnmovedTables
<1>3. Held(b, H)
  BY <1>2 DEF Held, SameMemory, Sound, Safe, Caches, Own, Enough
<1>4. CountsForL2(b, L) /\ CountsForRb(b)
  BY <1>2 DEF CountsForL2, CountsForRb, SameMemory, Sound, Safe, Caches, Enough
<1> QED BY <1>2, <1>3, <1>4 DEF Sound, Safe, SameTables

-----------------------------------------------------------------------------
(* Write-back keeps the image sound.                                       *)

\* From state a to state b tables are written, none is changed, and
\* dependencies are only dropped.
Steady(a, b) ==
    /\ SameMemory(a, b)
    /\ \A w \in Caches : /\ Cached(b, w) = Cached(a, w)
                         /\ \A i \in Cached(a, w) : Tables(b, w)[i].val = Tables(a, w)[i].val
                         /\ Dirty(b, w) \subseteq Dirty(a, w)
                         /\ b.cache[w].depends => a.cache[w].depends

\* All tables of a cache are clean, and the file is durable.
Settled(st, w) == Dirty(st, w) = {} /\ Clean(st)

\* Writing twice changes no table either.
LEMMA SteadyTransitive ==
    ASSUME NEW a, NEW b, NEW c, Steady(a, b), Steady(b, c)
    PROVE  Steady(a, c)
  BY DEF Steady, SameMemory

\* Nor does doing nothing.
LEMMA SteadyReflexive ==
    ASSUME NEW st
    PROVE  Steady(st, st)
  BY DEF Steady, SameMemory

\* bdrv_flush after a cache was written.
LEMMA FileFlushSettles ==
    ASSUME NEW st, NEW H, NEW L, NEW ref, Sound(st, H, L, ref)
    PROVE  LET f == FileFlush(st) IN
           /\ Sound(f, H, L, ref) /\ Steady(st, f)
           /\ f.cache = st.cache /\ Clean(f)
           /\ \A w \in Caches : Dirty(st, w) = {} => Settled(f, w)
<1> DEFINE f == FileFlush(st)
<1>1. Sound(f, H, L, ref) /\ SameMemory(st, f) /\ f.cache = st.cache
  BY FileFlushSound
<1>2. f.poss = [p \in Places |-> {st.cur[p]}] /\ f.cur = st.cur
  BY FileFlushFields DEF Sound, Valid
<1> HIDE DEF f
<1>3. Steady(st, f)
  BY <1>1 DEF Steady, Dirty, Cached, Tables
<1>4. \A w \in Caches : Dirty(st, w) = {} => Settled(f, w)
  BY <1>1, <1>2 DEF Settled, Clean, Dirty, Cached, Tables
<1>5. Clean(f)
  BY <1>2 DEF Clean
<1> QED BY <1>1, <1>3, <1>4, <1>5 DEF f

\* The end of a flush of what cache w depends on.
LEMMA NoDependencySound ==
    ASSUME NEW st, NEW H, NEW L, NEW ref, Sound(st, H, L, ref), NEW w \in Caches,
           ~ st.cache[Other(w)].depends, Settled(st, Other(w))
    PROVE  LET f == NoDependency(st, w) IN
           /\ Sound(f, H, L, ref) /\ Steady(st, f) /\ ~ f.cache[w].depends
           /\ ~ f.cache[w].onFlush
           /\ \A x \in Caches : Dirty(f, x) = Dirty(st, x)
<1> DEFINE f == NoDependency(st, w)
<1>1. /\ DOMAIN f = DOMAIN st /\ f.l1 = st.l1 /\ f.free = st.free /\ f.refsOk = st.refsOk
      /\ f.cur = st.cur /\ f.poss = st.poss
      /\ f.acc = st.acc /\ f.vis = st.vis /\ f.dataOk = st.dataOk
  BY DEF NoDependency, Sound, Valid, Image
<1>2. /\ DOMAIN f.cache = Caches
      /\ \A x \in Caches : /\ DOMAIN f.cache[x] = DOMAIN st.cache[x]
                           /\ f.cache[x].tables = st.cache[x].tables
      /\ ~ f.cache[w].depends /\ ~ f.cache[w].onFlush
      /\ f.cache[Other(w)].depends = st.cache[Other(w)].depends
  BY DEF NoDependency, Sound, Valid, Image, Shape, Other, Caches
<1> HIDE DEF f
<1>3. Image(f) /\ SameTables(st, f) /\ \A p \in Places : f.cur[p] \in f.poss[p]
  BY <1>1, <1>2 DEF Image, Shape, SameTables, Tables, Sound, Valid, FileOk
<1>4. Acyclic(f)
  BY <1>2 DEF Acyclic, Other, Caches
<1>5. /\ Valid(f) /\ SameMemory(st, f) /\ Exclusive(f) /\ CountsNow(f) /\ CountsOnDisk(f)
      /\ \A x \in Caches : Cached(f, x) = Cached(st, x) /\ Dirty(f, x) = Dirty(st, x)
      /\ \A c : NowUses(f, c) <=> NowUses(st, c)
      /\ \A c : MayUse(f, c) <=> MayUse(st, c)
      /\ \A c \in Hosts : MayCount(f, c) = MayCount(st, c)
      /\ \A g \in Guests : OnDisk(f, g) = OnDisk(st, g)
  BY <1>3, <1>4, UnmovedTables
<1>6. Steady(st, f)
  BY <1>2, <1>5 DEF Steady, Tables, Other, Caches
<1>6a. Faithful(f, L, ref)
  <2>1. Clean(f) /\ SnapshotCached(f) /\ L \subseteq H /\ f.dataOk
    BY <1>1, <1>3, <1>5 DEF Settled, Clean, Sound, Safe, Faithful, SnapshotCached, SameTables,
       Caches
  <2> QED BY <1>1, <1>3, <1>5, <2>1, FaithfulQuiet DEF SameMemory
<1>7. CASE w = "l2"
  <2>1. ~ st.cache["rb"].depends /\ ~ f.cache["rb"].depends /\ Settled(st, "rb")
    BY <1>2, <1>7 DEF Other
  <2>2. \A c \in Hosts : MayCount(st, c) = {Count(st, c)}
    <3> SUFFICES ASSUME NEW c \in Hosts PROVE MayCount(st, c) = {Count(st, c)}
      OBVIOUS
    <3>1. Block(c) \in Blocks /\ RbAt(Block(c)) \in Places
      BY BlockOf, TablePlaces
    <3>2. st.poss[RbAt(Block(c))] = {st.cur[RbAt(Block(c))]}
      BY <2>1, <3>1 DEF Settled, Clean
    <3>3. Counts(st, Block(c)) = st.cur[RbAt(Block(c))]
      BY <2>1 DEF Counts, Settled, Dirty, Sound, Valid, RbCacheOk
    <3> QED BY <3>2, <3>3 DEF MayCount, Count
  <2>3. CountsForL2(f, L)
    BY <1>5, <2>1, <2>2 DEF CountsForL2, CountsForRb, Sound, Safe, Held, Own, Enough
  <2>4. CountsForRb(f) /\ Held(f, H)
    BY <1>5, <2>1 DEF CountsForRb, Held, Sound, Safe, SameMemory, Own, Enough
  <2> QED BY <1>1, <1>2, <1>5, <1>6, <1>6a, <2>3, <2>4 DEF Sound, Safe, f
<1>8. CASE w = "rb"
  <2>1. ~ st.cache["l2"].depends /\ ~ f.cache["l2"].depends /\ Settled(st, "l2")
    BY <1>2, <1>8 DEF Other
  <2>2. \A g \in Guests : May(st, g) = {L2Entry(st, g)}
    <3> SUFFICES ASSUME NEW g \in Guests PROVE May(st, g) = {L2Entry(st, g)}
      OBVIOUS
    <3>1. CASE st.l1[g].c = 0
      BY <3>1 DEF May, OnDisk, L2Entry
    <3>2. CASE st.l1[g].c # 0
      <4>1. L2At(st.l1[g].c) \in Places
        BY <3>2, TablesAreHosts, TablePlaces DEF Sound, Safe
      <4>2. st.poss[L2At(st.l1[g].c)] = {st.cur[L2At(st.l1[g].c)]}
        BY <2>1, <4>1 DEF Settled, Clean
      <4>3. L2Entry(st, g) = st.cur[L2At(st.l1[g].c)]
        BY <2>1, <3>2 DEF L2Entry, Settled, Dirty, Sound, Valid, L2CacheOk
      <4> QED BY <3>2, <4>2, <4>3 DEF May, OnDisk
    <3> QED BY <3>1, <3>2
  <2>3. \A c : MayUse(f, c) <=> NowUses(f, c)
    BY <1>5, <2>2 DEF MayUse, NowUses
  <2>4. CountsForRb(f)
    BY <1>5, <2>3 DEF CountsForRb, CountsNow, Enough
  <2>5. Held(f, H)
    BY <1>5, <2>3 DEF Held, Sound, Safe, SameMemory, Own, Enough
  <2>6. CountsForL2(f, L)
    BY <1>5, <2>1 DEF CountsForL2, Sound, Safe, Enough
  <2> QED BY <1>1, <1>2, <1>5, <1>6, <1>6a, <2>4, <2>5, <2>6 DEF Sound, Safe, f
<1> QED BY <1>7, <1>8 DEF Caches

\* The flag depends_on_flush does not matter to the refcounts; the L2 tables
\* lose it when the file was just flushed.
LEMMA OnFlushSound ==
    ASSUME NEW st, NEW H, NEW L, NEW ref, Sound(st, H, L, ref), NEW w \in Caches, NEW v \in BOOLEAN,
           v \/ w = "rb" \/ Clean(st)
    PROVE  LET f == [st EXCEPT !.cache[w].onFlush = v] IN
           /\ Sound(f, H, L, ref) /\ Steady(st, f) /\ f.cache[w].onFlush = v
           /\ \A x \in Caches : Dirty(f, x) = Dirty(st, x)
           /\ \A x \in Caches : f.cache[x].depends = st.cache[x].depends
<1> DEFINE f == [st EXCEPT !.cache[w].onFlush = v]
<1>1. /\ DOMAIN f = DOMAIN st /\ f.l1 = st.l1 /\ f.free = st.free /\ f.refsOk = st.refsOk
      /\ f.cur = st.cur /\ f.poss = st.poss
      /\ f.acc = st.acc /\ f.vis = st.vis /\ f.dataOk = st.dataOk
  BY DEF Sound, Valid, Image
<1>2. /\ DOMAIN f.cache = Caches
      /\ \A x \in Caches : /\ DOMAIN f.cache[x] = DOMAIN st.cache[x]
                           /\ f.cache[x].tables = st.cache[x].tables
                           /\ f.cache[x].depends = st.cache[x].depends
      /\ f.cache[w].onFlush = v
      /\ \A x \in Caches : x # w => f.cache[x].onFlush = st.cache[x].onFlush
  BY DEF Sound, Valid, Image, Shape
<1> HIDE DEF f
<1>3. Image(f) /\ SameTables(st, f) /\ \A p \in Places : f.cur[p] \in f.poss[p]
  BY <1>1, <1>2 DEF Image, Shape, SameTables, Tables, Sound, Valid, FileOk
<1>3a. Acyclic(f)
  BY <1>2 DEF Acyclic, Caches, Sound, Valid
<1>5. /\ SameMemory(st, f)
      /\ \A x \in Caches : Cached(f, x) = Cached(st, x) /\ Dirty(f, x) = Dirty(st, x)
      /\ \A g \in Guests : OnDisk(f, g) = OnDisk(st, g)
  BY <1>3, <1>3a, UnmovedTables
<1>6. Faithful(f, L, ref)
  <2>1. SnapshotCached(f) /\ L \subseteq H /\ f.dataOk
    BY <1>1, <1>3, <1>5 DEF Sound, Safe, Faithful, SnapshotCached, SameTables, Caches
  <2>2. ~ f.cache["l2"].depends /\ ~ f.cache["l2"].onFlush =>
          \/ Clean(f)
          \/ ~ st.cache["l2"].depends /\ ~ st.cache["l2"].onFlush /\ L \subseteq L
    BY <1>1, <1>2 DEF Clean, Caches
  <2> QED BY <1>1, <1>3, <1>5, <2>1, <2>2, FaithfulQuiet DEF SameMemory
<1>4. Sound(f, H, L, ref)
  BY <1>2, <1>3, <1>6, UnmovedSound
<1> QED BY <1>2, <1>4, <1>5 DEF Steady, Tables, f

\* The flush that depends_on_flush asks for.
LEMMA AwaitFlushSound ==
    ASSUME NEW st, NEW H, NEW L, NEW ref, Sound(st, H, L, ref), NEW w \in Caches
    PROVE  LET f == AwaitFlush(st, w) IN
           /\ Sound(f, H, L, ref) /\ Steady(st, f) /\ ~ f.cache[w].onFlush
           /\ \A x \in Caches : Dirty(f, x) = Dirty(st, x)
<1> DEFINE a == FileFlush(st)
           b == [a EXCEPT !.cache[w].onFlush = FALSE]
<1>1. Sound(a, H, L, ref) /\ Steady(st, a) /\ a.cache = st.cache /\ Clean(a)
  BY FileFlushSettles
<1>2. \A x \in Caches : Dirty(a, x) = Dirty(st, x)
  BY <1>1 DEF Dirty, Cached, Tables
<1> HIDE DEF a
<1>3. Sound(b, H, L, ref) /\ Steady(a, b) /\ ~ b.cache[w].onFlush
      /\ \A x \in Caches : Dirty(b, x) = Dirty(a, x)
  BY <1>1, OnFlushSound
<1> HIDE DEF b
<1>4. Sound(b, H, L, ref) /\ Steady(st, b) /\ ~ b.cache[w].onFlush
      /\ \A x \in Caches : Dirty(b, x) = Dirty(st, x)
  BY <1>1, <1>2, <1>3, SteadyTransitive
<1> QED BY <1>4, SteadyReflexive DEF AwaitFlush, a, b

\* qcow2_cache_flush_dependency, as far as it writes the other cache.
LEMMA FlushBaseSound ==
    ASSUME NEW st, NEW H, NEW L, NEW ref, Sound(st, H, L, ref), NEW w \in Caches,
           ~ st.cache[w].depends
    PROVE  LET f == FlushBase(st, w) IN
           /\ Sound(f, H, L, ref) /\ Steady(st, f) /\ Settled(f, w)
           /\ Dirty(f, Other(w)) = Dirty(st, Other(w))
<1> DEFINE D == Dirty(st, w)
           a == AwaitFlush(st, w)
           b == WriteTables(a, w, D)
           c == IF D = {} THEN st ELSE b
<1>0. Other(w) \in Caches /\ Other(w) # w
  BY DEF Other, Caches
<1>1. Sound(a, H, L, ref) /\ Steady(st, a) /\ ~ a.cache[w].onFlush
      /\ \A x \in Caches : Dirty(a, x) = Dirty(st, x)
  BY AwaitFlushSound
<1> HIDE DEF a
<1>2. ~ a.cache[w].depends /\ D \in SUBSET Dirty(a, w)
  BY <1>1 DEF Steady
<1>3. /\ Sound(b, H, L, ref) /\ SameMemory(a, b)
      /\ \A x \in Caches : b.cache[x].depends = a.cache[x].depends
      /\ \A x \in Caches : Cached(b, x) = Cached(a, x)
      /\ \A x \in Caches : \A i \in Cached(a, x) : Tables(b, x)[i].val = Tables(a, x)[i].val
      /\ Dirty(b, w) = Dirty(a, w) \ D
      /\ \A x \in Caches : Dirty(b, x) \subseteq Dirty(a, x)
  BY <1>1, <1>2, WriteTablesSound
<1>4. Steady(a, b)
  BY <1>3 DEF Steady
<1>5. Dirty(b, Other(w)) = Dirty(a, Other(w))
  <2>1. Tables(b, Other(w)) = Tables(a, Other(w))
    BY <1>1, WriteTablesFields DEF Sound, Valid
  <2> QED BY <2>1 DEF Dirty, Cached
<1> HIDE DEF b
<1>6. Sound(c, H, L, ref) /\ Steady(st, c) /\ Dirty(c, w) = {}
      /\ Dirty(c, Other(w)) = Dirty(st, Other(w))
  BY <1>0, <1>1, <1>3, <1>4, <1>5, SteadyTransitive, SteadyReflexive
<1> HIDE DEF c
<1>7. /\ Sound(FileFlush(c), H, L, ref) /\ Steady(c, FileFlush(c))
      /\ FileFlush(c).cache = c.cache /\ Settled(FileFlush(c), w)
  BY <1>6, FileFlushSettles
<1>8. Dirty(FileFlush(c), Other(w)) = Dirty(c, Other(w))
  BY <1>7 DEF Dirty, Cached, Tables
<1>9. FlushBase(st, w) = FileFlush(c)
  BY DEF FlushBase, a, b, c
<1> QED BY <1>6, <1>7, <1>8, <1>9, SteadyTransitive

\* qcow2_cache_flush_dependency.
LEMMA FlushDependencySound ==
    ASSUME NEW st, NEW H, NEW L, NEW ref, Sound(st, H, L, ref), NEW w \in Caches,
           ~ st.cache[Other(w)].depends
    PROVE  LET f == FlushDependency(st, w) IN
           /\ Sound(f, H, L, ref) /\ Steady(st, f) /\ ~ f.cache[w].depends
           /\ ~ f.cache[w].onFlush
           /\ Dirty(f, w) = Dirty(st, w)
<1> DEFINE a == FlushBase(st, Other(w))
<1>0. Other(w) \in Caches /\ Other(Other(w)) = w
  BY DEF Other, Caches
<1>1. /\ Sound(a, H, L, ref) /\ Steady(st, a) /\ Settled(a, Other(w))
      /\ Dirty(a, w) = Dirty(st, w)
  BY <1>0, FlushBaseSound
<1>2. ~ a.cache[Other(w)].depends
  BY <1>0, <1>1 DEF Steady
<1> HIDE DEF a
<1>3. /\ Sound(NoDependency(a, w), H, L, ref) /\ Steady(a, NoDependency(a, w))
      /\ ~ NoDependency(a, w).cache[w].depends /\ ~ NoDependency(a, w).cache[w].onFlush
      /\ Dirty(NoDependency(a, w), w) = Dirty(a, w)
  BY <1>1, <1>2, NoDependencySound
<1> QED BY <1>1, <1>3, SteadyTransitive DEF FlushDependency, a

\* What precedes the write of a table of cache w.
LEMMA BeforeWriteSound ==
    ASSUME NEW st, NEW H, NEW L, NEW ref, Sound(st, H, L, ref), NEW w \in Caches
    PROVE  LET f == BeforeWrite(st, w) IN
           /\ Sound(f, H, L, ref) /\ Steady(st, f) /\ ~ f.cache[w].depends
           /\ ~ f.cache[w].onFlush
           /\ Dirty(f, w) = Dirty(st, w)
<1>1. CASE st.cache[w].depends
  <2>1. ~ st.cache[Other(w)].depends
    BY <1>1 DEF Sound, Valid, Acyclic, Other, Caches
  <2> QED BY <1>1, <2>1, FlushDependencySound DEF BeforeWrite
<1>2. CASE ~ st.cache[w].depends
  BY <1>2, AwaitFlushSound DEF BeforeWrite, Steady
<1> QED BY <1>1, <1>2

\* The dirty tables D are written, after what they depend on.
LEMMA WriteBackSound ==
    ASSUME NEW st, NEW H, NEW L, NEW ref, Sound(st, H, L, ref), NEW w \in Caches,
           NEW D \in SUBSET Dirty(st, w)
    PROVE  LET f == WriteTables(BeforeWrite(st, w), w, D) IN
           /\ Sound(f, H, L, ref) /\ Steady(st, f) /\ ~ f.cache[w].depends /\ ~ f.cache[w].onFlush
           /\ Dirty(f, w) = Dirty(st, w) \ D
<1> DEFINE a == BeforeWrite(st, w)
           b == WriteTables(a, w, D)
<1>1. Sound(a, H, L, ref) /\ Steady(st, a) /\ ~ a.cache[w].depends /\ ~ a.cache[w].onFlush
      /\ Dirty(a, w) = Dirty(st, w)
  BY BeforeWriteSound
<1> HIDE DEF a
<1>2. /\ Sound(b, H, L, ref) /\ SameMemory(a, b)
      /\ \A x \in Caches : /\ b.cache[x].depends = a.cache[x].depends
                          /\ b.cache[x].onFlush = a.cache[x].onFlush
      /\ \A x \in Caches : Cached(b, x) = Cached(a, x)
      /\ \A x \in Caches : \A i \in Cached(a, x) : Tables(b, x)[i].val = Tables(a, x)[i].val
      /\ Dirty(b, w) = Dirty(a, w) \ D
      /\ \A x \in Caches : Dirty(b, x) \subseteq Dirty(a, x)
  BY <1>1, WriteTablesSound
<1> HIDE DEF b
<1>3. Steady(a, b)
  BY <1>2 DEF Steady
<1> QED BY <1>1, <1>2, <1>3, SteadyTransitive DEF a, b

\* qcow2_cache_entry_flush.
LEMMA EntryFlushSound ==
    ASSUME NEW st, NEW H, NEW L, NEW ref, Sound(st, H, L, ref), NEW w \in Caches,
           NEW i \in Cached(st, w)
    PROVE  LET f == EntryFlush(st, w, i) IN
           Sound(f, H, L, ref) /\ Steady(st, f) /\ i \notin Dirty(f, w)
<1>1. CASE i \in Dirty(st, w)
  BY <1>1, WriteBackSound DEF EntryFlush, Dirty
<1>2. CASE i \notin Dirty(st, w)
  BY <1>2, SteadyReflexive DEF EntryFlush, Dirty
<1> QED BY <1>1, <1>2

\* qcow2_cache_flush.
LEMMA CacheFlushSound ==
    ASSUME NEW st, NEW H, NEW L, NEW ref, Sound(st, H, L, ref), NEW w \in Caches
    PROVE  LET f == CacheFlush(st, w) IN
           /\ Sound(f, H, L, ref) /\ Steady(st, f) /\ Settled(f, w)
           /\ Dirty(st, w) # {} => ~ f.cache[w].depends /\ ~ f.cache[w].onFlush
<1> DEFINE b == WriteTables(BeforeWrite(st, w), w, Dirty(st, w))
           c == IF Dirty(st, w) = {} THEN st ELSE b
<1>1. Sound(b, H, L, ref) /\ Steady(st, b) /\ ~ b.cache[w].depends /\ ~ b.cache[w].onFlush
      /\ Dirty(b, w) = {}
  BY WriteBackSound
<1> HIDE DEF b
<1>2. /\ Sound(c, H, L, ref) /\ Steady(st, c) /\ Dirty(c, w) = {}
      /\ Dirty(st, w) # {} => ~ c.cache[w].depends /\ ~ c.cache[w].onFlush
  BY <1>1, SteadyReflexive
<1> HIDE DEF c
<1>3. /\ Sound(FileFlush(c), H, L, ref) /\ Steady(c, FileFlush(c))
      /\ FileFlush(c).cache = c.cache /\ Settled(FileFlush(c), w)
  BY <1>2, FileFlushSettles
<1>4. CacheFlush(st, w) = FileFlush(c)
  BY DEF CacheFlush, b, c
<1> QED BY <1>2, <1>3, <1>4, SteadyTransitive

\* From state a to state b no table is changed, but dependencies may be.
Retains(a, b) ==
    /\ SameMemory(a, b)
    /\ \A w \in Caches : /\ Cached(b, w) = Cached(a, w)
                         /\ \A i \in Cached(a, w) : Tables(b, w)[i].val = Tables(a, w)[i].val

\* A new dependency, where the other cache has none.  When it is the L2
\* tables that wait for the refcounts, they may come to refer to any cluster
\* that a request holds.
LEMMA DependsSound ==
    ASSUME NEW st, NEW H, NEW L, NEW ref, Sound(st, H, L, ref), NEW w \in Caches,
           ~ st.cache[Other(w)].depends,
           NEW M, M = L \/ (w = "l2" /\ M \subseteq H)
    PROVE  LET f == [st EXCEPT !.cache[w].depends = TRUE] IN
           /\ Sound(f, H, M, ref) /\ Retains(st, f)
           /\ f.cache[w].depends /\ ~ f.cache[Other(w)].depends
<1> DEFINE f == [st EXCEPT !.cache[w].depends = TRUE]
<1>1. /\ DOMAIN f = DOMAIN st /\ f.l1 = st.l1 /\ f.free = st.free /\ f.refsOk = st.refsOk
      /\ f.cur = st.cur /\ f.poss = st.poss
      /\ f.acc = st.acc /\ f.vis = st.vis /\ f.dataOk = st.dataOk
  BY DEF Sound, Valid, Image
<1>2. /\ DOMAIN f.cache = Caches
      /\ \A x \in Caches : /\ DOMAIN f.cache[x] = DOMAIN st.cache[x]
                           /\ f.cache[x].tables = st.cache[x].tables
                           /\ f.cache[x].onFlush = st.cache[x].onFlush
      /\ f.cache[w].depends
      /\ f.cache[Other(w)].depends = st.cache[Other(w)].depends
  BY DEF Sound, Valid, Image, Shape, Other, Caches
<1> HIDE DEF f
<1>3. Image(f) /\ SameTables(st, f) /\ \A p \in Places : f.cur[p] \in f.poss[p]
  BY <1>1, <1>2 DEF Image, Shape, SameTables, Tables, Sound, Valid, FileOk
<1>4. Acyclic(f)
  BY <1>2 DEF Acyclic, Other, Caches
<1>5. /\ Valid(f) /\ SameMemory(st, f) /\ Exclusive(f) /\ CountsNow(f) /\ CountsOnDisk(f)
      /\ \A x \in Caches : Cached(f, x) = Cached(st, x) /\ Dirty(f, x) = Dirty(st, x)
      /\ \A c : NowUses(f, c) <=> NowUses(st, c)
      /\ \A c : MayUse(f, c) <=> MayUse(st, c)
      /\ \A c \in Hosts : MayCount(f, c) = MayCount(st, c)
      /\ \A g \in Guests : OnDisk(f, g) = OnDisk(st, g)
  BY <1>3, <1>4, UnmovedTables
<1>6. Retains(st, f)
  BY <1>2, <1>5 DEF Retains, Tables
<1>7. \A x \in Caches : ~ f.cache[x].depends => ~ st.cache[x].depends /\ x # w
  BY <1>2 DEF Other, Caches
<1>8. Held(f, H)
  BY <1>5, <1>7 DEF Held, Sound, Safe, SameMemory, Own, Caches, Enough
<1>9. CountsForL2(f, M)
  BY <1>5, <1>7 DEF CountsForL2, Sound, Safe, Enough, Caches
<1>10. CountsForRb(f)
  BY <1>5, <1>7 DEF CountsForRb, Sound, Safe, SameMemory, Enough, Caches
<1>11. M \subseteq H
  BY DEF Sound, Safe
<1>12. Faithful(f, M, ref)
  <2>1. SnapshotCached(f) /\ f.dataOk
    BY <1>1, <1>3, <1>5 DEF Sound, Safe, Faithful, SnapshotCached, SameTables, Caches
  <2>2. ~ f.cache["l2"].depends /\ ~ f.cache["l2"].onFlush =>
          ~ st.cache["l2"].depends /\ ~ st.cache["l2"].onFlush /\ M \subseteq L
    BY <1>2, <1>7 DEF Caches
  <2> QED BY <1>1, <1>3, <1>5, <1>11, <2>1, <2>2, FaithfulQuiet DEF SameMemory
<1> QED BY <1>1, <1>2, <1>5, <1>6, <1>8, <1>9, <1>10, <1>11, <1>12 DEF Sound, Safe, f

\* qcow2_cache_set_dependency.
LEMMA SetDependencySound ==
    ASSUME NEW st, NEW H, NEW L, NEW ref, Sound(st, H, L, ref), NEW w \in Caches,
           NEW M, M = L \/ (w = "l2" /\ M \subseteq H)
    PROVE  LET f == SetDependency(st, w) IN
           /\ Sound(f, H, M, ref) /\ Retains(st, f)
           /\ f.cache[w].depends /\ ~ f.cache[Other(w)].depends
<1> DEFINE a == IF st.cache[Other(w)].depends THEN FlushDependency(st, Other(w)) ELSE st
<1>0. Other(w) \in Caches /\ Other(Other(w)) = w
  BY DEF Other, Caches
<1>1. st.cache[Other(w)].depends => ~ st.cache[w].depends
  BY DEF Sound, Valid, Acyclic, Other, Caches
<1>2. Sound(a, H, L, ref) /\ Steady(st, a) /\ ~ a.cache[Other(w)].depends
  BY <1>0, <1>1, FlushDependencySound, SteadyReflexive
<1> HIDE DEF a
<1>3. LET f == [a EXCEPT !.cache[w].depends = TRUE] IN
        /\ Sound(f, H, M, ref) /\ Retains(a, f)
        /\ f.cache[w].depends /\ ~ f.cache[Other(w)].depends
  BY <1>2, DependsSound
<1>4. SetDependency(st, w) = [a EXCEPT !.cache[w].depends = TRUE]
  BY DEF SetDependency, a
<1>5. \A f : Retains(a, f) => Retains(st, f)
  BY <1>2 DEF Retains, Steady, SameMemory
<1> QED BY <1>3, <1>4, <1>5

-----------------------------------------------------------------------------
(* Tables come into the caches.                                            *)

\* Only the cached tables of a cache change.
OnlyTables(a, b, w) ==
    /\ Image(b)
    /\ b.l1 = a.l1 /\ b.free = a.free /\ b.refsOk = a.refsOk /\ b.cur = a.cur /\ b.poss = a.poss
    /\ b.acc = a.acc /\ b.vis = a.vis /\ b.dataOk = a.dataOk
    /\ \A x \in Caches : /\ b.cache[x].depends = a.cache[x].depends
                         /\ b.cache[x].onFlush = a.cache[x].onFlush
    /\ Tables(b, Other(w)) = Tables(a, Other(w))

\* They do where a cache is given other tables.
LEMMA TablesFields ==
    ASSUME NEW st, Image(st), NEW w \in Caches, NEW T
    PROVE  LET f == [st EXCEPT !.cache[w].tables = T] IN
           OnlyTables(st, f, w) /\ Tables(f, w) = T
<1> DEFINE f == [st EXCEPT !.cache[w].tables = T]
<1>1. /\ DOMAIN f = DOMAIN st /\ f.l1 = st.l1 /\ f.free = st.free /\ f.refsOk = st.refsOk
      /\ f.cur = st.cur /\ f.poss = st.poss
      /\ f.acc = st.acc /\ f.vis = st.vis /\ f.dataOk = st.dataOk
  BY DEF Image
<1>2. /\ DOMAIN f.cache = Caches
      /\ \A x \in Caches : /\ DOMAIN f.cache[x] = DOMAIN st.cache[x]
                           /\ f.cache[x].depends = st.cache[x].depends
                           /\ f.cache[x].onFlush = st.cache[x].onFlush
      /\ f.cache[w].tables = T
      /\ f.cache[Other(w)].tables = st.cache[Other(w)].tables
  BY DEF Image, Shape, Other, Caches
<1> HIDE DEF f
<1> QED BY <1>1, <1>2 DEF OnlyTables, Tables, Image, Shape, f

\* A cache that reads the same as before.
LEMMA CacheChange ==
    ASSUME NEW a, NEW b, NEW H, NEW L, NEW ref, Sound(a, H, L, ref), NEW w \in Caches,
           OnlyTables(a, b, w),
           CacheOk(b, "l2"), CacheOk(b, "rb"), L2CacheOk(b), RbCacheOk(b),
           SnapshotCached(b),
           \A g \in Guests : L2Entry(b, g) = L2Entry(a, g),
           \A c \in Hosts : Count(b, c) = Count(a, c)
    PROVE  Sound(b, H, L, ref) /\ SameMemory(a, b)
<1>1. SameMemory(a, b)
  BY DEF SameMemory, OnlyTables
<1>2. \A g \in Guests : OnDisk(b, g) = OnDisk(a, g)
  BY DEF OnDisk, OnlyTables
<1>3. \A c \in Hosts : MayCount(b, c) = MayCount(a, c)
  BY DEF MayCount, OnlyTables
<1>4. Safe(b, H, L)
  BY <1>1, <1>2, <1>3, SafeQuiet DEF OnlyTables, Sound, Safe
<1>5. FileOk(b) /\ Acyclic(b)
  BY DEF Sound, Valid, FileOk, OnlyTables, Acyclic, Caches
<1>6. Faithful(b, L, ref)
  <2>1. b.dataOk /\ L \subseteq H /\ \A p \in Places : b.cur[p] \in b.poss[p]
    BY <1>5 DEF Sound, Safe, Faithful, FileOk, OnlyTables
  <2>2. /\ b.acc = a.acc /\ b.vis = a.vis /\ b.cur = a.cur /\ b.poss = a.poss
        /\ b.cache["l2"].depends = a.cache["l2"].depends
        /\ b.cache["l2"].onFlush = a.cache["l2"].onFlush
    BY DEF OnlyTables, Caches
  <2> QED BY <1>2, <2>1, <2>2, FaithfulQuiet
<1> QED BY <1>1, <1>4, <1>5, <1>6 DEF Sound, Valid, OnlyTables

\* A clean table may leave the cache.
Dropped(st, w, old) == [st EXCEPT !.cache[w].tables = Restrict(@, DOMAIN @ \ {old})]

\* It reads the same afterwards.
LEMMA DropSound ==
    ASSUME NEW st, NEW H, NEW L, NEW ref, Sound(st, H, L, ref), NEW w \in Caches,
           NEW old \in Cached(st, w), old \notin Dirty(st, w)
    PROVE  LET f == Dropped(st, w, old) IN
           /\ Sound(f, H, L, ref) /\ SameMemory(st, f)
           /\ \A x \in Caches : f.cache[x].depends = st.cache[x].depends
           /\ Cached(f, w) = Cached(st, w) \ {old}
           /\ \A i \in Cached(f, w) : Tables(f, w)[i] = Tables(st, w)[i]
           /\ Cardinality(Cached(f, w)) = Cardinality(Cached(st, w)) - 1
           /\ Cached(f, Other(w)) = Cached(st, Other(w))
<1> DEFINE T == Restrict(Tables(st, w), Cached(st, w) \ {old})
           f == [st EXCEPT !.cache[w].tables = T]
<1>1. f = Dropped(st, w, old)
  BY DEF Tables, Cached, Dropped
<1>2. DOMAIN T = Cached(st, w) \ {old} /\ \A i \in DOMAIN T : T[i] = Tables(st, w)[i]
  BY DEF Restrict
<1> HIDE DEF T
<1>3. OnlyTables(st, f, w) /\ Tables(f, w) = T
  BY TablesFields DEF Sound, Valid
<1> HIDE DEF f
<1>4. /\ Cached(f, w) = Cached(st, w) \ {old}
      /\ \A i \in Cached(f, w) : Tables(f, w)[i] = Tables(st, w)[i]
      /\ Cached(f, Other(w)) = Cached(st, Other(w))
  BY <1>2, <1>3 DEF Cached, OnlyTables
<1>5. IsFiniteSet(Cached(st, w)) /\ Cardinality(Cached(st, w)) <= Size(w)
  BY DEF Sound, Valid, CacheOk, Caches
<1>6. /\ IsFiniteSet(Cached(f, w)) /\ Cardinality(Cached(st, w)) \in Nat
      /\ Cardinality(Cached(f, w)) = Cardinality(Cached(st, w)) - 1
  BY <1>4, <1>5, FS_RemoveElement, FS_CardinalityType
<1>7. Size(w) \in Nat
  BY Qcow2Assumption DEF Size
<1>8. CacheOk(f, w) /\ CacheOk(f, Other(w))
  BY <1>4, <1>5, <1>6, <1>7 DEF CacheOk, Sound, Valid, Caches, Other
<1>9. CacheOk(f, "l2") /\ CacheOk(f, "rb")
  BY <1>8 DEF Caches, Other
<1>10. L2CacheOk(f) /\ RbCacheOk(f)
  BY <1>3, <1>4 DEF L2CacheOk, RbCacheOk, Sound, Valid, OnlyTables, Caches, Other
<1>11. \A g \in Guests : L2Entry(f, g) = L2Entry(st, g)
  BY <1>3, <1>4 DEF L2Entry, OnlyTables, Caches, Other, Sound, Valid, L2CacheOk, Dirty
<1>12. \A c \in Hosts : Count(f, c) = Count(st, c)
  BY <1>3, <1>4 DEF Count, Counts, OnlyTables, Caches, Other, Sound, Valid, RbCacheOk, Dirty
<1>12a. SnapshotCached(f)
  BY <1>3, <1>4 DEF SnapshotCached, Sound, Faithful, OnlyTables, Caches, Other
<1>13. Sound(f, H, L, ref) /\ SameMemory(st, f)
  BY <1>3, <1>9, <1>10, <1>11, <1>12, <1>12a, CacheChange
<1> QED BY <1>1, <1>3, <1>4, <1>6, <1>13 DEF OnlyTables

\* What may come into a cache: the table on the disk, or an L2 table that is
\* not in use yet.
Loadable(st, w, i, val) ==
    \/ w = "rb" /\ i \in Blocks /\ val = st.cur[RbAt(i)]
    \/ /\ w = "l2" /\ i \in Hosts
       /\ \/ val = st.cur[L2At(i)] /\ \E g \in Guests : st.l1[g].c = i
          \/ i \in Own /\ \A g \in Guests : st.l1[g].c # i

\* A table comes into a cache that has room.
LEMMA InstallSound ==
    ASSUME NEW st, NEW H, NEW L, NEW ref, Sound(st, H, L, ref), NEW w \in Caches,
           NEW i, i \notin Cached(st, w), NEW val, Loadable(st, w, i, val),
           Cardinality(Cached(st, w)) < Size(w)
    PROVE  LET f == Install(st, w, i, val) IN
           /\ Sound(f, H, L, ref) /\ SameMemory(st, f)
           /\ \A x \in Caches : f.cache[x].depends = st.cache[x].depends
           /\ Cached(f, w) = Cached(st, w) \cup {i}
           /\ \A j \in Cached(st, w) : Tables(f, w)[j] = Tables(st, w)[j]
           /\ Cached(f, Other(w)) = Cached(st, Other(w))
<1> DEFINE T == [j \in Cached(st, w) \cup {i} |->
                   IF j = i THEN [val |-> val, dirty |-> FALSE] ELSE Tables(st, w)[j]]
           f == [st EXCEPT !.cache[w].tables = T]
<1>1. f = Install(st, w, i, val)
  BY DEF Tables, Cached, Install
<1>2. /\ DOMAIN T = Cached(st, w) \cup {i}
      /\ \A j \in Cached(st, w) : T[j] = Tables(st, w)[j]
      /\ T[i].val = val
  OBVIOUS
<1> HIDE DEF T
<1>3. OnlyTables(st, f, w) /\ Tables(f, w) = T
  BY TablesFields DEF Sound, Valid
<1> HIDE DEF f
<1>4. /\ Cached(f, w) = Cached(st, w) \cup {i}
      /\ \A j \in Cached(st, w) : Tables(f, w)[j] = Tables(st, w)[j]
      /\ Tables(f, w)[i].val = val
      /\ Cached(f, Other(w)) = Cached(st, Other(w))
  BY <1>2, <1>3 DEF Cached, OnlyTables
<1>5. IsFiniteSet(Cached(st, w))
  BY DEF Sound, Valid, CacheOk, Caches
<1>6. /\ IsFiniteSet(Cached(f, w)) /\ Cardinality(Cached(st, w)) \in Nat
      /\ Cardinality(Cached(f, w)) = Cardinality(Cached(st, w)) + 1
  BY <1>4, <1>5, FS_AddElement, FS_CardinalityType
<1>7. Size(w) \in Nat
  BY Qcow2Assumption DEF Size
<1>8. CacheOk(f, w) /\ CacheOk(f, Other(w))
  BY <1>4, <1>5, <1>6, <1>7 DEF CacheOk, Sound, Valid, Caches, Other
<1>9. CacheOk(f, "l2") /\ CacheOk(f, "rb")
  BY <1>8 DEF Caches, Other
<1>10. \A b \in Blocks : st.cur[RbAt(b)] \in CountFns(b)
  BY TablePlaces DEF Sound, Valid, FileOk
<1>11. L2CacheOk(f)
  BY <1>3, <1>4 DEF Loadable, L2CacheOk, Sound, Valid, OnlyTables, Caches, Other
<1>12. RbCacheOk(f)
  BY <1>3, <1>4, <1>10 DEF Loadable, RbCacheOk, Sound, Valid, OnlyTables, Caches, Other
<1>13. \A g \in Guests : L2Entry(f, g) = L2Entry(st, g)
  BY <1>3, <1>4 DEF Loadable, L2Entry, OnlyTables, Caches, Other
<1>14. \A c \in Hosts : Count(f, c) = Count(st, c)
  BY <1>3, <1>4 DEF Loadable, Count, Counts, OnlyTables, Caches, Other
<1>14a. SnapshotCached(f)
  <2> SUFFICES ASSUME NEW g \in Shared, SnapTable(g) \in Cached(f, "l2")
               PROVE  Tables(f, "l2")[SnapTable(g)].val = Entry(SnapData(g), FALSE)
    BY DEF SnapshotCached
  <2>1. CASE SnapTable(g) \in Cached(st, "l2")
    BY <1>3, <1>4, <2>1 DEF SnapshotCached, Sound, Faithful, OnlyTables, Caches, Other
  <2>2. CASE SnapTable(g) \notin Cached(st, "l2")
    <3>1. w = "l2" /\ i = SnapTable(g)
      BY <1>3, <1>4, <2>2 DEF OnlyTables, Caches, Other, Cached
    <3>2. SnapTable(g) \in Hosts /\ SnapTable(g) \notin Own
      BY Qcow2Assumption DEF Own, Snapshot
    <3>3. val = st.cur[L2At(SnapTable(g))]
      BY <3>1, <3>2 DEF Loadable
    <3>4. st.cur[L2At(SnapTable(g))] \in st.poss[L2At(SnapTable(g))]
      BY <3>2, TablePlaces DEF Sound, Valid, FileOk
    <3> QED BY <1>4, <3>1, <3>3, <3>4 DEF Sound, Faithful, SnapshotFiled
  <2> QED BY <2>1, <2>2
<1>15. Sound(f, H, L, ref) /\ SameMemory(st, f)
  BY <1>3, <1>9, <1>11, <1>12, <1>13, <1>14, <1>14a, CacheChange
<1> QED BY <1>1, <1>3, <1>4, <1>15 DEF OnlyTables

\* What may come into the cache may still do so after a write-back.
LEMMA LoadableSteady ==
    ASSUME NEW a, NEW b, NEW H, NEW L, NEW ref, Sound(a, H, L, ref), Sound(b, H, L, ref),
           Steady(a, b),
           NEW w \in Caches, NEW i, i \notin Cached(a, w), NEW val, Loadable(a, w, i, val)
    PROVE  Loadable(b, w, i, val)
<1>1. CASE w = "rb"
  <2>1. i \in Blocks /\ val = a.cur[RbAt(i)] /\ i \notin Cached(a, "rb") /\ i \notin Cached(b, "rb")
    BY <1>1 DEF Loadable, Steady
  <2>2. a.cur[RbAt(i)] \in CountFns(i) /\ b.cur[RbAt(i)] \in CountFns(i)
    BY <2>1, TablePlaces DEF Sound, Valid, FileOk
  <2>3. \A c \in Hosts : Block(c) = i => a.cur[RbAt(i)][c] = b.cur[RbAt(i)][c]
    BY <2>1 DEF Steady, SameMemory, Count, Counts
  <2>4. a.cur[RbAt(i)] = b.cur[RbAt(i)]
    BY <2>2, <2>3 DEF CountFns
  <2> QED BY <1>1, <2>1, <2>4 DEF Loadable
<1>2. CASE w = "l2"
  <2>1. CASE \A g \in Guests : a.l1[g].c # i
    BY <1>2, <2>1 DEF Loadable, Steady, SameMemory
  <2>2. CASE ~ \A g \in Guests : a.l1[g].c # i
    <3>1. PICK g \in Guests : a.l1[g].c = i
      BY <2>2
    <3>2. i \in Hosts /\ val = a.cur[L2At(i)]
      BY <1>2, <2>2 DEF Loadable
    <3>3. i # 0
      BY <3>2, HostNumbers
    <3>4. L2Entry(a, g) = a.cur[L2At(i)] /\ L2Entry(b, g) = b.cur[L2At(i)]
      BY <1>2, <3>1, <3>3 DEF L2Entry, Steady, SameMemory
    <3> QED BY <1>2, <3>2, <3>4 DEF Loadable, Steady, SameMemory
  <2> QED BY <2>1, <2>2
<1> QED BY <1>1, <1>2 DEF Caches

\* qcow2_cache_find_entry_to_replace finds a table that is not in use, in a
\* full cache or when its hits have decayed.
LEMMA ReplacedCached ==
    ASSUME NEW st, NEW H, NEW L, NEW ref, Sound(st, H, L, ref), NEW w \in Caches, NEW keep,
           NEW pick,
           keep = {} \/ (w = "l2" /\ \E k : keep = {k}),
           pick \notin Cached(st, w) \ keep => ~ (Cardinality(Cached(st, w)) < Size(w))
    PROVE  Replaced(st, w, keep, pick) \in Cached(st, w) \ keep
<1> DEFINE S == Cached(st, w) \ keep
<1>0. CASE pick \in S
  BY <1>0 DEF Replaced
<1> SUFFICES ASSUME pick \notin S PROVE Replaced(st, w, keep, pick) \in Cached(st, w) \ keep
  BY <1>0
<1>1. IsFiniteSet(Cached(st, w)) /\ Cardinality(Cached(st, w)) \in Nat
  BY FS_CardinalityType DEF Sound, Valid, CacheOk, Caches
<1>2. Size(w) \in Nat /\ Size(w) >= 1 /\ (w = "l2" => Size(w) >= 2)
  BY Qcow2Assumption DEF Size
<1>3. S # {}
  <2>1. CASE keep = {}
    BY <1>1, <1>2, <2>1, FS_EmptySet
  <2>2. CASE w = "l2" /\ \E k : keep = {k}
    <3>1. PICK k : keep = {k}
      BY <2>2
    <3>2. SUFFICES ASSUME S = {} PROVE FALSE
      OBVIOUS
    <3>3. Cardinality(Cached(st, w) \ {k}) >= 1
      <4>1. Cardinality(Cached(st, w) \ {k}) =
              IF k \in Cached(st, w) THEN Cardinality(Cached(st, w)) - 1
              ELSE Cardinality(Cached(st, w))
        BY <1>1, FS_RemoveElement
      <4> QED BY <1>1, <1>2, <2>2, <4>1
    <3>4. Cardinality({}) = 0
      BY FS_EmptySet
    <3> QED BY <3>1, <3>2, <3>3, <3>4
  <2> QED BY <2>1, <2>2
<1>4. S \in SUBSET Nat
  <2>1. Blocks \subseteq Nat
    BY HostNumbers, Qcow2Assumption, DivNat DEF Blocks
  <2> QED BY <2>1, HostNumbers DEF Sound, Valid, L2CacheOk, RbCacheOk, Caches
<1>5. Min(S) \in S
  BY <1>3, <1>4, NatMin
<1> QED BY <1>5 DEF Replaced

\* The state after a table was brought into cache w.
Fetched(a, b, w, i, keep) ==
    /\ SameMemory(a, b)
    /\ \A x \in Caches : b.cache[x].depends => a.cache[x].depends
    /\ i \in Cached(b, w) /\ Cached(b, Other(w)) = Cached(a, Other(w))
    /\ \A j \in Cached(a, w) : j = i \/ j \in keep =>
         j \in Cached(b, w) /\ Tables(b, w)[j].val = Tables(a, w)[j].val

\* qcow2_cache_do_get.
LEMMA DoGetSound ==
    ASSUME NEW st, NEW H, NEW L, NEW ref, Sound(st, H, L, ref), NEW w \in Caches,
           NEW i, NEW val, Loadable(st, w, i, val), NEW keep, NEW pick,
           keep = {} \/ (w = "l2" /\ \E k : keep = {k})
    PROVE  LET f == DoGet(st, w, i, val, keep, pick) IN
           Sound(f, H, L, ref) /\ Fetched(st, f, w, i, keep)
<1>1. CASE i \in Cached(st, w)
  BY <1>1 DEF DoGet, Fetched, SameMemory
<1>2. CASE /\ i \notin Cached(st, w) /\ Cardinality(Cached(st, w)) < Size(w)
           /\ pick \notin Cached(st, w) \ keep
  <2> DEFINE f == Install(st, w, i, val)
  <2>1. /\ Sound(f, H, L, ref) /\ SameMemory(st, f)
        /\ \A x \in Caches : f.cache[x].depends = st.cache[x].depends
        /\ Cached(f, w) = Cached(st, w) \cup {i}
        /\ \A j \in Cached(st, w) : Tables(f, w)[j] = Tables(st, w)[j]
        /\ Cached(f, Other(w)) = Cached(st, Other(w))
    BY <1>2, InstallSound
  <2> HIDE DEF f
  <2>2. Fetched(st, f, w, i, keep)
    BY <2>1 DEF Fetched
  <2>3. f = DoGet(st, w, i, val, keep, pick)
    BY <1>2 DEF DoGet, f
  <2> QED BY <2>1, <2>2, <2>3
<1>3. CASE /\ i \notin Cached(st, w)
           /\ ~ (Cardinality(Cached(st, w)) < Size(w) /\ pick \notin Cached(st, w) \ keep)
  <2> DEFINE old == Replaced(st, w, keep, pick)
             a == EntryFlush(st, w, old)
             b == Dropped(a, w, old)
             f == Install(b, w, i, val)
  <2>0. Replaced(st, w, keep, pick) \in Cached(st, w) \ keep
    BY <1>3, ReplacedCached, Zenon
  <2>1. old \in Cached(st, w) /\ old \notin keep /\ old # i
    BY <1>3, <2>0
  <2> HIDE DEF old
  <2>2. Sound(a, H, L, ref) /\ Steady(st, a) /\ old \notin Dirty(a, w)
    BY <2>1, EntryFlushSound
  <2>3. Loadable(a, w, i, val)
    BY <1>3, <2>2, LoadableSteady
  <2> HIDE DEF a
  <2>4. old \in Cached(a, w)
    BY <2>1, <2>2 DEF Steady
  <2>5. /\ Sound(b, H, L, ref) /\ SameMemory(a, b)
        /\ \A x \in Caches : b.cache[x].depends = a.cache[x].depends
        /\ Cached(b, w) = Cached(a, w) \ {old}
        /\ \A j \in Cached(b, w) : Tables(b, w)[j] = Tables(a, w)[j]
        /\ Cardinality(Cached(b, w)) = Cardinality(Cached(a, w)) - 1
        /\ Cached(b, Other(w)) = Cached(a, Other(w))
    BY <2>2, <2>4, DropSound
  <2>6. b.cur = a.cur /\ b.l1 = a.l1
    BY <2>2 DEF Sound, Valid, Image, Dropped
  <2> HIDE DEF b
  <2>7. Loadable(b, w, i, val) /\ i \notin Cached(b, w)
    BY <1>3, <2>2, <2>3, <2>5, <2>6 DEF Loadable, Steady
  <2>8. Cardinality(Cached(b, w)) < Size(w)
    <3>1. IsFiniteSet(Cached(a, w)) /\ Cardinality(Cached(a, w)) <= Size(w)
      BY <2>2 DEF Sound, Valid, CacheOk, Caches
    <3>2. Cardinality(Cached(a, w)) \in Nat /\ Size(w) \in Nat
      BY <3>1, FS_CardinalityType, Qcow2Assumption DEF Size
    <3> QED BY <2>5, <3>1, <3>2
  <2>9. /\ Sound(f, H, L, ref) /\ SameMemory(b, f)
        /\ \A x \in Caches : f.cache[x].depends = b.cache[x].depends
        /\ Cached(f, w) = Cached(b, w) \cup {i}
        /\ \A j \in Cached(b, w) : Tables(f, w)[j] = Tables(b, w)[j]
        /\ Cached(f, Other(w)) = Cached(b, Other(w))
    <3>1. Sound(b, H, L, ref) /\ Loadable(b, w, i, val) /\ i \notin Cached(b, w)
      BY <2>5, <2>7
    <3> QED BY <2>8, <3>1, InstallSound
  <2> HIDE DEF f
  <2>10. SameMemory(st, f)
    BY <2>2, <2>5, <2>9 DEF Steady, SameMemory
  <2>11. \A j \in Cached(st, w) : j = i \/ j \in keep =>
           j \in Cached(f, w) /\ Tables(f, w)[j].val = Tables(st, w)[j].val
    BY <1>3, <2>1, <2>2, <2>5, <2>9 DEF Steady
  <2>12. Fetched(st, f, w, i, keep)
    BY <2>2, <2>5, <2>9, <2>10, <2>11 DEF Fetched, Steady, Other, Caches
  <2>13. f = DoGet(st, w, i, val, keep, pick)
    BY <1>3 DEF DoGet, Dropped, f, b, a, old
  <2> QED BY <2>9, <2>12, <2>13
<1> QED BY <1>1, <1>2, <1>3

\* qcow2_cache_get.
LEMMA CacheGetSound ==
    ASSUME NEW st, NEW H, NEW L, NEW ref, Sound(st, H, L, ref), NEW w \in Caches,
           NEW i, w = "rb" => i \in Blocks,
           w = "l2" => i \in Hosts /\ \E g \in Guests : st.l1[g].c = i, NEW keep, NEW pick,
           keep = {} \/ (w = "l2" /\ \E k : keep = {k})
    PROVE  LET f == CacheGet(st, w, i, keep, pick) IN
           Sound(f, H, L, ref) /\ Fetched(st, f, w, i, keep)
<1>1. Loadable(st, w, i, st.cur[<<w, i>>])
  BY DEF Loadable, RbAt, L2At, Caches
<1> QED BY <1>1, DoGetSound DEF CacheGet

\* A refcount block comes into the cache, whatever block it replaces.
LEMMA GetBlockSound ==
    ASSUME NEW st, NEW H, NEW L, NEW ref, Sound(st, H, L, ref), NEW b \in Blocks
    PROVE  LET f == GetBlock(st, b) IN
           Sound(f, H, L, ref) /\ Fetched(st, f, "rb", b, {})
<1>1. "rb" \in Caches
  BY DEF Caches
<1> QED BY <1>1, CacheGetSound DEF GetBlock

-----------------------------------------------------------------------------
(* Refcounts change.                                                       *)

\* A change to a cached table.
LEMMA ModifyFields ==
    ASSUME NEW st, Image(st), NEW w \in Caches, NEW i \in Cached(st, w), NEW val
    PROVE  LET f == Modify(st, w, i, val) IN
           /\ OnlyTables(st, f, w)
           /\ Cached(f, w) = Cached(st, w)
           /\ Tables(f, w)[i].val = val /\ Tables(f, w)[i].dirty
           /\ \A j \in Cached(st, w) : j # i => Tables(f, w)[j] = Tables(st, w)[j]
<1> DEFINE f == Modify(st, w, i, val)
           T == [st.cache[w].tables EXCEPT ![i] = [val |-> val, dirty |-> TRUE]]
<1>1. /\ DOMAIN f = DOMAIN st /\ f.l1 = st.l1 /\ f.free = st.free /\ f.refsOk = st.refsOk
      /\ f.cur = st.cur /\ f.poss = st.poss
      /\ f.acc = st.acc /\ f.vis = st.vis /\ f.dataOk = st.dataOk
  BY DEF Modify, Image
<1>2. /\ DOMAIN f.cache = Caches
      /\ \A x \in Caches : /\ DOMAIN f.cache[x] = DOMAIN st.cache[x]
                           /\ f.cache[x].depends = st.cache[x].depends
                           /\ f.cache[x].onFlush = st.cache[x].onFlush
      /\ f.cache[w].tables = T
      /\ f.cache[Other(w)].tables = st.cache[Other(w)].tables
  BY DEF Modify, Image, Shape, Other, Caches
<1>3. DOMAIN T = Cached(st, w) /\ T[i] = [val |-> val, dirty |-> TRUE]
  BY DEF Cached, Tables
<1>4. \A j \in Cached(st, w) : j # i => T[j] = Tables(st, w)[j]
  BY DEF Cached, Tables
<1> HIDE DEF f, T
<1>5. Image(f)
  BY <1>1, <1>2 DEF Image, Shape
<1>6. OnlyTables(st, f, w)
  BY <1>1, <1>2, <1>5 DEF OnlyTables, Tables
<1>7. Tables(f, w) = T
  BY <1>2 DEF Tables
<1>8. T[i].val = val /\ T[i].dirty
  BY <1>3
<1> QED BY <1>3, <1>4, <1>6, <1>7, <1>8 DEF Cached, f

\* The number of the first cluster that may be free does not matter here.
LEMMA FreeIndexSound ==
    ASSUME NEW st, NEW H, NEW L, NEW ref, Sound(st, H, L, ref),
           NEW n \in Nat \ {0}, n <= Cardinality(Hosts) + 1
    PROVE  LET f == [st EXCEPT !.free = n] IN
           /\ Sound(f, H, L, ref)
           /\ f.l1 = st.l1 /\ f.free = n /\ f.cache = st.cache
           /\ \A g \in Guests : L2Entry(f, g) = L2Entry(st, g)
           /\ \A c : Count(f, c) = Count(st, c)
<1> DEFINE f == [st EXCEPT !.free = n]
<1>1. /\ DOMAIN f = DOMAIN st /\ f.l1 = st.l1 /\ f.free = n /\ f.refsOk = st.refsOk
      /\ f.cur = st.cur /\ f.poss = st.poss /\ f.cache = st.cache
      /\ f.acc = st.acc /\ f.vis = st.vis /\ f.dataOk = st.dataOk
  BY DEF Sound, Valid, Image
<1> HIDE DEF f
<1>2. \A w : Tables(f, w) = Tables(st, w) /\ Cached(f, w) = Cached(st, w)
  BY <1>1 DEF Tables, Cached
<1>3. \A g : L2Entry(f, g) = L2Entry(st, g) /\ OnDisk(f, g) = OnDisk(st, g)
             /\ May(f, g) = May(st, g)
  BY <1>1, <1>2 DEF L2Entry, OnDisk, May
<1>4. \A c : Count(f, c) = Count(st, c) /\ MayCount(f, c) = MayCount(st, c)
  BY <1>1, <1>2 DEF Count, Counts, MayCount
<1>5. \A c : /\ NowUses(f, c) <=> NowUses(st, c)
             /\ MayUse(f, c) <=> MayUse(st, c)
             /\ DiskUses(f, c) <=> DiskUses(st, c)
  BY <1>1, <1>3 DEF NowUses, MayUse, DiskUses
<1>6. Valid(f)
  BY <1>1, <1>2 DEF Sound, Valid, Image, Shape, Acyclic, CacheOk, L2CacheOk, RbCacheOk, FileOk
<1>7. Exclusive(f)
  BY <1>1, <1>3 DEF Sound, Safe, Exclusive
<1>8. Held(f, H)
  BY <1>1, <1>4, <1>5 DEF Sound, Safe, Held, Enough
<1>9. CountsNow(f) /\ CountsOnDisk(f) /\ CountsForL2(f, L) /\ CountsForRb(f)
  BY <1>1, <1>4, <1>5 DEF Sound, Safe, CountsNow, CountsOnDisk, CountsForL2, CountsForRb, Enough
<1>10. Faithful(f, L, ref)
  <2>1. f.dataOk /\ L \subseteq H /\ SnapshotCached(f) /\ \A p \in Places : f.cur[p] \in f.poss[p]
    BY <1>1, <1>2 DEF Sound, Valid, Safe, Faithful, FileOk, SnapshotCached
  <2> QED BY <1>1, <1>3, <2>1, FaithfulQuiet
<1> QED BY <1>1, <1>3, <1>4, <1>6, <1>7, <1>8, <1>9, <1>10 DEF Sound, Safe, f

\* The loop body of update_refcount.
LEMMA RecountFields ==
    ASSUME NEW st, NEW H, NEW L, NEW ref, Sound(st, H, L, ref), NEW c \in Hosts,
           Block(c) \in Cached(st, "rb"),
           NEW addend \in Int, Count(st, c) + addend \in 0 .. 2
    PROVE  LET f == Recount(st, c, addend) IN
           /\ Valid(f) /\ Faithful(f, L, ref) /\ f.l1 = st.l1 /\ f.refsOk = st.refsOk
           /\ f.free = IF Count(st, c) + addend = 0 /\ c < st.free THEN c ELSE st.free
           /\ \A w \in Caches : f.cache[w].depends = st.cache[w].depends
           /\ \A g \in Guests : L2Entry(f, g) = L2Entry(st, g) /\ OnDisk(f, g) = OnDisk(st, g)
           /\ \A d \in Hosts : MayCount(f, d) = MayCount(st, d)
           /\ \A d \in Hosts : Count(f, d) = IF d = c THEN Count(st, c) + addend ELSE Count(st, d)
           /\ Dirty(f, "rb") # {}
           /\ Cached(f, "l2") = Cached(st, "l2")
<1> DEFINE b == Block(c)
           counts == Tables(st, "rb")[b].val
           n == counts[c] + addend
           new == [counts EXCEPT ![c] = n]
           a == Modify(st, "rb", b, new)
           first == IF n = 0 /\ c < a.free THEN c ELSE a.free
           f == [a EXCEPT !.free = first]
<1>1. f = Recount(st, c, addend)
  BY DEF Recount
<1>2. counts \in CountFns(b) /\ b \in Blocks
  BY DEF Sound, Valid, RbCacheOk
<1>3. n = Count(st, c) + addend
  BY DEF Count, Counts
<1>4. /\ new \in CountFns(b) /\ new[c] = n
      /\ \A d \in Hosts : Block(d) = b /\ d # c => new[d] = counts[d]
  BY <1>2, <1>3 DEF CountFns
<1> HIDE DEF new
<1>5. /\ OnlyTables(st, a, "rb")
      /\ Cached(a, "rb") = Cached(st, "rb")
      /\ Tables(a, "rb")[b].val = new /\ Tables(a, "rb")[b].dirty
      /\ \A j \in Cached(st, "rb") : j # b => Tables(a, "rb")[j] = Tables(st, "rb")[j]
  BY ModifyFields DEF Sound, Valid, Caches
<1> HIDE DEF a, n
<1>6. first \in Nat \ {0} /\ first <= Cardinality(Hosts) + 1
  BY <1>5, HostNumbers DEF OnlyTables, Sound, Valid
<1> HIDE DEF first
<1>7. /\ DOMAIN f = DOMAIN a /\ f.l1 = a.l1 /\ f.free = first /\ f.refsOk = a.refsOk
      /\ f.cur = a.cur /\ f.poss = a.poss /\ f.cache = a.cache
      /\ f.acc = a.acc /\ f.vis = a.vis /\ f.dataOk = a.dataOk
  BY <1>5 DEF OnlyTables, Image
<1> HIDE DEF f
<1>8. /\ Image(f) /\ f.l1 = st.l1 /\ f.refsOk = st.refsOk /\ f.cur = st.cur /\ f.poss = st.poss
      /\ f.acc = st.acc /\ f.vis = st.vis /\ f.dataOk = st.dataOk
      /\ \A w \in Caches : /\ f.cache[w].depends = st.cache[w].depends
                          /\ f.cache[w].onFlush = st.cache[w].onFlush
      /\ Tables(f, "l2") = Tables(st, "l2") /\ Cached(f, "l2") = Cached(st, "l2")
      /\ Cached(f, "rb") = Cached(st, "rb")
      /\ Tables(f, "rb")[b].val = new /\ Tables(f, "rb")[b].dirty
      /\ \A j \in Cached(st, "rb") : j # b => Tables(f, "rb")[j] = Tables(st, "rb")[j]
  <2>1. \A w : Tables(f, w) = Tables(a, w) /\ Cached(f, w) = Cached(a, w)
    BY <1>7 DEF Tables, Cached
  <2>2. Tables(a, "l2") = Tables(st, "l2")
    BY <1>5 DEF OnlyTables, Other
  <2>3. Image(f)
    BY <1>5, <1>7 DEF OnlyTables, Image, Shape
  <2> QED BY <1>5, <1>7, <2>1, <2>2, <2>3 DEF OnlyTables, Cached
<1>9. \A g \in Guests : L2Entry(f, g) = L2Entry(st, g) /\ OnDisk(f, g) = OnDisk(st, g)
  BY <1>8 DEF L2Entry, OnDisk
<1>10. \A d \in Hosts : MayCount(f, d) = MayCount(st, d)
  BY <1>8 DEF MayCount
<1>11. \A d \in Hosts : Count(f, d) = IF d = c THEN n ELSE Count(st, d)
  <2> SUFFICES ASSUME NEW d \in Hosts
               PROVE  Count(f, d) = IF d = c THEN n ELSE Count(st, d)
    OBVIOUS
  <2>1. CASE Block(d) = b
    BY <1>4, <1>8, <2>1 DEF Count, Counts
  <2>2. CASE Block(d) # b
    BY <1>8, <2>2 DEF Count, Counts
  <2> QED BY <2>1, <2>2
<1>12. L2CacheOk(f) /\ FileOk(f) /\ Acyclic(f)
  BY <1>8 DEF Sound, Valid, L2CacheOk, FileOk, Acyclic, Caches
<1>13. RbCacheOk(f)
  BY <1>4, <1>8 DEF Sound, Valid, RbCacheOk
<1>14. CacheOk(f, "l2") /\ CacheOk(f, "rb")
  BY <1>8 DEF Sound, Valid, CacheOk
<1>15. Valid(f)
  BY <1>6, <1>7, <1>8, <1>12, <1>13, <1>14 DEF Valid
<1>16. Dirty(f, "rb") # {}
  BY <1>8 DEF Dirty
<1>17. first = IF n = 0 /\ c < st.free THEN c ELSE st.free
  BY <1>5 DEF first, OnlyTables
<1>18. Faithful(f, L, ref)
  <2>1. f.dataOk /\ L \subseteq H /\ SnapshotCached(f) /\ \A p \in Places : f.cur[p] \in f.poss[p]
    BY <1>8, <1>12 DEF Sound, Safe, Faithful, FileOk, SnapshotCached
  <2>2. /\ f.cache["l2"].depends = st.cache["l2"].depends
        /\ f.cache["l2"].onFlush = st.cache["l2"].onFlush
    BY <1>8 DEF Caches
  <2> QED BY <1>8, <1>9, <2>1, <2>2, FaithfulQuiet
<1> QED BY <1>1, <1>3, <1>7, <1>8, <1>9, <1>10, <1>11, <1>15, <1>16, <1>17, <1>18

\* Who uses what depends on the L1 table and on the L2 entries only.
LEMMA SameUses ==
    ASSUME NEW a, NEW b, Exclusive(a), b.l1 = a.l1,
           \A g \in Guests : L2Entry(b, g) = L2Entry(a, g) /\ OnDisk(b, g) = OnDisk(a, g)
    PROVE  /\ Exclusive(b)
           /\ \A c : /\ NowUses(b, c) <=> NowUses(a, c)
                     /\ MayUse(b, c) <=> MayUse(a, c)
                     /\ DiskUses(b, c) <=> DiskUses(a, c)
<1>1. \A g \in Guests : May(b, g) = May(a, g)
  BY DEF May
<1> QED BY <1>1 DEF Exclusive, NowUses, MayUse, DiskUses

\* The refcount of a free cluster goes up: the cluster is held.
LEMMA RaiseSound ==
    ASSUME NEW st, NEW H, NEW L, NEW ref, Sound(st, H, L, ref), NEW c \in Hosts,
           Block(c) \in Cached(st, "rb"),
           Count(st, c) = 0
    PROVE  Sound(Recount(st, c, 1), H \cup {c}, L, ref) /\ c \in Own \ H
<1> DEFINE f == Recount(st, c, 1)
<1>1. /\ Valid(f) /\ Faithful(f, L, ref) /\ f.l1 = st.l1 /\ f.refsOk = st.refsOk
      /\ \A w \in Caches : f.cache[w].depends = st.cache[w].depends
      /\ \A g \in Guests : L2Entry(f, g) = L2Entry(st, g) /\ OnDisk(f, g) = OnDisk(st, g)
      /\ \A d \in Hosts : MayCount(f, d) = MayCount(st, d)
      /\ \A d \in Hosts : Count(f, d) = IF d = c THEN 1 ELSE Count(st, d)
  BY RecountFields
<1> HIDE DEF f
<1>2. /\ Exclusive(f)
      /\ \A d : /\ NowUses(f, d) <=> NowUses(st, d)
                /\ MayUse(f, d) <=> MayUse(st, d)
                /\ DiskUses(f, d) <=> DiskUses(st, d)
  BY <1>1, SameUses DEF Sound, Safe
<1>3. c \in Own /\ ~ NowUses(st, c)
  BY DEF Sound, Safe, CountsNow, Enough, Own
<1>4. ~ st.cache["rb"].depends => ~ MayUse(st, c)
  BY DEF Sound, Safe, CountsForRb, Enough
<1>5. c \notin H
  BY DEF Sound, Safe, Held, Enough
<1>6. Held(f, H \cup {c})
  <2> SUFFICES ASSUME NEW d \in H \cup {c}
               PROVE  /\ d \in Hosts /\ Enough(Count(f, d), TRUE, d) /\ ~ NowUses(f, d)
                      /\ ~ f.cache["rb"].depends => ~ MayUse(f, d)
    BY DEF Held
  <2>1. CASE d = c
    BY <1>1, <1>2, <1>3, <1>4, <2>1 DEF Caches, Enough, Own
  <2>2. CASE d # c
    BY <1>1, <1>2, <2>2 DEF Sound, Safe, Held, Caches
  <2> QED BY <2>1, <2>2
<1>7. CountsNow(f)
  BY <1>1, <1>2, <1>3 DEF Sound, Safe, CountsNow, Enough, Own
<1>8. CountsOnDisk(f) /\ CountsForL2(f, L)
  BY <1>1, <1>2 DEF Sound, Safe, CountsOnDisk, CountsForL2, Enough, Caches
<1>9. CountsForRb(f)
  BY <1>1, <1>2, <1>3 DEF Sound, Safe, CountsForRb, Enough, Own, Caches
<1>10. f.refsOk /\ L \subseteq H \cup {c}
  BY <1>1 DEF Sound, Safe
<1> QED BY <1>1, <1>2, <1>3, <1>5, <1>6, <1>7, <1>8, <1>9, <1>10 DEF Sound, Safe, f

\* The refcount of a cluster that lost a user goes down.
LEMMA LowerSound ==
    ASSUME NEW st, NEW H, NEW L, NEW c \in Hosts \ H, NEW ref, Sound(st, H \cup {c}, L, ref),
           L \subseteq H,
           Block(c) \in Cached(st, "rb"), Count(st, c) \in 0 .. 2
    PROVE  Sound(Recount(st, c, -1), H, L, ref)
<1> DEFINE f == Recount(st, c, -1)
<1>0. /\ Enough(Count(st, c), TRUE, c) /\ ~ NowUses(st, c)
      /\ ~ st.cache["rb"].depends => ~ MayUse(st, c)
  BY DEF Sound, Safe, Held
<1>1. Count(st, c) + (-1) \in 0 .. 2
  BY <1>0 DEF Enough
<1>2. /\ Valid(f) /\ Faithful(f, L, ref) /\ f.l1 = st.l1 /\ f.refsOk = st.refsOk
      /\ \A w \in Caches : f.cache[w].depends = st.cache[w].depends
      /\ \A g \in Guests : L2Entry(f, g) = L2Entry(st, g) /\ OnDisk(f, g) = OnDisk(st, g)
      /\ \A d \in Hosts : MayCount(f, d) = MayCount(st, d)
      /\ \A d \in Hosts : Count(f, d) = IF d = c THEN Count(st, c) + (-1) ELSE Count(st, d)
  BY <1>1, RecountFields
<1> HIDE DEF f
<1>3. /\ Exclusive(f)
      /\ \A d : /\ NowUses(f, d) <=> NowUses(st, d)
                /\ MayUse(f, d) <=> MayUse(st, d)
                /\ DiskUses(f, d) <=> DiskUses(st, d)
  BY <1>2, SameUses DEF Sound, Safe
<1>4. Held(f, H)
  BY <1>2, <1>3 DEF Sound, Safe, Held, Caches, Enough
<1>5. CountsNow(f)
  BY <1>0, <1>2, <1>3 DEF Sound, Safe, CountsNow, Enough
<1>6. CountsOnDisk(f) /\ CountsForL2(f, L)
  BY <1>2, <1>3 DEF Sound, Safe, CountsOnDisk, CountsForL2, Enough, Caches
<1>7. CountsForRb(f)
  BY <1>0, <1>2, <1>3 DEF Sound, Safe, CountsForRb, Enough, Caches
<1> QED BY <1>2, <1>3, <1>4, <1>5, <1>6, <1>7 DEF Sound, Safe, f

\* A cluster that lost a user counts as held while the refcounts wait for the
\* L2 tables.
LEMMA HoldSound ==
    ASSUME NEW st, NEW H, NEW L, NEW ref, Sound(st, H, L, ref), NEW c \in Hosts,
           ~ NowUses(st, c), Enough(Count(st, c), TRUE, c), st.cache["rb"].depends
    PROVE  Sound(st, H \cup {c}, L, ref)
<1>1. Held(st, H \cup {c})
  BY DEF Sound, Safe, Held
<1> QED BY <1>1 DEF Sound, Safe

\* Refcounts in memory are refcounts.
LEMMA CountType ==
    ASSUME NEW st, NEW H, NEW L, NEW ref, Sound(st, H, L, ref), NEW c \in Hosts
    PROVE  Count(st, c) \in 0 .. 2
<1>1. Counts(st, Block(c)) \in CountFns(Block(c))
  BY BlockOf, TablePlaces DEF Counts, Sound, Valid, RbCacheOk, FileOk
<1> QED BY <1>1 DEF Count, CountFns

\* The free clusters are the same when memory is.
LEMMA SameFreeHosts ==
    ASSUME NEW a, NEW b, SameMemory(a, b)
    PROVE  FreeHosts(b) = FreeHosts(a)
  BY DEF FreeHosts, SameMemory, Count

\* qcow2_free_clusters of a cluster that lost a user.
LEMMA FreeClusterSound ==
    ASSUME NEW st, NEW H, NEW L, NEW ref, Sound(st, H, L, ref), NEW c \in Hosts \ H,
           ~ NowUses(st, c), Enough(Count(st, c), TRUE, c)
    PROVE  LET f == FreeCluster(st, c) IN
           /\ Sound(f, H, L, ref) /\ f.l1 = st.l1 /\ Cached(f, "l2") = Cached(st, "l2")
           /\ \A g \in Guests : L2Entry(f, g) = L2Entry(st, g)
           /\ FreeHosts(st) \subseteq FreeHosts(f)
<1> DEFINE a == SetDependency(st, "rb")
           b == GetBlock(a, Block(c))
           f == Recount(b, c, -1)
<1>0. c # 0 /\ Block(c) \in Blocks
  BY HostNumbers, BlockOf
<1>1. f = FreeCluster(st, c)
  BY <1>0 DEF FreeCluster, UpdateRefcount
<1>2. Sound(a, H, L, ref) /\ Retains(st, a) /\ a.cache["rb"].depends
  BY SetDependencySound DEF Caches
<1> HIDE DEF a
<1>3. ~ NowUses(a, c) /\ Count(a, c) = Count(st, c)
  BY <1>2 DEF Retains, SameMemory, NowUses
<1>4. Sound(a, H \cup {c}, L, ref)
  BY <1>2, <1>3, HoldSound
<1>5. Sound(b, H \cup {c}, L, ref) /\ Fetched(a, b, "rb", Block(c), {})
  BY <1>0, <1>4, GetBlockSound
<1> HIDE DEF b
<1>6. SameMemory(st, b) /\ Cached(b, "l2") = Cached(st, "l2") /\ Block(c) \in Cached(b, "rb")
  BY <1>2, <1>5 DEF Retains, Fetched, SameMemory, Caches, Other
<1>7. Count(b, c) \in 0 .. 2 /\ L \subseteq H
  BY <1>5, CountType DEF Sound, Safe
<1>8. Sound(f, H, L, ref)
  BY <1>5, <1>6, <1>7, LowerSound
<1>9. Count(b, c) + (-1) \in 0 .. 2
  BY <1>5, <1>7 DEF Sound, Safe, Held, Enough
<1>10. /\ f.l1 = b.l1
       /\ f.free = IF Count(b, c) + (-1) = 0 /\ c < b.free THEN c ELSE b.free
       /\ \A g \in Guests : L2Entry(f, g) = L2Entry(b, g)
       /\ \A d \in Hosts : Count(f, d) = IF d = c THEN Count(b, c) + (-1) ELSE Count(b, d)
       /\ Cached(f, "l2") = Cached(b, "l2")
  BY <1>5, <1>6, <1>9, RecountFields
<1> HIDE DEF f
<1>11. FreeHosts(st) \subseteq FreeHosts(f)
  <2> SUFFICES ASSUME NEW d \in FreeHosts(st) PROVE d \in FreeHosts(f)
    OBVIOUS
  <2>1. d \in Hosts /\ d >= st.free /\ Count(st, d) = 0
    BY DEF FreeHosts, Count
  <2>2. d # c
    BY <2>1 DEF Enough
  <2>3. Count(f, d) = 0
    BY <1>6, <1>10, <2>1, <2>2 DEF SameMemory
  <2>4. f.free <= st.free
    BY <1>6, <1>10, HostNumbers DEF SameMemory, Sound, Valid
  <2>5. f.free \in Nat /\ st.free \in Nat /\ d \in Nat
    BY <1>8, <2>1, HostNumbers DEF Sound, Valid
  <2> QED BY <2>1, <2>3, <2>4, <2>5 DEF FreeHosts, Count
<1>12. f.l1 = st.l1 /\ Cached(f, "l2") = Cached(st, "l2")
       /\ \A g \in Guests : L2Entry(f, g) = L2Entry(st, g)
  BY <1>6, <1>10 DEF SameMemory
<1> QED BY <1>1, <1>8, <1>11, <1>12

\* alloc_clusters_noref finds a free cluster, if there is one.
LEMMA NewHostFree ==
    ASSUME NEW st, NEW H, NEW L, NEW ref, Sound(st, H, L, ref), FreeHosts(st) # {}
    PROVE  /\ NewHost(st) \in Hosts /\ NewHost(st) >= st.free /\ Count(st, NewHost(st)) = 0
           /\ \A c \in FreeHosts(st) : NewHost(st) <= c
<1>1. FreeHosts(st) \in SUBSET Nat
  BY HostNumbers DEF FreeHosts
<1>2. NewHost(st) \in FreeHosts(st) /\ \A c \in FreeHosts(st) : NewHost(st) <= c
  BY <1>1, NatMin DEF NewHost
<1> QED BY <1>2 DEF FreeHosts, Count

\* One block of the scan of alloc_clusters_noref, and the scan as a function
\* that is defined by recursion.
ReadBlock(st, f, first, b) == GetBlock(IF b = first THEN st ELSE f[b - 1], b)
IsScan(f, st, first, last) == f = [b \in first .. last |-> ReadBlock(st, f, first, b)]

\* The scan is well defined: that of one block more extends it.
LEMMA ScanExists ==
    ASSUME NEW st, NEW first \in Nat, NEW n \in Nat
    PROVE  \E f : IsScan(f, st, first, first + n)
<1> DEFINE T == {k \in Nat : ~ \E f : IsScan(f, st, first, first + k)}
<1>1. SUFFICES ASSUME T # {} PROVE FALSE
  OBVIOUS
<1> DEFINE k == Min(T)
<1>2. k \in T /\ \A y \in T : k <= y
  <2>1. T \in SUBSET Nat
    OBVIOUS
  <2> HIDE DEF T
  <2> QED BY <1>1, <2>1, NatMin
<1> HIDE DEF k
<1>3. k \in Nat /\ ~ \E f : IsScan(f, st, first, first + k)
  BY <1>2
<1>4. CASE k = 0
  <2> DEFINE f == [b \in first .. first |-> GetBlock(st, b)]
  <2>1. IsScan(f, st, first, first)
    BY DEF IsScan, ReadBlock
  <2> QED BY <1>3, <1>4, <2>1
<1>5. CASE k # 0
  <2>1. k - 1 \in Nat /\ k - 1 \notin T
    BY <1>2, <1>3, <1>5
  <2>2. PICK f : IsScan(f, st, first, first + (k - 1))
    BY <2>1
  <2> DEFINE h == [b \in first .. first + k |-> ReadBlock(st, f, first, b)]
  <2>3. \A b \in first .. first + k : ReadBlock(st, h, first, b) = ReadBlock(st, f, first, b)
    <3> SUFFICES ASSUME NEW b \in first .. first + k, b # first PROVE h[b - 1] = f[b - 1]
      BY DEF ReadBlock
    <3>1. b - 1 \in first .. first + (k - 1) /\ b - 1 \in first .. first + k
      BY <1>3
    <3>2. f[b - 1] = ReadBlock(st, f, first, b - 1)
      BY <2>2, <3>1 DEF IsScan
    <3> QED BY <3>1, <3>2
  <2>4. IsScan(h, st, first, first + k)
    BY <2>3 DEF IsScan
  <2> QED BY <1>3, <2>4
<1> QED BY <1>3, <1>4, <1>5

\* The steps of the scan.
LEMMA ScanSteps ==
    ASSUME NEW st, NEW first \in Nat, NEW last \in Nat, first <= last
    PROVE  IsScan(Scan(st, first, last), st, first, last)
<1>1. \E f : IsScan(f, st, first, last)
  <2>1. last - first \in Nat /\ first + (last - first) = last
    OBVIOUS
  <2> QED BY <2>1, ScanExists
<1>2. Scan(st, first, last) = CHOOSE f : IsScan(f, st, first, last)
  BY DEF Scan, IsScan, ReadBlock
<1> QED BY <1>1, <1>2

\* The blocks from one block to another.
LEMMA BlocksBetween ==
    ASSUME NEW c \in Hosts, NEW d \in Hosts, NEW b \in Block(c) .. Block(d)
    PROVE  b \in Blocks
<1>1. c \in Nat \ {0} /\ d \in Nat \ {0} /\ BlockSize \in Nat \ {0}
  BY HostNumbers, Qcow2Assumption
<1>2. Block(c) \in Nat /\ Block(d) \in Nat /\ b \in Nat
  BY <1>1, DivNat DEF Block
<1>3. CASE b = Block(c)
  BY <1>3, BlockOf
<1>4. CASE b # Block(c)
  <2> DEFINE e == b * BlockSize
  <2>1. e \in Nat /\ e <= d
    <3>1. b * BlockSize \in Nat /\ Block(d) * BlockSize \in Nat
          /\ b * BlockSize <= Block(d) * BlockSize
      BY <1>1, <1>2, TimesMonotone
    <3>2. Block(d) * BlockSize <= d
      BY <1>1, DivBounds DEF Block
    <3> QED BY <1>1, <3>1, <3>2
  <2>2. e # 0
    <3>1. 1 <= b /\ 1 * BlockSize <= b * BlockSize
      BY <1>1, <1>2, <1>4, TimesMonotone
    <3> QED BY <1>1, <3>1
  <2>3. e \in Hosts
    BY <1>1, <2>1, <2>2, HostNumbers
  <2>4. e \div BlockSize = b
    <3>1. (b + 1) * BlockSize = b * BlockSize + BlockSize
      BY <1>1, <1>2
    <3>2. b * BlockSize <= e /\ e < (b + 1) * BlockSize
      BY <1>1, <2>1, <3>1
    <3> HIDE DEF e
    <3> QED BY <1>1, <1>2, <2>1, <3>2, DivUnique
  <2> HIDE DEF e
  <2> QED BY <2>3, <2>4 DEF Blocks
<1> QED BY <1>3, <1>4

\* The scan only brings refcount blocks into the cache.
ScanRead(st, f, H, L, ref) ==
    /\ Sound(f, H, L, ref) /\ SameMemory(st, f)
    /\ \A x \in Caches : f.cache[x].depends => st.cache[x].depends

LEMMA ScanSound ==
    ASSUME NEW st, NEW H, NEW L, NEW ref, Sound(st, H, L, ref),
           NEW c \in Hosts, NEW d \in Hosts, Block(c) <= Block(d)
    PROVE  ScanRead(st, Scan(st, Block(c), Block(d))[Block(d)], H, L, ref)
<1> DEFINE first == Block(c)
           last == Block(d)
           f == Scan(st, first, last)
           T == {b \in first .. last : ~ ScanRead(st, f[b], H, L, ref)}
<1>1. first \in Nat /\ last \in Nat /\ first <= last
  BY HostNumbers, Qcow2Assumption, DivNat DEF Block
<1>2. IsScan(f, st, first, last)
  BY <1>1, ScanSteps
<1>3. \A b \in first .. last : b \in Blocks
  BY BlocksBetween
<1> HIDE DEF f, first, last
<1>4. \A b \in first .. last : f[b] = ReadBlock(st, f, first, b)
  BY <1>2 DEF IsScan
<1>5. SUFFICES ASSUME T # {} PROVE FALSE
  <2>1. last \in first .. last
    BY <1>1
  <2> QED BY <2>1 DEF f, first, last
<1> DEFINE b == Min(T)
<1>6. b \in T /\ \A y \in T : b <= y
  <2>1. T \in SUBSET Nat
    BY <1>1
  <2> HIDE DEF T
  <2> QED BY <1>5, <2>1, NatMin
<1> HIDE DEF b
<1>7. b \in first .. last /\ ~ ScanRead(st, f[b], H, L, ref)
  BY <1>6
<1> DEFINE a == IF b = first THEN st ELSE f[b - 1]
<1>8. ScanRead(st, a, H, L, ref)
  <2>1. CASE b = first
    BY <2>1 DEF ScanRead, SameMemory
  <2>2. CASE b # first
    <3>1. b - 1 \in first .. last /\ ~ (b <= b - 1)
      BY <1>1, <1>7, <2>2
    <3>2. b - 1 \notin T
      BY <1>6, <3>1
    <3> QED BY <2>2, <3>1, <3>2
  <2> QED BY <2>1, <2>2
<1>9. f[b] = GetBlock(a, b)
  BY <1>4, <1>7 DEF ReadBlock
<1> HIDE DEF a, T
<1>10. Sound(f[b], H, L, ref) /\ Fetched(a, f[b], "rb", b, {})
  <2>1. Sound(a, H, L, ref) /\ b \in Blocks
    BY <1>3, <1>7, <1>8 DEF ScanRead
  <2> QED BY <1>9, <2>1, GetBlockSound
<1>11. ScanRead(st, f[b], H, L, ref)
  BY <1>8, <1>10 DEF ScanRead, Fetched, SameMemory
<1> QED BY <1>7, <1>11

\* qcow2_alloc_clusters.
LEMMA AllocClusterSound ==
    ASSUME NEW st, NEW H, NEW L, NEW ref, Sound(st, H, L, ref), FreeHosts(st) # {}
    PROVE  LET f == AllocCluster(st)
               new == NewHost(st) IN
           /\ Sound(f, H \cup {new}, L, ref) /\ new \in Own \ H
           /\ f.l1 = st.l1
           /\ \A g \in Guests : L2Entry(f, g) = L2Entry(st, g)
           /\ \A w \in Caches : f.cache[w].depends => st.cache[w].depends
           /\ Dirty(f, "rb") # {}
           /\ FreeHosts(st) \ {new} \subseteq FreeHosts(f)
           /\ \A c \in Hosts : c # new => Count(f, c) = Count(st, c)
<1> DEFINE new == NewHost(st)
           s2 == Scan(st, Block(st.free), Block(new))[Block(new)]
           s3 == [s2 EXCEPT !.free = new + 1]
           s4 == GetBlock(s3, Block(new))
           f == Recount(s4, new, 1)
<1>0. f = AllocCluster(st)
  BY DEF AllocCluster, Scanned, UpdateRefcount
<1>1. /\ new \in Hosts /\ new >= st.free /\ Count(st, new) = 0
      /\ \A c \in FreeHosts(st) : new <= c
  BY NewHostFree
<1> HIDE DEF new
<1>2. st.free \in Hosts /\ new + 1 \in Nat \ {0} /\ new + 1 <= Cardinality(Hosts) + 1
  <2>1. st.free \in Nat \ {0} /\ new \in Nat /\ new <= Cardinality(Hosts)
        /\ Cardinality(Hosts) \in Nat
    BY <1>1, HostNumbers DEF Sound, Valid
  <2> QED BY <1>1, <2>1, HostNumbers
<1>3. Block(new) \in Blocks
  BY <1>1, BlockOf
<1>4. Block(st.free) <= Block(new)
  <2>1. st.free \in Nat /\ new \in Nat /\ BlockSize \in Nat \ {0}
    BY <1>1, <1>2, HostNumbers, Qcow2Assumption
  <2>2. st.free \div BlockSize \in Nat /\ new \div BlockSize \in Nat
    BY <2>1, DivNat
  <2>3. ~ (new \div BlockSize < st.free \div BlockSize)
    BY <1>1, <2>1, DivMonotone
  <2> QED BY <2>2, <2>3 DEF Block
<1>5. ScanRead(st, s2, H, L, ref)
  BY <1>1, <1>2, <1>4, ScanSound
<1> HIDE DEF s2
<1>6. /\ Sound(s3, H, L, ref)
      /\ s3.l1 = s2.l1 /\ s3.free = new + 1 /\ s3.cache = s2.cache
      /\ \A g \in Guests : L2Entry(s3, g) = L2Entry(s2, g)
      /\ \A c : Count(s3, c) = Count(s2, c)
  BY <1>2, <1>5, FreeIndexSound DEF ScanRead
<1> HIDE DEF s3
<1>7. Sound(s4, H, L, ref) /\ Fetched(s3, s4, "rb", Block(new), {})
  BY <1>3, <1>6, GetBlockSound
<1> HIDE DEF s4
<1>8. /\ s4.l1 = st.l1 /\ s4.free = new + 1 /\ Block(new) \in Cached(s4, "rb")
      /\ \A g \in Guests : L2Entry(s4, g) = L2Entry(st, g)
      /\ \A c \in Hosts : Count(s4, c) = Count(st, c)
      /\ \A w \in Caches : s4.cache[w].depends => st.cache[w].depends
  BY <1>5, <1>6, <1>7 DEF ScanRead, Fetched, SameMemory
<1>9. Sound(f, H \cup {new}, L, ref) /\ new \in Own \ H
  BY <1>1, <1>7, <1>8, RaiseSound
<1>10. /\ f.l1 = s4.l1
       /\ f.free = IF 0 + 1 = 0 /\ new < s4.free THEN new ELSE s4.free
       /\ \A w \in Caches : f.cache[w].depends = s4.cache[w].depends
       /\ \A g \in Guests : L2Entry(f, g) = L2Entry(s4, g)
       /\ \A d \in Hosts : Count(f, d) = IF d = new THEN 0 + 1 ELSE Count(s4, d)
       /\ Dirty(f, "rb") # {}
  <2>1. Count(s4, new) = 0 /\ Count(s4, new) + 1 \in 0 .. 2
    BY <1>1, <1>8
  <2> QED BY <1>1, <1>7, <1>8, <2>1, RecountFields
<1> HIDE DEF f
<1>11. FreeHosts(st) \ {new} \subseteq FreeHosts(f)
  <2> SUFFICES ASSUME NEW c \in FreeHosts(st), c # new PROVE c \in FreeHosts(f)
    OBVIOUS
  <2>1. c \in Hosts /\ Count(st, c) = 0 /\ new <= c /\ c \in Nat /\ new \in Nat
    BY <1>1, HostNumbers DEF FreeHosts, Count
  <2>2. Count(f, c) = 0 /\ f.free = new + 1
    BY <1>8, <1>10, <2>1
  <2> QED BY <2>1, <2>2 DEF FreeHosts, Count
<1> QED BY <1>0, <1>8, <1>9, <1>10, <1>11 DEF new

-----------------------------------------------------------------------------
(* A new L2 table.                                                         *)

\* qcow2_cache_flush writes the dirty tables.
LEMMA CacheFlushWrites ==
    ASSUME NEW st, NEW H, NEW L, NEW ref, Sound(st, H, L, ref), NEW w \in Caches,
           NEW i \in Dirty(st, w),
           <<w, i>> \in Places
    PROVE  LET f == CacheFlush(st, w) IN
           /\ f.cur[<<w, i>>] = Tables(st, w)[i].val
           /\ f.poss[<<w, i>>] = {Tables(st, w)[i].val}
<1> DEFINE a == BeforeWrite(st, w)
           b == WriteTables(a, w, Dirty(st, w))
<1>1. Sound(a, H, L, ref) /\ Steady(st, a)
  BY BeforeWriteSound
<1>2. Sound(b, H, L, ref)
  BY WriteBackSound
<1> HIDE DEF a
<1>3. Tables(a, w)[i].val = Tables(st, w)[i].val
  BY <1>1 DEF Steady, Dirty
<1>4. b.cur[<<w, i>>] = Tables(a, w)[i].val
  BY <1>1, WriteTablesFields DEF Sound, Valid
<1> HIDE DEF b
<1>5. FileFlush(b).cur = b.cur /\ FileFlush(b).poss = [p \in Places |-> {b.cur[p]}]
  BY <1>2, FileFlushFields DEF Sound, Valid
<1>6. CacheFlush(st, w) = FileFlush(b)
  BY DEF CacheFlush, a, b
<1> QED BY <1>3, <1>4, <1>5, <1>6

\* Once the refcounts are durable an L2 table may refer to any held cluster.
LEMMA SettledLink ==
    ASSUME NEW st, NEW H, NEW L, NEW ref, Sound(st, H, L, ref), Settled(st, "rb"),
           NEW M \in SUBSET H
    PROVE  Sound(st, H, M, ref)
<1>1. \A c \in Hosts : MayCount(st, c) = {Count(st, c)}
  <2> SUFFICES ASSUME NEW c \in Hosts PROVE MayCount(st, c) = {Count(st, c)}
    OBVIOUS
  <2>1. Block(c) \in Blocks /\ RbAt(Block(c)) \in Places
    BY BlockOf, TablePlaces
  <2>2. st.poss[RbAt(Block(c))] = {st.cur[RbAt(Block(c))]}
    BY <2>1 DEF Settled, Clean
  <2>3. Counts(st, Block(c)) = st.cur[RbAt(Block(c))]
    BY DEF Counts, Settled, Dirty, Sound, Valid, RbCacheOk
  <2> QED BY <2>2, <2>3 DEF MayCount, Count
<1>2. CountsForL2(st, M)
  BY <1>1 DEF CountsForL2, Sound, Safe, Held, Enough
<1>3. Faithful(st, M, ref)
  BY FaithfulQuiet DEF Settled, Sound, Valid, FileOk, Faithful
<1> QED BY <1>2, <1>3 DEF Sound, Safe

\* Table new is filled and durable, and so is its refcount.
Ready(st, H, g, new, ref) ==
    /\ Sound(st, H \cup {new}, {new}, ref) /\ new \in Own \ H
    /\ ~ st.cache["rb"].depends /\ ~ st.cache["l2"].depends /\ ~ st.cache["l2"].onFlush
    /\ new \in Cached(st, "l2") /\ Tables(st, "l2")[new].val = L2Entry(st, g)
    /\ st.cur[L2At(new)] = L2Entry(st, g) /\ st.poss[L2At(new)] = {L2Entry(st, g)}

\* No table refers to it yet.
LEMMA ReadyUnused ==
    ASSUME NEW st, NEW H, NEW g \in Guests, NEW new, NEW ref, Ready(st, H, g, new, ref)
    PROVE  /\ new \in Hosts /\ new # 0
           /\ \A h \in Guests : st.l1[h].c # new /\ \A e \in May(st, h) : e.c # new
           /\ Enough(Count(st, new), TRUE, new)
           /\ \A c \in Hosts : Enough(Count(st, c), MayUse(st, c) \/ c = new, c)
           /\ \A c \in Hosts : \A n \in MayCount(st, c) : Enough(n, MayUse(st, c) \/ c = new, c)
<1>1. new \in Hosts /\ new # 0
  BY HostNumbers DEF Ready, Own
<1>2. Enough(Count(st, new), TRUE, new) /\ ~ MayUse(st, new)
  BY DEF Ready, Sound, Safe, Held
<1>3. \A c \in Hosts : Enough(Count(st, c), MayUse(st, c) \/ c = new, c)
  BY <1>2 DEF Ready, Sound, Safe, CountsForRb, Enough
<1>4. \A c \in Hosts : \A n \in MayCount(st, c) : Enough(n, MayUse(st, c) \/ c = new, c)
  BY DEF Ready, Sound, Safe, CountsForL2, Enough
<1> QED BY <1>1, <1>2, <1>3, <1>4 DEF MayUse

\* In y the L1 entry may or may not have reached the disk.
HalfWritten(st, y, g, new) ==
    /\ \A h \in Guests : L1Poss(y, h) = IF h = g THEN {st.l1[g], Entry(new, TRUE)} ELSE {st.l1[h]}
    /\ \A t \in Hosts : y.poss[L2At(t)] = st.poss[L2At(t)]
    /\ \A i \in Blocks : y.poss[RbAt(i)] = st.poss[RbAt(i)]
    /\ \A c \in Hosts, s \in Sectors : y.poss[DataAt(c, s)] = st.poss[DataAt(c, s)]
    /\ y.acc = st.acc

\* A crash while the L1 entry is written.
LEMMA L1EntrySurvives ==
    ASSUME NEW st, NEW H, NEW g \in Guests, NEW new, NEW ref, Ready(st, H, g, new, ref),
           NEW y, HalfWritten(st, y, g, new)
    PROVE  RefcountsSafe(y) /\ DataSafe(y)
<1> USE DEF HalfWritten
<1>1. /\ new \in Hosts /\ new # 0
      /\ \A h \in Guests : st.l1[h].c # new /\ \A e \in May(st, h) : e.c # new
      /\ \A c \in Hosts : \A n \in MayCount(st, c) : Enough(n, MayUse(st, c) \/ c = new, c)
  BY ReadyUnused
<1>2. Exclusive(st)
  BY DEF Ready, Sound, Safe
<1>3. \A h \in Guests : st.l1[h].c = 0 \/ st.l1[h].c \in Hosts
  BY <1>2, TablesAreHosts
<1>4. Entry(new, TRUE).c = new
  BY DEF Entry
<1>0. \A h \in Guests : \A e \in L1Poss(y, h) : e = st.l1[h] \/ (h = g /\ e.c = new)
  <2> SUFFICES ASSUME NEW h \in Guests, NEW e \in L1Poss(y, h)
               PROVE  e = st.l1[h] \/ (h = g /\ e.c = new)
    OBVIOUS
  <2>1. CASE h = g
    <3>1. L1Poss(y, h) = {st.l1[g], Entry(new, TRUE)}
      BY <2>1
    <3> QED BY <1>4, <2>1, <3>1
  <2>2. CASE h # g
    <3>1. L1Poss(y, h) = {st.l1[h]}
      BY <2>2
    <3> QED BY <3>1
  <2> QED BY <2>1, <2>2
<1>5. \A h \in Guests : L2Poss(y, h) \subseteq May(st, h)
  <2> SUFFICES ASSUME NEW h \in Guests, NEW e \in L2Poss(y, h) PROVE e \in May(st, h)
    OBVIOUS
  <2>1. PICK x \in L1Poss(y, h) :
          e \in IF x.c = 0 THEN {Unallocated} ELSE y.poss[L2At(x.c)]
    BY DEF L2Poss
  <2>2. CASE x = st.l1[h]
    BY <1>3, <2>1, <2>2 DEF May, OnDisk
  <2>3. CASE x = Entry(new, TRUE) /\ h = g
    BY <1>1, <1>4, <2>1, <2>3 DEF Ready, May
  <2> QED BY <2>1, <2>2, <2>3
<1>6. EntryOk(Entry(new, TRUE), g, SnapTable(g))
  BY <1>4 DEF EntryOk, Ready
<1>7. Distinct(y)
  <2>1. \A h \in Guests : \A e \in L1Poss(y, h) : EntryOk(e, h, SnapTable(h))
    BY <1>2, <1>6 DEF Exclusive
  <2>2. \A h \in Guests : \A e \in L2Poss(y, h) : EntryOk(e, h, SnapData(h))
    BY <1>2, <1>5 DEF Exclusive
  <2>3. \A h, k \in Guests : \A e \in L1Poss(y, h), f \in L1Poss(y, k) :
          e.c = f.c => h = k \/ e.c = 0
    BY <1>0, <1>1, <1>2 DEF Exclusive
  <2>4. \A h, k \in Guests : \A e \in L2Poss(y, h), f \in L2Poss(y, k) :
          e.c = f.c => h = k \/ e.c = 0
    BY <1>2, <1>5 DEF Exclusive
  <2>5. \A h, k \in Guests : \A e \in L1Poss(y, h), f \in L2Poss(y, k) :
          e.c = f.c => e.c = 0
    <3> SUFFICES ASSUME NEW h \in Guests, NEW k \in Guests,
                        NEW e \in L1Poss(y, h), NEW f \in L2Poss(y, k), e.c = f.c
                 PROVE  e.c = 0
      OBVIOUS
    <3>1. f \in May(st, k)
      BY <1>5
    <3>2. e = st.l1[h] \/ e.c = new
      BY <1>0
    <3> QED BY <1>1, <1>2, <3>1, <3>2 DEF Exclusive
  <2> QED BY <2>1, <2>2, <2>3, <2>4, <2>5 DEF Distinct
<1>8. Counted(y)
  <2> SUFFICES ASSUME NEW c \in Hosts
               PROVE  /\ MayCount(y, c) # {} /\ MayCount(y, c) \subseteq 0 .. 2
                      /\ \A n \in MayCount(y, c) :
                           Enough(n, \E h \in Guests : \E e \in L1Poss(y, h) \cup L2Poss(y, h) :
                                       e.c = c, c)
    BY DEF Counted
  <2>1. Block(c) \in Blocks
    BY BlockOf
  <2>2. y.poss[RbAt(Block(c))] # {} /\ y.poss[RbAt(Block(c))] \subseteq CountFns(Block(c))
    BY <2>1, TablePlaces DEF Ready, Sound, Valid, FileOk
  <2>3. \A v \in CountFns(Block(c)) : v[c] \in 0 .. 2
    BY DEF CountFns
  <2>4. MayCount(y, c) = MayCount(st, c)
    BY <2>1 DEF MayCount
  <2>5. ASSUME NEW h \in Guests, NEW e \in L1Poss(y, h) \cup L2Poss(y, h), e.c = c
        PROVE  MayUse(st, c) \/ c = new
    <3>1. e = st.l1[h] \/ e.c = new \/ e \in May(st, h)
      BY <1>0, <1>5
    <3> QED BY <2>5, <3>1 DEF MayUse
  <2>6. \A n \in MayCount(y, c) : Enough(n, MayUse(st, c) \/ c = new, c)
    BY <1>1, <2>4
  <2>7. MayCount(y, c) # {} /\ MayCount(y, c) \subseteq 0 .. 2
    BY <2>2, <2>3 DEF MayCount
  <2> QED BY <2>5, <2>6, <2>7 DEF Enough
<1>9. ASSUME NEW h \in Guests, NEW s \in Sectors
      PROVE  DataPoss(y, h, s) \subseteq y.acc[h][s]
  <2>1. \A e \in May(st, h) : EntryData(st, e, s) \subseteq st.acc[h][s]
    BY DEF Ready, Sound, Faithful, DataOnDisk, DataForL2, Accepts, May
  <2>2. \A e \in May(st, h) : e.c = 0 \/ e.c \in Hosts
    BY <1>2, TablesAreHosts
  <2>3. \A e \in L2Poss(y, h) :
          (IF e.c = 0 THEN {"zero"} ELSE y.poss[DataAt(e.c, s)]) \subseteq y.acc[h][s]
    BY <1>5, <2>1, <2>2 DEF EntryData
  <2> QED BY <2>3 DEF DataPoss
<1>10. ASSUME NEW h \in Shared, NEW s \in Sectors
       PROVE  /\ y.poss[L2At(SnapTable(h))] = {Entry(SnapData(h), FALSE)}
              /\ y.poss[DataAt(SnapData(h), s)] = {"old"}
  <2>1. SnapTable(h) \in Hosts /\ SnapData(h) \in Hosts
    BY Qcow2Assumption
  <2> QED BY <2>1 DEF Ready, Sound, Faithful, SnapshotFiled
<1>11. DataSafe(y)
  BY <1>9, <1>10 DEF DataSafe
<1> QED BY <1>7, <1>8, <1>11, RefcountsFollow

\* write_l1_entry.
LEMMA WriteL1EntrySound ==
    ASSUME NEW st, NEW H, NEW g \in Guests, NEW new, NEW ref, Ready(st, H, g, new, ref)
    PROVE  LET f == WriteL1Entry(st, g, new) IN
           /\ Sound(f, H, {}, ref)
           /\ f.l1[g] = Entry(new, TRUE) /\ \A h \in Guests : h # g => f.l1[h] = st.l1[h]
           /\ f.free = st.free /\ f.cache = st.cache
           /\ \A h \in Guests : L2Entry(f, h) = L2Entry(st, h)
           /\ \A c \in Hosts : Count(f, c) = Count(st, c)
<1> DEFINE e == Entry(new, TRUE)
           x == [st EXCEPT !.l1[g] = e]
           y == FileWrite(x, L1At(g), e)
           f == FileFlush(y)
<1>0. f = WriteL1Entry(st, g, new)
  BY DEF WriteL1Entry
<1>1. Image(st) /\ Valid(st) /\ Exclusive(st)
  BY DEF Ready, Sound, Valid, Safe
<1>2. e.c = new /\ e.copied
  BY DEF Entry
<1>3. EntryOk(e, g, SnapTable(g))
  BY <1>2 DEF EntryOk, Ready
<1> HIDE DEF e
<1>4. /\ new \in Hosts /\ new # 0
      /\ \A h \in Guests : st.l1[h].c # new /\ \A d \in May(st, h) : d.c # new
      /\ Enough(Count(st, new), TRUE, new)
      /\ \A c \in Hosts : Enough(Count(st, c), MayUse(st, c) \/ c = new, c)
      /\ \A c \in Hosts : \A n \in MayCount(st, c) : Enough(n, MayUse(st, c) \/ c = new, c)
  BY ReadyUnused
<1>5. /\ DOMAIN y = DOMAIN st /\ y.l1 = [st.l1 EXCEPT ![g] = e] /\ y.free = st.free
      /\ y.refsOk = st.refsOk /\ y.cache = st.cache
      /\ y.acc = st.acc /\ y.vis = st.vis /\ y.dataOk = st.dataOk
      /\ y.cur = [st.cur EXCEPT ![L1At(g)] = e]
      /\ y.poss = [st.poss EXCEPT ![L1At(g)] = @ \cup {e}]
  BY <1>1 DEF FileWrite, Image
<1>6. L1At(g) \in Places
  BY TablePlaces
<1>7. /\ Image(y)
      /\ \A p \in Places : p # L1At(g) => y.cur[p] = st.cur[p] /\ y.poss[p] = st.poss[p]
      /\ y.cur[L1At(g)] = e /\ y.poss[L1At(g)] = st.poss[L1At(g)] \cup {e}
  BY <1>1, <1>5, <1>6 DEF Image, Shape
<1>8. /\ \A h \in Guests : h # g => L1At(h) \in Places /\ L1At(h) # L1At(g)
      /\ \A t \in Hosts : L2At(t) \in Places /\ L2At(t) # L1At(g)
      /\ \A i \in Blocks : RbAt(i) \in Places /\ RbAt(i) # L1At(g)
  BY TablePlaces DEF L1At, L2At, RbAt
<1>9. \A h \in Guests : st.poss[L1At(h)] = {st.l1[h]} /\ st.cur[L1At(h)] = st.l1[h]
  BY <1>1, TablePlaces DEF Valid, FileOk
<1>10. \A h \in Guests : L1Poss(y, h) = IF h = g THEN {st.l1[g], e} ELSE {st.l1[h]}
  BY <1>7, <1>8, <1>9 DEF L1Poss
<1> HIDE DEF x, y
<1>11. RefcountsSafe(y) /\ DataSafe(y)
  <2>1. \A h \in Guests : L1Poss(y, h) = IF h = g THEN {st.l1[g], Entry(new, TRUE)} ELSE {st.l1[h]}
    BY <1>10 DEF e
  <2>2. \A t \in Hosts : y.poss[L2At(t)] = st.poss[L2At(t)]
    BY <1>7, <1>8
  <2>3. \A i \in Blocks : y.poss[RbAt(i)] = st.poss[RbAt(i)]
    BY <1>7, <1>8
  <2>4. \A c \in Hosts, s \in Sectors : y.poss[DataAt(c, s)] = st.poss[DataAt(c, s)]
    BY <1>7, DataPlaces
  <2>5. HalfWritten(st, y, g, new)
    BY <1>5, <2>1, <2>2, <2>3, <2>4, Zenon DEF HalfWritten
  <2> QED BY <2>5, L1EntrySurvives
<1>12. /\ Image(f) /\ f.l1 = y.l1 /\ f.cache = st.cache /\ f.cur = y.cur /\ f.free = st.free
       /\ f.poss = [p \in Places |-> {y.cur[p]}]
       /\ f.refsOk /\ f.dataOk /\ f.acc = st.acc /\ f.vis = st.vis
  BY <1>5, <1>7, <1>11, FileFlushFields DEF Ready, Sound, Safe, Faithful
<1> HIDE DEF f
<1>13. \A w : Tables(f, w) = Tables(st, w) /\ Cached(f, w) = Cached(st, w)
              /\ Dirty(f, w) = Dirty(st, w)
  BY <1>12 DEF Tables, Cached, Dirty
<1>14. f.l1[g] = e /\ \A h \in Guests : h # g => f.l1[h] = st.l1[h]
  BY <1>1, <1>5, <1>12 DEF Image
<1>15. \A h \in Guests : st.l1[h].c = 0 \/ st.l1[h].c \in Hosts
  BY <1>1, TablesAreHosts
<1>16. /\ \A t \in Hosts : f.cur[L2At(t)] = st.cur[L2At(t)] /\ f.poss[L2At(t)] = {st.cur[L2At(t)]}
       /\ \A i \in Blocks : f.cur[RbAt(i)] = st.cur[RbAt(i)] /\ f.poss[RbAt(i)] = {st.cur[RbAt(i)]}
       /\ \A p \in Places : f.cur[p] \in f.poss[p]
  BY <1>7, <1>8, <1>12
<1>17. \A h \in Guests : L2Entry(f, h) = L2Entry(st, h)
  BY <1>2, <1>4, <1>13, <1>14, <1>15, <1>16 DEF L2Entry, Ready
<1>18. \A h \in Guests : OnDisk(f, h) \subseteq May(st, h)
  <2> SUFFICES ASSUME NEW h \in Guests PROVE OnDisk(f, h) \subseteq May(st, h)
    OBVIOUS
  <2>1. CASE h = g
    BY <1>2, <1>4, <1>14, <1>16, <2>1 DEF OnDisk, May, Ready
  <2>2. CASE h # g
    <3>1. st.l1[h].c \in Hosts => st.cur[L2At(st.l1[h].c)] \in st.poss[L2At(st.l1[h].c)]
      BY <1>1, TablePlaces DEF Valid, FileOk
    <3> QED BY <1>14, <1>15, <1>16, <2>2, <3>1 DEF OnDisk, May
  <2> QED BY <2>1, <2>2
<1>19. \A h \in Guests : May(f, h) \subseteq May(st, h)
  BY <1>17, <1>18 DEF May
<1>20. \A c \in Hosts : Count(f, c) = Count(st, c)
  BY <1>13, <1>16, BlockOf DEF Count, Counts
<1>21. \A c \in Hosts : MayCount(f, c) \subseteq MayCount(st, c)
  <2> SUFFICES ASSUME NEW c \in Hosts PROVE MayCount(f, c) \subseteq MayCount(st, c)
    OBVIOUS
  <2>1. Block(c) \in Blocks /\ st.cur[RbAt(Block(c))] \in st.poss[RbAt(Block(c))]
    BY <1>1, BlockOf, TablePlaces DEF Valid, FileOk
  <2> QED BY <1>16, <2>1 DEF MayCount
<1>22. \A c : /\ NowUses(f, c) => NowUses(st, c) \/ c = new
              /\ MayUse(f, c) => MayUse(st, c) \/ c = new
              /\ DiskUses(f, c) => MayUse(st, c) \/ c = new
  BY <1>2, <1>14, <1>17, <1>18, <1>19 DEF NowUses, MayUse, DiskUses
<1>23. Exclusive(f)
  <2>1. \A h \in Guests : EntryOk(f.l1[h], h, SnapTable(h))
    BY <1>1, <1>3, <1>14 DEF Exclusive
  <2>2. \A h \in Guests : \A d \in May(f, h) : EntryOk(d, h, SnapData(h))
    BY <1>1, <1>19 DEF Exclusive
  <2>3. \A h, k \in Guests : f.l1[h].c = f.l1[k].c => h = k \/ f.l1[h].c = 0
    BY <1>1, <1>2, <1>4, <1>14 DEF Exclusive
  <2>4. \A h, k \in Guests : \A d \in May(f, h), b \in May(f, k) : d.c = b.c => h = k \/ d.c = 0
    BY <1>1, <1>19 DEF Exclusive
  <2>5. \A h, k \in Guests : \A b \in May(f, k) : f.l1[h].c = b.c => b.c = 0
    BY <1>1, <1>2, <1>4, <1>14, <1>19 DEF Exclusive
  <2> QED BY <2>1, <2>2, <2>3, <2>4, <2>5 DEF Exclusive
<1>24. Held(f, H)
  BY <1>12, <1>20, <1>22 DEF Ready, Sound, Safe, Held
<1>25. CountsNow(f)
  BY <1>4, <1>20, <1>22 DEF Ready, Sound, Safe, CountsNow, Enough
<1>26. CountsOnDisk(f) /\ CountsForL2(f, {}) /\ CountsForRb(f)
  BY <1>4, <1>20, <1>21, <1>22 DEF CountsOnDisk, CountsForL2, CountsForRb, Enough
<1>27. L2CacheOk(f)
  BY <1>1, <1>2, <1>13, <1>14, <1>15, <1>16 DEF Ready, Valid, L2CacheOk
<1>28. RbCacheOk(f) /\ CacheOk(f, "l2") /\ CacheOk(f, "rb") /\ Acyclic(f)
  BY <1>1, <1>12, <1>13, <1>16 DEF Valid, RbCacheOk, CacheOk, Acyclic
<1>29. FileOk(f)
  <2>1. \A h \in Guests : f.poss[L1At(h)] = {f.l1[h]}
    BY <1>6, <1>7, <1>8, <1>9, <1>12, <1>14
  <2>2. \A i \in Blocks : f.poss[RbAt(i)] \subseteq CountFns(i)
    BY <1>1, <1>16, TablePlaces DEF Valid, FileOk
  <2> QED BY <1>16, <2>1, <2>2 DEF FileOk
<1>30. Valid(f)
  BY <1>1, <1>12, <1>27, <1>28, <1>29 DEF Valid
<1>30a. Faithful(f, {}, ref)
  <2>1. \A c \in Hosts, s \in Sectors : /\ f.cur[DataAt(c, s)] = st.cur[DataAt(c, s)]
                                        /\ f.poss[DataAt(c, s)] = {st.cur[DataAt(c, s)]}
                                        /\ st.cur[DataAt(c, s)] \in st.poss[DataAt(c, s)]
    BY <1>1, <1>7, <1>12, DataPlaces DEF Valid, FileOk
  <2>2. \A h \in Shared : f.poss[L2At(SnapTable(h))] \subseteq st.poss[L2At(SnapTable(h))]
    BY <1>1, <1>16, TablePlaces, Qcow2Assumption DEF Valid, FileOk
  <2>3. SnapshotCached(f) /\ Clean(f)
    BY <1>12, <1>13 DEF Ready, Sound, Faithful, SnapshotCached, Clean
  <2>4. /\ Sound(st, H \cup {new}, {new}, ref)
        /\ ~ st.cache["l2"].depends /\ ~ st.cache["l2"].onFlush
    BY DEF Ready
  <2> QED BY <1>12, <1>16, <1>17, <1>18, <2>1, <2>2, <2>3, <2>4, FaithfulQuiet
<1>31. Sound(f, H, {}, ref)
  BY <1>12, <1>23, <1>24, <1>25, <1>26, <1>30, <1>30a DEF Sound, Safe
<1> QED BY <1>0, <1>12, <1>14, <1>17, <1>20, <1>31 DEF e

\* A held cluster is filled like another L2 table.
LEMMA FillTable ==
    ASSUME NEW st, NEW H, NEW L, NEW ref, Sound(st, H, L, ref), NEW g \in Guests,
           NEW new \in H \cap Cached(st, "l2"), new \in Own
    PROVE  LET f == Modify(st, "l2", new, L2Entry(st, g)) IN
           /\ Sound(f, H, L, ref) /\ SameMemory(st, f)
           /\ new \in Dirty(f, "l2") /\ Tables(f, "l2")[new].val = L2Entry(st, g)
           /\ \A w \in Caches : f.cache[w].depends = st.cache[w].depends
<1> DEFINE f == Modify(st, "l2", new, L2Entry(st, g))
<1>1. /\ OnlyTables(st, f, "l2")
      /\ Cached(f, "l2") = Cached(st, "l2")
      /\ Tables(f, "l2")[new].val = L2Entry(st, g) /\ Tables(f, "l2")[new].dirty
      /\ \A j \in Cached(st, "l2") : j # new => Tables(f, "l2")[j] = Tables(st, "l2")[j]
  BY ModifyFields DEF Sound, Valid, Caches
<1> HIDE DEF f
<1>2. \A h \in Guests : st.l1[h].c # new
  BY DEF Sound, Safe, Held, NowUses
<1>3. Tables(f, "rb") = Tables(st, "rb") /\ Cached(f, "rb") = Cached(st, "rb")
  BY <1>1 DEF OnlyTables, Other, Cached
<1>4. \A h \in Guests : L2Entry(f, h) = L2Entry(st, h)
  BY <1>1, <1>2 DEF L2Entry, OnlyTables
<1>5. \A c \in Hosts : Count(f, c) = Count(st, c)
  BY <1>1, <1>3 DEF Count, Counts, OnlyTables
<1>6. CacheOk(f, "l2") /\ CacheOk(f, "rb")
  BY <1>1, <1>3 DEF CacheOk, Sound, Valid
<1>7. L2CacheOk(f) /\ RbCacheOk(f)
  BY <1>1, <1>2, <1>3 DEF L2CacheOk, RbCacheOk, OnlyTables, Sound, Valid
<1>7a. SnapshotCached(f)
  BY <1>1 DEF SnapshotCached, Snapshot, Own, Sound, Faithful
<1>8. Sound(f, H, L, ref) /\ SameMemory(st, f)
  BY <1>1, <1>4, <1>5, <1>6, <1>7, <1>7a, CacheChange DEF Caches
<1>9. new \in Dirty(f, "l2")
  BY <1>1 DEF Dirty
<1> QED BY <1>1, <1>8, <1>9 DEF OnlyTables, f

\* The read of the old table.
LEMMA LoadOldSound ==
    ASSUME NEW st, NEW H, NEW L, NEW ref, Sound(st, H, L, ref), NEW g \in Guests, NEW pick,
           NEW new \in Cached(st, "l2")
    PROVE  LET f == LoadOld(st, g, new, pick) IN
           /\ Sound(f, H, L, ref) /\ SameMemory(st, f) /\ new \in Cached(f, "l2")
           /\ \A w \in Caches : f.cache[w].depends => st.cache[w].depends
<1>1. CASE st.l1[g].c = 0
  BY <1>1 DEF LoadOld, SameMemory
<1>2. CASE st.l1[g].c # 0
  <2> DEFINE f == CacheGet(st, "l2", st.l1[g].c, {new}, pick)
  <2>1. st.l1[g].c \in Hosts
    BY <1>2, TablesAreHosts DEF Sound, Safe
  <2>2. Sound(f, H, L, ref) /\ Fetched(st, f, "l2", st.l1[g].c, {new})
    BY <2>1, CacheGetSound DEF Caches
  <2>3. f = LoadOld(st, g, new, pick)
    BY <1>2 DEF LoadOld
  <2> HIDE DEF f
  <2> QED BY <2>2, <2>3 DEF Fetched
<1> QED BY <1>1, <1>2

\* l2_allocate.
LEMMA L2AllocateSound ==
    ASSUME NEW st, NEW H, NEW ref, Sound(st, H, {}, ref), FreeHosts(st) # {}, NEW g \in Guests,
           NEW pick
    PROVE  LET f == L2Allocate(st, g, pick)
               new == NewHost(st) IN
           /\ Sound(f, H, {}, ref) /\ new \in Own \ H
           /\ f.l1[g] = Entry(new, TRUE) /\ \A h \in Guests : h # g => f.l1[h] = st.l1[h]
           /\ new \in Cached(f, "l2")
           /\ \A h \in Guests : L2Entry(f, h) = L2Entry(st, h) /\ st.l1[h].c # new
           /\ \A c \in Hosts : c # new => Count(f, c) = Count(st, c)
           /\ FreeHosts(st) \ {new} \subseteq FreeHosts(f)
<1> DEFINE new == NewHost(st)
           G == H \cup {new}
           s0 == AllocCluster(st)
           s1 == CacheFlush(s0, "rb")
           s2 == DoGet(s1, "l2", new, Unallocated, {}, pick)
           s3 == LoadOld(s2, g, new, pick)
           s4 == Modify(s3, "l2", new, L2Entry(s3, g))
           s5 == CacheFlush(s4, "l2")
           f == WriteL1Entry(s5, g, new)
<1>0. f = L2Allocate(st, g, pick)
  BY DEF L2Allocate, CopyOld
<1>1. /\ Sound(s0, G, {}, ref) /\ new \in Own \ H
      /\ s0.l1 = st.l1
      /\ \A h \in Guests : L2Entry(s0, h) = L2Entry(st, h)
      /\ Dirty(s0, "rb") # {}
      /\ FreeHosts(st) \ {new} \subseteq FreeHosts(s0)
      /\ \A c \in Hosts : c # new => Count(s0, c) = Count(st, c)
  BY AllocClusterSound
<1> HIDE DEF s0, new
<1>2. /\ Sound(s1, G, {}, ref) /\ Steady(s0, s1) /\ Settled(s1, "rb")
      /\ ~ s1.cache["rb"].depends
  BY <1>1, CacheFlushSound DEF Caches
<1> HIDE DEF s1
<1>3. Sound(s1, G, {new}, ref)
  BY <1>2, SettledLink
<1>4. new \in Hosts /\ \A h \in Guests : s1.l1[h].c # new
  BY <1>3 DEF Sound, Safe, Held, NowUses
<1>5. Sound(s2, G, {new}, ref) /\ Fetched(s1, s2, "l2", new, {})
  <2>1. Loadable(s1, "l2", new, Unallocated)
    BY <1>1, <1>4 DEF Loadable
  <2> QED BY <1>3, <2>1, DoGetSound DEF Caches
<1> HIDE DEF s2
<1>6. /\ Sound(s3, G, {new}, ref) /\ SameMemory(s2, s3) /\ new \in Cached(s3, "l2")
      /\ \A w \in Caches : s3.cache[w].depends => s2.cache[w].depends
  <2>1. new \in Cached(s2, "l2")
    BY <1>5 DEF Fetched
  <2> QED BY <1>5, <2>1, LoadOldSound
<1> HIDE DEF s3
<1>7. /\ Sound(s4, G, {new}, ref) /\ SameMemory(s3, s4)
      /\ new \in Dirty(s4, "l2") /\ Tables(s4, "l2")[new].val = L2Entry(s3, g)
      /\ \A w \in Caches : s4.cache[w].depends = s3.cache[w].depends
  <2>1. new \in G \cap Cached(s3, "l2") /\ new \in Own
    BY <1>1, <1>6
  <2> HIDE DEF G
  <2> QED BY <1>6, <2>1, FillTable
<1> HIDE DEF s4
<1>8. Sound(s5, G, {new}, ref) /\ Steady(s4, s5) /\ ~ s5.cache["l2"].depends
      /\ ~ s5.cache["l2"].onFlush
  BY <1>7, CacheFlushSound DEF Caches
<1>9. s5.cur[L2At(new)] = L2Entry(s3, g) /\ s5.poss[L2At(new)] = {L2Entry(s3, g)}
  <2>1. L2At(new) \in Places
    BY <1>4, TablePlaces
  <2> QED BY <1>7, <2>1, CacheFlushWrites DEF Caches, L2At
<1> HIDE DEF s5
<1>10. L2Entry(s5, g) = L2Entry(s3, g)
  BY <1>7, <1>8 DEF Steady, SameMemory
<1>11. new \in Cached(s5, "l2") /\ Tables(s5, "l2")[new].val = L2Entry(s3, g)
  BY <1>7, <1>8 DEF Steady, Dirty, Caches
<1>12. ~ s5.cache["rb"].depends
  BY <1>2, <1>5, <1>6, <1>7, <1>8 DEF Steady, Fetched, Caches
<1>13. Ready(s5, H, g, new, ref)
  BY <1>1, <1>8, <1>9, <1>10, <1>11, <1>12 DEF Ready
<1>14. /\ Sound(f, H, {}, ref)
       /\ f.l1[g] = Entry(new, TRUE) /\ \A h \in Guests : h # g => f.l1[h] = s5.l1[h]
       /\ f.free = s5.free /\ f.cache = s5.cache
       /\ \A h \in Guests : L2Entry(f, h) = L2Entry(s5, h)
       /\ \A c \in Hosts : Count(f, c) = Count(s5, c)
  BY <1>13, WriteL1EntrySound
<1> HIDE DEF f
<1>15. SameMemory(s0, s5)
  BY <1>2, <1>5, <1>6, <1>7, <1>8 DEF Steady, Fetched, SameMemory
<1>16. FreeHosts(f) = FreeHosts(s0)
  BY <1>14, <1>15 DEF FreeHosts, SameMemory, Count
<1>17. Cached(f, "l2") = Cached(s5, "l2")
  BY <1>14 DEF Cached, Tables
<1>18. s1.l1 = st.l1
  BY <1>1, <1>2 DEF Steady, SameMemory
<1>19. \A h \in Guests : L2Entry(f, h) = L2Entry(st, h) /\ st.l1[h].c # new
  BY <1>1, <1>4, <1>14, <1>15, <1>18 DEF SameMemory
<1>20. \A c \in Hosts : c # new => Count(f, c) = Count(st, c)
  BY <1>1, <1>14, <1>15 DEF SameMemory
<1>21. f.l1[g] = Entry(new, TRUE) /\ \A h \in Guests : h # g => f.l1[h] = st.l1[h]
  BY <1>1, <1>14, <1>15 DEF SameMemory
<1> QED BY <1>0, <1>1, <1>11, <1>14, <1>16, <1>17, <1>19, <1>20, <1>21 DEF new

\* Guest cluster g has an L2 table of its own, in the cache.
TableOwned(a, b, g) ==
    /\ b.l1[g].copied /\ b.l1[g].c \in Cached(b, "l2")
    /\ \A h \in Guests : /\ L2Entry(b, h) = L2Entry(a, h)
                         /\ a.l1[h].copied => b.l1[h].copied

\* get_cluster_table, where there is such a table.
LEMMA GetOwnTable ==
    ASSUME NEW st, NEW H, NEW L, NEW ref, Sound(st, H, L, ref), NEW g \in Guests, NEW pick,
           st.l1[g].copied
    PROVE  LET f == GetClusterTable(st, g, pick) IN
           /\ Sound(f, H, L, ref) /\ TableOwned(st, f, g) /\ SameMemory(st, f)
           /\ \A w \in Caches : f.cache[w].depends => st.cache[w].depends
<1> DEFINE f == CacheGet(st, "l2", st.l1[g].c, {}, pick)
<1>1. st.l1[g].c \in Hosts
  <2>1. EntryOk(st.l1[g], g, SnapTable(g))
    BY DEF Sound, Safe, Exclusive
  <2>2. Unallocated.copied = FALSE /\ Entry(SnapTable(g), FALSE).copied = FALSE
    BY DEF Unallocated, Entry
  <2> QED BY <2>1, <2>2 DEF EntryOk, Own
<1>2. Sound(f, H, L, ref) /\ Fetched(st, f, "l2", st.l1[g].c, {})
  BY <1>1, CacheGetSound DEF Caches
<1>3. f = GetClusterTable(st, g, pick)
  BY DEF GetClusterTable
<1> HIDE DEF f
<1>4. TableOwned(st, f, g)
  BY <1>2 DEF Fetched, SameMemory, TableOwned
<1> QED BY <1>2, <1>3, <1>4 DEF Fetched

\* get_cluster_table, where the snapshot's table is copied.
LEMMA GetNewTable ==
    ASSUME NEW st, NEW H, NEW ref, Sound(st, H, {}, ref), NEW g \in Guests, NEW pick,
           ~ st.l1[g].copied,
           FreeHosts(st) # {}
    PROVE  LET f == GetClusterTable(st, g, pick) IN
           /\ Sound(f, H, {}, ref) /\ TableOwned(st, f, g)
           /\ FreeHosts(st) \ {NewHost(st)} \subseteq FreeHosts(f)
<1> DEFINE new == NewHost(st)
           a == L2Allocate(st, g, pick)
           old == st.l1[g].c
           f == FreeCluster(a, old)
<1>0. f = GetClusterTable(st, g, pick)
  BY DEF GetClusterTable
<1>1. /\ Sound(a, H, {}, ref) /\ new \in Own \ H
      /\ a.l1[g] = Entry(new, TRUE) /\ \A h \in Guests : h # g => a.l1[h] = st.l1[h]
      /\ new \in Cached(a, "l2")
      /\ \A h \in Guests : L2Entry(a, h) = L2Entry(st, h) /\ st.l1[h].c # new
      /\ \A c \in Hosts : c # new => Count(a, c) = Count(st, c)
      /\ FreeHosts(st) \ {new} \subseteq FreeHosts(a)
  BY L2AllocateSound
<1> HIDE DEF a, new
<1>2. a.l1[g].c = new /\ a.l1[g].copied
  BY <1>1 DEF Entry
<1>3. TableOwned(st, a, g)
  BY <1>1, <1>2 DEF TableOwned
<1>4. CASE old = 0
  BY <1>0, <1>1, <1>3, <1>4 DEF FreeCluster, new
<1>5. CASE old # 0
  <2>1. old \in Hosts
    BY <1>5, TablesAreHosts DEF Sound, Safe
  <2>2. NowUses(st, old)
    BY DEF NowUses
  <2>3. old \notin H
    BY <2>2 DEF Sound, Safe, Held
  <2>4. \A h \in Guests : L2Entry(st, h) \in May(st, h)
    BY DEF May
  <2>5. \A h \in Guests : a.l1[h].c # old
    BY <1>1, <1>2, <1>5 DEF Sound, Safe, Exclusive
  <2>6. \A h \in Guests : L2Entry(a, h).c # old
    BY <1>1, <1>5, <2>4 DEF Sound, Safe, Exclusive
  <2>7. ~ NowUses(a, old)
    BY <2>5, <2>6 DEF NowUses
  <2>8. Enough(Count(a, old), TRUE, old)
    <3>1. Count(a, old) = Count(st, old)
      BY <1>1, <2>1
    <3> QED BY <2>1, <2>2, <3>1 DEF Sound, Safe, CountsNow, Enough
  <2>9. /\ Sound(f, H, {}, ref) /\ f.l1 = a.l1 /\ Cached(f, "l2") = Cached(a, "l2")
        /\ \A h \in Guests : L2Entry(f, h) = L2Entry(a, h)
        /\ FreeHosts(a) \subseteq FreeHosts(f)
    <3> HIDE DEF old
    <3> QED BY <1>1, <2>1, <2>3, <2>7, <2>8, FreeClusterSound
  <2> HIDE DEF f
  <2>10. TableOwned(st, f, g)
    BY <1>3, <2>9 DEF TableOwned
  <2> QED BY <1>0, <1>1, <2>9, <2>10 DEF new
<1> QED BY <1>4, <1>5

\* Where a request may need two clusters, one is left after get_cluster_table.
LEMMA GetClusterTableSound ==
    ASSUME NEW st, NEW H, NEW ref, Sound(st, H, {}, ref), NEW g \in Guests, NEW pick, Room(st)
    PROVE  LET f == GetClusterTable(st, g, pick) IN
           Sound(f, H, {}, ref) /\ TableOwned(st, f, g) /\ FreeHosts(f) # {}
<1> DEFINE f == GetClusterTable(st, g, pick)
<1>1. IsFiniteSet(FreeHosts(st)) /\ Cardinality(FreeHosts(st)) \in Nat
  <2>1. FreeHosts(st) \subseteq Hosts
    BY DEF FreeHosts
  <2> QED BY <2>1, Qcow2Assumption, FS_Subset, FS_CardinalityType
<1>2. FreeHosts(st) # {}
  BY <1>1, FS_EmptySet DEF Room
<1>3. FreeHosts(st) \ {NewHost(st)} # {}
  <2>1. Cardinality(FreeHosts(st) \ {NewHost(st)}) >= 1
    <3>1. Cardinality(FreeHosts(st) \ {NewHost(st)}) =
            IF NewHost(st) \in FreeHosts(st) THEN Cardinality(FreeHosts(st)) - 1
            ELSE Cardinality(FreeHosts(st))
      BY <1>1, FS_RemoveElement
    <3> QED BY <1>1, <3>1 DEF Room
  <2> QED BY <2>1, FS_EmptySet
<1>4. CASE st.l1[g].copied
  <2>1. Sound(f, H, {}, ref) /\ TableOwned(st, f, g) /\ SameMemory(st, f)
    BY <1>4, GetOwnTable
  <2> HIDE DEF f
  <2>2. FreeHosts(f) # {}
    BY <1>2, <2>1, SameFreeHosts
  <2> QED BY <2>1, <2>2 DEF f
<1>5. CASE ~ st.l1[g].copied
  BY <1>2, <1>3, <1>5, GetNewTable
<1> QED BY <1>4, <1>5

-----------------------------------------------------------------------------
(* An L2 entry changes.                                                    *)

\* The entry of g may become e: none, or a cluster that the L2 tables may
\* refer to.  The guest accepts what it finds there, and what it finds when
\* the old entry is still on the disk.
MayReplace(st, g, e) ==
    /\ e = Unallocated \/ (e.c \in Own /\ e = Entry(e.c, TRUE) /\ ~ st.cache["rb"].depends)
    /\ st.l1[g].c \in Cached(st, "l2") /\ st.l1[g].copied
    /\ \A s \in Sectors : EntryNow(st, e, s) \in st.acc[g][s]
    /\ ~ L2Entry(st, g).copied \/ Discarded(st, g)

\* The cluster of e is that of L, and it is no longer held.
Links(e, H, L, G) == L = {e.c} \ {0} /\ G = H \ {e.c}

\* The entry changes in the cached table.
LEMMA SetL2EntrySound ==
    ASSUME NEW st, NEW H, NEW g \in Guests, NEW e, NEW ref, MayReplace(st, g, e),
           NEW L, NEW G, Links(e, H, L, G), Sound(st, H, L, ref)
    PROVE  LET f == SetL2Entry(st, g, e) IN
           /\ Sound(f, G, {}, ref) /\ f.l1 = st.l1
           /\ L2Entry(f, g) = e /\ \A h \in Guests : h # g => L2Entry(f, h) = L2Entry(st, h)
           /\ \A c \in Hosts : Count(f, c) = Count(st, c)
<1> DEFINE t == st.l1[g].c
           f == Modify(st, "l2", t, e)
<1>0. f = SetL2Entry(st, g, e)
  BY DEF SetL2Entry
<1>0a. /\ e = Unallocated \/ (e.c \in Own /\ e = Entry(e.c, TRUE) /\ ~ st.cache["rb"].depends)
       /\ t \in Cached(st, "l2") /\ st.l1[g].copied
       /\ \A s \in Sectors : EntryNow(st, e, s) \in st.acc[g][s]
       /\ ~ L2Entry(st, g).copied \/ Discarded(st, g)
  BY DEF MayReplace
<1>0b. L = {e.c} \ {0} /\ G = H \ {e.c}
  BY DEF Links
<1>1. Valid(st) /\ Exclusive(st)
  BY DEF Sound, Safe
<1>2. /\ OnlyTables(st, f, "l2")
      /\ Cached(f, "l2") = Cached(st, "l2")
      /\ Tables(f, "l2")[t].val = e /\ Tables(f, "l2")[t].dirty
      /\ \A j \in Cached(st, "l2") : j # t => Tables(f, "l2")[j] = Tables(st, "l2")[j]
  BY <1>0a, <1>1, ModifyFields DEF Valid, Caches
<1> HIDE DEF f
<1>3. t \in Hosts /\ t # 0
  BY <1>0a, <1>1, HostNumbers DEF Valid, L2CacheOk
<1>4. Tables(f, "rb") = Tables(st, "rb") /\ Cached(f, "rb") = Cached(st, "rb")
  BY <1>2 DEF OnlyTables, Other, Cached
<1>5. /\ f.l1 = st.l1 /\ f.free = st.free /\ f.refsOk = st.refsOk /\ f.cur = st.cur
      /\ f.poss = st.poss /\ Image(f)
      /\ f.acc = st.acc /\ f.vis = st.vis /\ f.dataOk = st.dataOk
      /\ \A w \in Caches : /\ f.cache[w].depends = st.cache[w].depends
                          /\ f.cache[w].onFlush = st.cache[w].onFlush
  BY <1>2 DEF OnlyTables
<1>6. \A h \in Guests : h # g => st.l1[h].c # t
  BY <1>1, <1>3 DEF Exclusive
<1>7. L2Entry(f, g) = e /\ \A h \in Guests : h # g => L2Entry(f, h) = L2Entry(st, h)
  BY <1>0a, <1>2, <1>3, <1>5, <1>6 DEF L2Entry
<1>8. \A c \in Hosts : Count(f, c) = Count(st, c) /\ MayCount(f, c) = MayCount(st, c)
  BY <1>4, <1>5 DEF Count, Counts, MayCount
<1>9. \A h \in Guests : OnDisk(f, h) = OnDisk(st, h)
  BY <1>5 DEF OnDisk
<1>10. \A h \in Guests : \A d \in May(f, h) : d \in May(st, h) \/ (h = g /\ d = e)
  BY <1>7, <1>9 DEF May
<1>11. e.c # 0 => e.c \in Own /\ e.c \in H /\ ~ st.cache["rb"].depends
  BY <1>0a, <1>0b DEF Sound, Safe, Unallocated, Entry
<1>12. e.c # 0 => ~ MayUse(st, e.c) /\ Enough(Count(st, e.c), TRUE, e.c)
  BY <1>11 DEF Sound, Safe, Held
<1>13. \A c : /\ NowUses(f, c) => NowUses(st, c) \/ c = e.c
              /\ MayUse(f, c) => MayUse(st, c) \/ c = e.c
              /\ DiskUses(f, c) <=> DiskUses(st, c)
  BY <1>5, <1>7, <1>9, <1>10 DEF NowUses, MayUse, DiskUses
<1>14. 0 \notin Hosts
  BY HostNumbers
<1>15. Exclusive(f)
  <2>1. \A h \in Guests : EntryOk(f.l1[h], h, SnapTable(h))
    BY <1>1, <1>5 DEF Exclusive
  <2>2. \A h \in Guests : \A d \in May(f, h) : EntryOk(d, h, SnapData(h))
    <3>1. EntryOk(e, g, SnapData(g))
      BY <1>0a DEF EntryOk
    <3> QED BY <1>1, <1>10, <3>1 DEF Exclusive
  <2>3. \A h, k \in Guests : f.l1[h].c = f.l1[k].c => h = k \/ f.l1[h].c = 0
    BY <1>1, <1>5 DEF Exclusive
  <2>4. \A h \in Guests : \A d \in May(st, h) : d.c = e.c => e.c = 0
    BY <1>12 DEF MayUse
  <2>5. \A h, k \in Guests : \A d \in May(f, h), b \in May(f, k) : d.c = b.c => h = k \/ d.c = 0
    BY <1>1, <1>10, <2>4 DEF Exclusive
  <2>6. \A h \in Guests : st.l1[h].c = e.c => e.c = 0
    BY <1>12 DEF MayUse
  <2>7. \A h, k \in Guests : \A b \in May(f, k) : f.l1[h].c = b.c => b.c = 0
    BY <1>1, <1>5, <1>10, <2>6 DEF Exclusive
  <2> QED BY <2>1, <2>2, <2>3, <2>5, <2>7 DEF Exclusive
<1>16. Held(f, G)
  BY <1>0b, <1>5, <1>8, <1>13 DEF Sound, Safe, Held, Caches
<1>17. CountsNow(f) /\ CountsForRb(f)
  BY <1>5, <1>8, <1>12, <1>13, <1>14 DEF Sound, Safe, CountsNow, CountsForRb, Enough, Caches
<1>18. CountsOnDisk(f)
  BY <1>8, <1>13 DEF Sound, Safe, CountsOnDisk, Enough
<1>19. CountsForL2(f, {})
  BY <1>0b, <1>5, <1>8, <1>13, <1>14 DEF Sound, Safe, CountsForL2, Enough, Caches
<1>20. L2CacheOk(f)
  BY <1>1, <1>2, <1>5 DEF Valid, L2CacheOk
<1>21. RbCacheOk(f) /\ FileOk(f) /\ CacheOk(f, "l2") /\ CacheOk(f, "rb") /\ Acyclic(f)
  BY <1>1, <1>2, <1>4, <1>5 DEF Valid, RbCacheOk, FileOk, CacheOk, Acyclic, Caches
<1>22. Valid(f)
  BY <1>1, <1>5, <1>20, <1>21 DEF Valid
<1>23. t \in Own
  <2>1. EntryOk(st.l1[g], g, SnapTable(g))
    BY <1>1 DEF Exclusive
  <2>2. Unallocated.copied = FALSE /\ Entry(SnapTable(g), FALSE).copied = FALSE
    BY DEF Unallocated, Entry
  <2> QED BY <1>0a, <2>1, <2>2 DEF EntryOk
<1>24. SnapshotCached(f)
  BY <1>2, <1>23 DEF SnapshotCached, Snapshot, Own, Sound, Faithful
<1>25. /\ \A d, s : EntryData(f, d, s) = EntryData(st, d, s)
                    /\ EntryNow(f, d, s) = EntryNow(st, d, s)
       /\ \A h, d : Accepts(f, h, d) <=> Accepts(st, h, d)
       /\ \A h : Discarded(f, h) <=> Discarded(st, h)
  BY <1>5 DEF EntryData, EntryNow, Accepts, Discarded
<1>26. DataOnDisk(f)
  <2> SUFFICES ASSUME NEW h \in Guests, NEW d \in OnDisk(st, h)
               PROVE  Accepts(st, h, d) /\ (d.c \in Own => d = L2Entry(f, h) \/ Discarded(st, h))
    BY <1>9, <1>25 DEF DataOnDisk
  <2>1. Accepts(st, h, d) /\ (d.c \in Own => d = L2Entry(st, h) \/ Discarded(st, h))
    BY DEF Sound, Faithful, DataOnDisk
  <2>2. CASE h # g
    BY <1>7, <2>1, <2>2
  <2>3. CASE h = g /\ d.c \in Own
    <3>1. EntryOk(d, g, SnapData(g))
      BY <1>1, <2>3 DEF Exclusive, May
    <3>2. /\ Unallocated.c \notin Own
          /\ g \in Shared => Entry(SnapData(g), FALSE).c \notin Own
      BY <1>14 DEF Own, Snapshot, Unallocated, Entry
    <3>3. d = Entry(d.c, TRUE)
      BY <2>3, <3>1, <3>2 DEF EntryOk
    <3>4. d.copied
      BY <3>3 DEF Entry
    <3> QED BY <1>0a, <2>1, <2>3, <3>4
  <2> QED BY <2>1, <2>2, <2>3
<1>27. DataNow(f)
  BY <1>0a, <1>5, <1>7, <1>25 DEF Sound, Faithful, DataNow
<1>28. DataForL2(f, {})
  <2> SUFFICES ASSUME ~ st.cache["l2"].depends, ~ st.cache["l2"].onFlush, NEW h \in Guests
               PROVE  Accepts(st, h, L2Entry(f, h))
    BY <1>5, <1>25 DEF DataForL2, Caches
  <2>1. CASE h # g
    BY <1>7, <2>1 DEF Sound, Faithful, DataForL2
  <2>2. CASE h = g
    <3>1. e.c # 0 => \A s \in Sectors : st.poss[DataAt(e.c, s)] = {st.cur[DataAt(e.c, s)]}
      BY <1>0b DEF Sound, Faithful, DataForL2
    <3>2. \A s \in Sectors : EntryData(st, e, s) = {EntryNow(st, e, s)}
      BY <3>1 DEF EntryData, EntryNow
    <3> QED BY <1>0a, <1>7, <2>2, <3>2 DEF Accepts
  <2> QED BY <2>1, <2>2
<1>29. Faithful(f, {}, ref)
  BY <1>5, <1>24, <1>26, <1>27, <1>28
     DEF Sound, Faithful, SameGuest, DataTyped, SnapshotFiled
<1>30. Sound(f, G, {}, ref)
  BY <1>5, <1>15, <1>16, <1>17, <1>18, <1>19, <1>22, <1>29 DEF Sound, Safe
<1> QED BY <1>0, <1>5, <1>7, <1>8, <1>30

\* The new entry, and the old one's cluster is freed.
LEMMA ReplaceEntrySound ==
    ASSUME NEW st, NEW H, NEW g \in Guests, NEW e, NEW ref, MayReplace(st, g, e),
           NEW L, NEW G, Links(e, H, L, G), Sound(st, H, L, ref)
    PROVE  LET f == FreeCluster(SetL2Entry(st, g, e), L2Entry(st, g).c) IN
           /\ Sound(f, G, {}, ref) /\ f.l1 = st.l1
           /\ L2Entry(f, g) = e /\ \A h \in Guests : h # g => L2Entry(f, h) = L2Entry(st, h)
<1> DEFINE a == SetL2Entry(st, g, e)
           old == L2Entry(st, g).c
           f == FreeCluster(a, old)
<1>0. f = FreeCluster(SetL2Entry(st, g, e), L2Entry(st, g).c)
  OBVIOUS
<1>1. /\ Sound(a, G, {}, ref) /\ a.l1 = st.l1
      /\ L2Entry(a, g) = e /\ \A h \in Guests : h # g => L2Entry(a, h) = L2Entry(st, h)
      /\ \A c \in Hosts : Count(a, c) = Count(st, c)
  BY SetL2EntrySound
<1> HIDE DEF a
<1>1a. L = {e.c} \ {0} /\ G = H \ {e.c}
  BY DEF Links
<1>2. CASE old = 0
  BY <1>0, <1>1, <1>2 DEF FreeCluster
<1>3. CASE old # 0
  <2>1. \A h \in Guests : L2Entry(st, h) \in May(st, h)
    BY DEF May
  <2>2. old \in Hosts
    BY <1>3, <2>1, TablesAreHosts DEF Sound, Safe
  <2>3. NowUses(st, old)
    BY DEF NowUses
  <2>4. old \notin H
    BY <2>3 DEF Sound, Safe, Held
  <2>5. old # e.c
    BY <1>1a, <1>3, <2>4 DEF Sound, Safe
  <2>6. \A h \in Guests : a.l1[h].c # old
    BY <1>1, <1>3, <2>1 DEF Sound, Safe, Exclusive
  <2>7. \A h \in Guests : L2Entry(a, h).c # old
    <3> SUFFICES ASSUME NEW h \in Guests PROVE L2Entry(a, h).c # old
      OBVIOUS
    <3>1. CASE h = g
      BY <1>1, <2>5, <3>1
    <3>2. CASE h # g
      BY <1>1, <1>3, <2>1, <3>2 DEF Sound, Safe, Exclusive
    <3> QED BY <3>1, <3>2
  <2>8. ~ NowUses(a, old)
    BY <2>6, <2>7 DEF NowUses
  <2>9. Enough(Count(a, old), TRUE, old)
    BY <1>1, <2>2, <2>3 DEF Sound, Safe, CountsNow, Enough
  <2>10. old \in Hosts \ G
    BY <1>1a, <2>2, <2>4
  <2> HIDE DEF old
  <2>11. /\ Sound(f, G, {}, ref) /\ f.l1 = a.l1
         /\ \A h \in Guests : L2Entry(f, h) = L2Entry(a, h)
    BY <1>1, <2>8, <2>9, <2>10, FreeClusterSound
  <2> HIDE DEF f
  <2> QED BY <1>0, <1>1, <2>11
<1> QED BY <1>2, <1>3

-----------------------------------------------------------------------------
(* The steps of the requests.                                              *)

\* What the guest sees changes, and nothing else.
SameImage(a, b) ==
    /\ DOMAIN b = DOMAIN a
    /\ b.l1 = a.l1 /\ b.cache = a.cache /\ b.cur = a.cur /\ b.poss = a.poss
    /\ b.free = a.free /\ b.refsOk = a.refsOk /\ b.dataOk = a.dataOk

\* The guest accepts in b what it has to: more than before, anything, or
\* what the entry holds that memory and disk agree on.
StillAccepts(a, b, g) ==
    \/ \A s \in Sectors : a.acc[g][s] \subseteq b.acc[g][s]
    \/ Discarded(b, g)
    \/ /\ OnDisk(a, g) = {L2Entry(a, g)}
       /\ \A s \in Sectors : EntryData(a, L2Entry(a, g), s) \subseteq b.acc[g][s]

\* The guest's data stay safe then.
LEMMA SameImageFaithful ==
    ASSUME NEW a, NEW b, NEW H, NEW L, NEW ref, Sound(a, H, L, ref), SameImage(a, b),
           DOMAIN b.acc = Guests, DOMAIN b.vis = Guests,
           \A g \in Guests : L2Entry(b, g) = L2Entry(a, g) /\ StillAccepts(a, b, g)
    PROVE  Faithful(b, L, b)
<1>1. /\ b.l1 = a.l1 /\ b.cache = a.cache /\ b.cur = a.cur /\ b.poss = a.poss
      /\ b.dataOk = a.dataOk
  BY DEF SameImage
<1>2. Faithful(a, L, ref) /\ Exclusive(a) /\ Valid(a)
  BY DEF Sound, Safe
<1>3. \A g \in Guests : OnDisk(b, g) = OnDisk(a, g)
  BY <1>1 DEF OnDisk
<1>4. \A e, s : EntryData(b, e, s) = EntryData(a, e, s) /\ EntryNow(b, e, s) = EntryNow(a, e, s)
  BY <1>1 DEF EntryData, EntryNow
<1>5. \A g \in Guests : L2Entry(a, g) \in May(a, g) /\ OnDisk(a, g) \subseteq May(a, g)
  BY DEF May
<1>6. \A g \in Guests : \A e \in May(a, g) : \A s \in Sectors :
        EntryData(a, e, s) \subseteq Values /\ EntryNow(a, e, s) \in EntryData(a, e, s)
  <2>1. \A c \in Hosts, s \in Sectors :
          /\ a.poss[DataAt(c, s)] \subseteq Values
          /\ a.cur[DataAt(c, s)] \in a.poss[DataAt(c, s)]
    BY <1>2, DataPlaces DEF Faithful, DataTyped, Valid, FileOk
  <2>2. \A g \in Guests : \A e \in May(a, g) : e.c = 0 \/ e.c \in Hosts
    BY <1>2, TablesAreHosts
  <2>3. "zero" \in Values
    BY DEF Values
  <2> QED BY <2>1, <2>2, <2>3 DEF EntryData, EntryNow
<1>7. ASSUME NEW g \in Guests, NEW e \in May(a, g), Accepts(a, g, e),
             e \in OnDisk(a, g) \/ e = L2Entry(a, g)
      PROVE  Accepts(b, g, e)
  <2> SUFFICES ASSUME NEW s \in Sectors PROVE EntryData(a, e, s) \subseteq b.acc[g][s]
    BY <1>4 DEF Accepts
  <2> QED BY <1>6, <1>7 DEF StillAccepts, Discarded, Accepts
<1>8. DataOnDisk(b)
  <2> SUFFICES ASSUME NEW g \in Guests, NEW e \in OnDisk(a, g)
               PROVE  Accepts(b, g, e) /\ (e.c \in Own => e = L2Entry(a, g) \/ Discarded(b, g))
    BY <1>3 DEF DataOnDisk
  <2>1. Accepts(a, g, e) /\ (e.c \in Own => e = L2Entry(a, g) \/ Discarded(a, g))
    BY <1>2 DEF Faithful, DataOnDisk
  <2>2. Accepts(b, g, e)
    BY <1>5, <1>7, <2>1
  <2>3. e = L2Entry(a, g) \/ Discarded(b, g) \/ (Discarded(a, g) => Discarded(b, g))
    BY DEF StillAccepts, Discarded
  <2> QED BY <2>1, <2>2, <2>3
<1>9. DataNow(b)
  <2> SUFFICES ASSUME NEW g \in Guests, NEW s \in Sectors
               PROVE  EntryNow(a, L2Entry(a, g), s) \in b.acc[g][s]
    BY <1>4 DEF DataNow
  <2>1. EntryNow(a, L2Entry(a, g), s) \in a.acc[g][s]
    BY <1>2 DEF Faithful, DataNow
  <2> QED BY <1>5, <1>6, <2>1 DEF StillAccepts, Discarded
<1>10. DataForL2(b, L)
  BY <1>1, <1>2, <1>5, <1>7 DEF Faithful, DataForL2
<1>11. SnapshotFiled(b)
  BY <1>1, <1>2 DEF Faithful, SnapshotFiled
<1>12. SnapshotCached(b)
  BY <1>1, <1>2 DEF Faithful, SnapshotCached, Cached, Tables
<1>13. DataTyped(b)
  BY <1>1, <1>2 DEF Faithful, DataTyped
<1> QED BY <1>1, <1>2, <1>8, <1>9, <1>10, <1>11, <1>12, <1>13 DEF Faithful, SameGuest

\* So do the tables.
LEMMA SameImageSound ==
    ASSUME NEW a, NEW b, NEW H, NEW L, NEW ref, Sound(a, H, L, ref), SameImage(a, b),
           DOMAIN b.acc = Guests, DOMAIN b.vis = Guests,
           \A g \in Guests : StillAccepts(a, b, g)
    PROVE  /\ Sound(b, H, L, b) /\ b.l1 = a.l1
           /\ FreeHosts(b) = FreeHosts(a) /\ Cached(b, "l2") = Cached(a, "l2")
           /\ \A g \in Guests : L2Entry(b, g) = L2Entry(a, g)
<1>1. Image(b)
  BY DEF Sound, Valid, Image, Shape, SameImage
<1>2. \A w : Tables(b, w) = Tables(a, w)
  BY DEF SameImage, Tables
<1>3. SameTables(a, b) /\ (\A p \in Places : b.cur[p] \in b.poss[p])
      /\ \A w \in Caches : b.cache[w].depends = a.cache[w].depends
  BY <1>2 DEF SameTables, SameImage, Sound, Valid, FileOk
<1>5. \A i : Counts(b, i) = Counts(a, i)
  BY <1>2 DEF Counts, Cached, SameImage
<1>6. FreeHosts(b) = FreeHosts(a)
  BY <1>5 DEF FreeHosts, SameImage
<1>7. Cached(b, "l2") = Cached(a, "l2")
  BY <1>2 DEF Cached
<1>8. \A g \in Guests : L2Entry(b, g) = L2Entry(a, g)
  BY <1>2, <1>7 DEF L2Entry, SameImage
<1>9. Faithful(b, L, b)
  BY <1>8, SameImageFaithful
<1>10. Sound(b, H, L, b)
  BY <1>1, <1>3, <1>9, UnmovedSound
<1> QED BY <1>10, <1>6, <1>7, <1>8 DEF SameImage

\* What a sound image holds it can be compared with from here on.
LEMMA Rebase ==
    ASSUME NEW st, NEW H, NEW L, NEW ref, Sound(st, H, L, ref)
    PROVE  Sound(st, H, L, st) /\ SameGuest(st, ref)
  BY DEF Sound, Faithful, SameGuest

\* The guest sees what request r wrote.
LEMMA SeenSound ==
    ASSUME NEW st, NEW H, NEW ref, Sound(st, H, {}, ref), NEW r, req[r].g \in Guests
    PROVE  LET f == Seen(st, r) IN
           /\ Sound(f, H, {}, f) /\ f.l1 = st.l1 /\ f.acc = st.acc /\ f.cur = st.cur
           /\ \A h \in Guests : L2Entry(f, h) = L2Entry(st, h)
           /\ \A h \in Guests : h # req[r].g => f.vis[h] = st.vis[h]
           /\ \A s \in Sectors :
                f.vis[req[r].g][s] = IF s \in req[r].ss THEN r ELSE st.vis[req[r].g][s]
<1> DEFINE f == Seen(st, r)
           g == req[r].g
<1>1. SameImage(st, f) /\ f.acc = st.acc
  BY DEF Seen, SameImage, Sound, Valid, Image
<1>2. DOMAIN st.acc = Guests /\ DOMAIN st.vis = Guests
  BY DEF Sound, Faithful, DataTyped
<1>3. f.vis = [st.vis EXCEPT ![g] = [s \in Sectors |-> IF s \in req[r].ss THEN r ELSE @[s]]]
  BY DEF Seen, Sound, Valid, Image
<1>4. /\ DOMAIN f.vis = Guests
      /\ \A h \in Guests : h # g => f.vis[h] = st.vis[h]
      /\ \A s \in Sectors : f.vis[g][s] = IF s \in req[r].ss THEN r ELSE st.vis[g][s]
  BY <1>2, <1>3
<1> HIDE DEF f
<1>5. \A h \in Guests : StillAccepts(st, f, h)
  BY <1>1 DEF StillAccepts
<1>6. Sound(f, H, {}, f) /\ f.l1 = st.l1 /\ \A h \in Guests : L2Entry(f, h) = L2Entry(st, h)
  BY <1>1, <1>2, <1>4, <1>5, SameImageSound
<1> QED BY <1>1, <1>4, <1>6 DEF SameImage, f

\* The data may go to host: a cluster that a request holds, or one of the
\* guest's that accepts the data.
MayWrite(st, H, host, value) ==
    /\ host \in Own
    /\ \A s \in DOMAIN value : s \in Sectors /\ value[s] \in Values
    /\ \/ host \in H
       \/ \E g \in Guests : /\ L2Entry(st, g) = Entry(host, TRUE)
                            /\ \A s \in DOMAIN value : value[s] \in st.acc[g][s]

\* bdrv_co_writev to a data cluster.
LEMMA WriteSectorsSound ==
    ASSUME NEW st, NEW H, NEW ref, Sound(st, H, {}, ref), NEW host, NEW value,
           MayWrite(st, H, host, value)
    PROVE  LET f == WriteSectors(st, host, value) IN
           /\ Sound(f, H, {}, f) /\ f.l1 = st.l1 /\ f.acc = st.acc /\ f.vis = st.vis
           /\ \A g \in Guests : L2Entry(f, g) = L2Entry(st, g)
           /\ \A c \in Hosts, s \in Sectors :
                f.cur[DataAt(c, s)] =
                  IF c = host /\ s \in DOMAIN value THEN value[s] ELSE st.cur[DataAt(c, s)]
<1> DEFINE at == {DataAt(host, s) : s \in DOMAIN value}
           f == WriteSectors(st, host, value)
<1>0. /\ host \in Own
      /\ \A s \in DOMAIN value : s \in Sectors /\ value[s] \in Values
      /\ \/ host \in H
         \/ \E g \in Guests : /\ L2Entry(st, g) = Entry(host, TRUE)
                              /\ \A s \in DOMAIN value : value[s] \in st.acc[g][s]
  BY DEF MayWrite
<1>1. /\ \A g : L1At(g) \notin at
      /\ \A t : L2At(t) \notin at
      /\ \A i : RbAt(i) \notin at
      /\ \A c, s : DataAt(c, s) \in at <=> c = host /\ s \in DOMAIN value
      /\ \A c, s : DataAt(c, s)[3] = s
  BY DEF DataAt, L1At, L2At, RbAt
<1>2. /\ DOMAIN f = DOMAIN st /\ f.l1 = st.l1 /\ f.cache = st.cache
      /\ f.free = st.free /\ f.refsOk = st.refsOk
      /\ f.acc = st.acc /\ f.vis = st.vis /\ f.dataOk = st.dataOk
      /\ f.cur = [p \in Places |-> IF p \in at THEN value[p[3]] ELSE st.cur[p]]
      /\ f.poss = [p \in Places |->
                     IF p \in at THEN st.poss[p] \cup {value[p[3]]} ELSE st.poss[p]]
  BY DEF WriteSectors, Sound, Valid, Image
<1> HIDE DEF f, at
<1>3. \A p \in Places : p \notin at => f.cur[p] = st.cur[p] /\ f.poss[p] = st.poss[p]
  BY <1>2
<1>4. \A p \in Places : f.cur[p] \in f.poss[p]
  BY <1>2 DEF Sound, Valid, FileOk
<1>5. Image(f)
  BY <1>2 DEF Sound, Valid, Image, Shape
<1>6. SameTables(st, f)
  BY <1>1, <1>2, <1>3, TablePlaces DEF SameTables, Tables
<1>7. \A w \in Caches : f.cache[w].depends = st.cache[w].depends
  BY <1>2
<1>8. /\ \A g \in Guests : L2Entry(f, g) = L2Entry(st, g)
      /\ \A g \in Guests : OnDisk(f, g) = OnDisk(st, g)
  <2>1. Acyclic(f)
    BY <1>2 DEF Sound, Valid, Acyclic
  <2> QED BY <1>4, <1>5, <1>6, <2>1, UnmovedTables DEF SameMemory
<1>9. \A c \in Hosts, s \in Sectors :
        IF c = host /\ s \in DOMAIN value
        THEN /\ f.cur[DataAt(c, s)] = value[s]
             /\ f.poss[DataAt(c, s)] = st.poss[DataAt(c, s)] \cup {value[s]}
        ELSE /\ f.cur[DataAt(c, s)] = st.cur[DataAt(c, s)]
             /\ f.poss[DataAt(c, s)] = st.poss[DataAt(c, s)]
  BY <1>1, <1>2, DataPlaces
<1>10. Faithful(st, {}, ref) /\ Exclusive(st) /\ host \in Hosts /\ host \notin Snapshot
  BY <1>0 DEF Sound, Safe, Own
<1>11. DataTyped(f)
  <2>1. DataTyped(st)
    BY <1>10 DEF Faithful
  <2>2. ASSUME NEW c \in Hosts, NEW s \in Sectors PROVE f.poss[DataAt(c, s)] \subseteq Values
    <3>1. st.poss[DataAt(c, s)] \subseteq Values
      BY <2>1 DEF DataTyped
    <3>2. CASE c = host /\ s \in DOMAIN value
      BY <1>0, <1>9, <3>1, <3>2
    <3>3. CASE ~ (c = host /\ s \in DOMAIN value)
      BY <1>9, <3>1, <3>3
    <3> QED BY <3>2, <3>3
  <2> QED BY <1>2, <2>1, <2>2 DEF DataTyped
<1>12. \A g \in Guests : L2Entry(st, g) \in May(st, g) /\ OnDisk(st, g) \subseteq May(st, g)
  BY DEF May
<1>13. \A g \in Guests : \A e \in May(st, g) : e.c = 0 \/ e.c \in Hosts
  BY <1>10, TablesAreHosts
<1>14. ASSUME NEW h \in Guests, NEW e \in May(st, h), Accepts(st, h, e), e.c = host
       PROVE  Accepts(f, h, e)
  <2>0. e.c # 0
    BY <1>10, <1>14, HostNumbers
  <2>1. CASE host \in H
    <3>1. e # L2Entry(st, h)
      BY <1>14, <2>1 DEF Sound, Safe, Held, NowUses
    <3>2. Discarded(st, h)
      BY <1>0, <1>10, <1>14, <3>1 DEF Faithful, DataOnDisk, May
    <3> QED BY <1>2, <1>10, <1>11, <1>14, <2>0, <3>2 DEF Accepts, Discarded, DataTyped, EntryData
  <2>2. CASE \E g \in Guests : /\ L2Entry(st, g) = Entry(host, TRUE)
                               /\ \A s \in DOMAIN value : value[s] \in st.acc[g][s]
    <3>1. PICK g \in Guests : /\ L2Entry(st, g) = Entry(host, TRUE)
                              /\ \A s \in DOMAIN value : value[s] \in st.acc[g][s]
      BY <2>2
    <3>2. L2Entry(st, g).c = host
      BY <3>1 DEF Entry
    <3>3. h = g
      BY <1>10, <1>12, <1>14, <2>0, <3>2 DEF Exclusive
    <3>4. ASSUME NEW s \in Sectors PROVE f.poss[DataAt(host, s)] \subseteq st.acc[h][s]
      <4>1. st.poss[DataAt(host, s)] \subseteq st.acc[h][s]
        BY <1>14, <2>0 DEF Accepts, EntryData
      <4>2. CASE s \in DOMAIN value
        BY <1>9, <1>10, <3>1, <3>3, <4>1, <4>2
      <4>3. CASE s \notin DOMAIN value
        BY <1>9, <1>10, <4>1, <4>3
      <4> QED BY <4>2, <4>3
    <3> QED BY <1>2, <1>14, <2>0, <3>4 DEF Accepts, EntryData
  <2> QED BY <1>0, <2>1, <2>2
<1>15. \A h \in Guests : \A e \in May(st, h) : Accepts(st, h, e) => Accepts(f, h, e)
  <2> SUFFICES ASSUME NEW h \in Guests, NEW e \in May(st, h), Accepts(st, h, e), e.c # host
               PROVE  Accepts(f, h, e)
    BY <1>14
  <2>1. \A s \in Sectors : EntryData(f, e, s) = EntryData(st, e, s)
    BY <1>9, <1>13 DEF EntryData
  <2> QED BY <1>2, <2>1 DEF Accepts
<1>16. DataOnDisk(f)
  <2>1. \A h : Discarded(f, h) <=> Discarded(st, h)
    BY <1>2 DEF Discarded
  <2> QED BY <1>8, <1>10, <1>12, <1>15, <2>1 DEF Faithful, DataOnDisk
<1>17. DataNow(f)
  <2> SUFFICES ASSUME NEW h \in Guests, NEW s \in Sectors
               PROVE  EntryNow(f, L2Entry(st, h), s) \in st.acc[h][s]
    BY <1>2, <1>8 DEF DataNow
  <2>1. EntryNow(st, L2Entry(st, h), s) \in st.acc[h][s]
    BY <1>10 DEF Faithful, DataNow
  <2>2. CASE L2Entry(st, h).c # host \/ s \notin DOMAIN value
    BY <1>9, <1>12, <1>13, <2>1, <2>2 DEF EntryNow
  <2>3. CASE L2Entry(st, h).c = host /\ s \in DOMAIN value
    <3>1. host \notin H /\ host # 0
      BY <1>10, <2>3, HostNumbers DEF Sound, Safe, Held, NowUses
    <3>2. PICK g \in Guests : /\ L2Entry(st, g) = Entry(host, TRUE)
                              /\ value[s] \in st.acc[g][s]
      BY <1>0, <2>3, <3>1
    <3>3. L2Entry(st, g).c = host
      BY <3>2 DEF Entry
    <3>4. h = g
      BY <1>10, <1>12, <2>3, <3>1, <3>3 DEF Exclusive
    <3> QED BY <1>9, <1>10, <2>3, <3>1, <3>2, <3>4 DEF EntryNow
  <2> QED BY <2>2, <2>3
<1>18. DataForL2(f, {})
  BY <1>2, <1>8, <1>10, <1>12, <1>15 DEF Faithful, DataForL2
<1>19. SnapshotFiled(f)
  <2> SUFFICES ASSUME NEW g \in Shared
               PROVE  /\ f.poss[L2At(SnapTable(g))] = st.poss[L2At(SnapTable(g))]
                      /\ \A s \in Sectors :
                           f.poss[DataAt(SnapData(g), s)] = st.poss[DataAt(SnapData(g), s)]
    BY <1>10 DEF Faithful, SnapshotFiled
  <2>1. SnapTable(g) \in Hosts /\ SnapData(g) \in Hosts /\ SnapData(g) # host
    BY <1>10, Qcow2Assumption DEF Snapshot
  <2>2. f.poss[L2At(SnapTable(g))] = st.poss[L2At(SnapTable(g))]
    BY <1>6, <2>1 DEF SameTables
  <2> QED BY <1>9, <2>1, <2>2
<1>20. SnapshotCached(f)
  BY <1>2, <1>10 DEF Faithful, SnapshotCached, Cached, Tables
<1>21. Faithful(f, {}, f)
  BY <1>2, <1>10, <1>11, <1>16, <1>17, <1>18, <1>19, <1>20 DEF Faithful, SameGuest
<1>22. Sound(f, H, {}, f)
  BY <1>4, <1>5, <1>6, <1>7, <1>21, UnmovedSound
<1> QED BY <1>2, <1>8, <1>9, <1>22 DEF f

\* get_cluster_offset.
LEMMA LoadTableSound ==
    ASSUME NEW st, NEW H, NEW L, NEW ref, Sound(st, H, L, ref), NEW g \in Guests, NEW pick
    PROVE  LET f == LoadTable(st, g, pick) IN
           Sound(f, H, L, ref) /\ SameMemory(st, f)
<1>1. CASE st.l1[g].c = 0
  BY <1>1 DEF LoadTable, SameMemory
<1>2. CASE st.l1[g].c # 0
  <2> DEFINE f == CacheGet(st, "l2", st.l1[g].c, {}, pick)
  <2>1. st.l1[g].c \in Hosts
    BY <1>2, TablesAreHosts DEF Sound, Safe
  <2>2. Sound(f, H, L, ref) /\ Fetched(st, f, "l2", st.l1[g].c, {})
    BY <2>1, CacheGetSound DEF Caches
  <2>3. f = LoadTable(st, g, pick)
    BY <1>2 DEF LoadTable
  <2> HIDE DEF f
  <2> QED BY <2>2, <2>3 DEF Fetched
<1> QED BY <1>1, <1>2

\* The dependencies that qcow2_alloc_cluster_link_l2 sets.
LEMMA OrderLinkSound ==
    ASSUME NEW st, NEW H, NEW ref, Sound(st, H, {}, ref), NEW r, NEW host \in H
    PROVE  LET f == OrderLink(st, r) IN
           Sound(f, H, {host}, ref) /\ SameMemory(st, f) /\ ~ f.cache["rb"].depends
<1> DEFINE a == IF req[r].ss = Sectors THEN st ELSE DependsOnFlush(st, "l2")
           f == SetDependency(a, "l2")
<1>1. f = OrderLink(st, r)
  BY DEF OrderLink
<1>2. Sound(a, H, {}, ref) /\ SameMemory(st, a)
  <2>1. Sound(DependsOnFlush(st, "l2"), H, {}, ref) /\ Steady(st, DependsOnFlush(st, "l2"))
    BY OnFlushSound DEF DependsOnFlush, Caches
  <2> QED BY <2>1 DEF Steady, SameMemory
<1> HIDE DEF a
<1>3. {host} \subseteq H /\ "l2" \in Caches /\ Other("l2") = "rb"
  BY DEF Caches, Other
<1>4. Sound(f, H, {host}, ref) /\ Retains(a, f) /\ ~ f.cache["rb"].depends
  BY <1>2, <1>3, SetDependencySound
<1> HIDE DEF f
<1> QED BY <1>1, <1>2, <1>4 DEF Retains, SameMemory

\* Fewer clusters are held when a request ends and leaks its cluster.
LEMMA FewerHeld ==
    ASSUME NEW st, NEW H, NEW ref, Sound(st, H, {}, ref), NEW G \in SUBSET H
    PROVE  Sound(st, G, {}, ref)
  BY DEF Sound, Safe, Held

\* In f the held cluster host has become the guest's, which accepts what it
\* holds: only the clusters of G are still held.
Linked(st, f, H, G, g, host) ==
    /\ \E r, pick : f = LinkEntry(GetClusterTable(OrderLink(st, r), g, pick), g, host)
    /\ host \in H \cap Own /\ G = H \ {host}
    /\ st.l1[g].copied /\ ~ L2Entry(st, g).copied
    /\ \A s \in Sectors : st.cur[DataAt(host, s)] \in st.acc[g][s]

\* Of the tables that the guest uses, f changes the entry of g only.
EntrySet(st, f, g, e) ==
    /\ f.l1 = st.l1 /\ L2Entry(f, g) = e
    /\ \A h \in Guests : h # g => L2Entry(f, h) = L2Entry(st, h)

\* qcow2_alloc_cluster_link_l2: the held cluster of r becomes the guest's.
LEMMA LinkSound ==
    ASSUME NEW st, NEW f, NEW H, NEW G, NEW g \in Guests, NEW host, NEW ref,
           Sound(st, H, {}, ref), Linked(st, f, H, G, g, host)
    PROVE  Sound(f, G, {}, ref) /\ EntrySet(st, f, g, Entry(host, TRUE))
<1>pick. PICK r, pick : f = LinkEntry(GetClusterTable(OrderLink(st, r), g, pick), g, host)
  BY DEF Linked
<1> DEFINE e == Entry(host, TRUE)
           a == OrderLink(st, r)
           b == GetClusterTable(a, g, pick)
           L == {host}
<1>0. f = FreeCluster(SetL2Entry(b, g, e), L2Entry(b, g).c)
  BY <1>pick DEF LinkEntry
<1>may. /\ host \in H \cap Own /\ G = H \ {host}
      /\ st.l1[g].copied /\ ~ L2Entry(st, g).copied
      /\ \A s \in Sectors : st.cur[DataAt(host, s)] \in st.acc[g][s]
  BY DEF Linked
<1>1. Sound(a, H, {host}, ref) /\ SameMemory(st, a) /\ ~ a.cache["rb"].depends
  BY <1>may, OrderLinkSound
<1> HIDE DEF a
<1>2. /\ Sound(b, H, {host}, ref) /\ TableOwned(a, b, g) /\ SameMemory(a, b)
      /\ ~ b.cache["rb"].depends
  BY <1>1, <1>may, GetOwnTable DEF Caches, SameMemory
<1> HIDE DEF b
<1>3. e.c = host /\ e = Entry(e.c, TRUE) /\ e.c \in Own
  BY <1>may DEF Entry
<1>4. {e.c} \ {0} = {host} /\ host \in Hosts /\ host # 0
  BY <1>3, HostNumbers DEF Own
<1> HIDE DEF e
<1>5. SameMemory(st, b)
  BY <1>1, <1>2 DEF SameMemory
<1>6. \A s \in Sectors : EntryNow(b, e, s) \in b.acc[g][s]
  <2>1. SameGuest(b, ref) /\ SameGuest(st, ref)
    BY <1>2 DEF Sound, Faithful
  <2> QED BY <1>3, <1>4, <1>may, <2>1 DEF SameGuest, EntryNow
<1>7. /\ Sound(f, G, {}, ref) /\ f.l1 = b.l1
      /\ L2Entry(f, g) = e /\ \A h \in Guests : h # g => L2Entry(f, h) = L2Entry(b, h)
  <2>1. b.l1[g].c \in Cached(b, "l2") /\ b.l1[g].copied
    BY <1>2, <1>5, <1>may DEF TableOwned, SameMemory
  <2>2. {host} = {e.c} \ {0} /\ H \ {host} = H \ {e.c}
    BY <1>3, <1>4, <1>may
  <2>3. e = Unallocated \/ (e.c \in Own /\ e = Entry(e.c, TRUE) /\ ~ b.cache["rb"].depends)
    BY <1>2, <1>3
  <2>4. ~ L2Entry(b, g).copied \/ Discarded(b, g)
    BY <1>5, <1>may DEF SameMemory
  <2>5. MayReplace(b, g, e)
    BY <1>6, <2>1, <2>3, <2>4 DEF MayReplace
  <2>6. Links(e, H, L, G) /\ Sound(b, H, L, ref)
    BY <1>2, <1>may, <2>2 DEF Links
  <2> HIDE DEF L
  <2> QED BY <1>0, <2>5, <2>6, ReplaceEntrySound
<1> QED BY <1>3, <1>5, <1>7 DEF SameMemory, EntrySet, e

\* discard_single_l2.
LEMMA UnmapSound ==
    ASSUME NEW st, NEW H, NEW ref, Sound(st, H, {}, ref), NEW g \in Guests,
           st.l1[g].c \in Cached(st, "l2"),
           st.l1[g].copied
    PROVE  LET f == Unmap(st, g) IN
           /\ Sound(f, H, {}, f) /\ f.l1 = st.l1
           /\ \/ f = st
              \/ L2Entry(f, g) = Unallocated /\ \A s \in Sectors : f.vis[g][s] = "zero"
           /\ \A c \in Hosts, s \in Sectors : f.cur[DataAt(c, s)] = st.cur[DataAt(c, s)]
           /\ \A h \in Guests : h # g =>
                L2Entry(f, h) = L2Entry(st, h) /\ f.acc[h] = st.acc[h] /\ f.vis[h] = st.vis[h]
<1> DEFINE a == [st EXCEPT !.vis[g] = [s \in Sectors |-> "zero"],
                           !.acc[g] = [s \in Sectors |-> Values]]
           f == FreeCluster(SetL2Entry(a, g, Unallocated), L2Entry(st, g).c)
<1>1. Unmap(st, g) = IF L2Entry(st, g).c = 0 THEN st ELSE f
  BY DEF Unmap
<1>2. /\ SameImage(st, a)
      /\ a.vis = [st.vis EXCEPT ![g] = [s \in Sectors |-> "zero"]]
      /\ a.acc = [st.acc EXCEPT ![g] = [s \in Sectors |-> Values]]
  BY DEF SameImage, Sound, Valid, Image
<1> HIDE DEF a
<1>3. /\ DOMAIN a.acc = Guests /\ DOMAIN a.vis = Guests
      /\ \A h \in Guests : h # g => a.acc[h] = st.acc[h] /\ a.vis[h] = st.vis[h]
      /\ \A s \in Sectors : a.vis[g][s] = "zero" /\ a.acc[g][s] = Values
  BY <1>2 DEF Sound, Faithful, DataTyped
<1>4. Discarded(a, g) /\ \A h \in Guests : StillAccepts(st, a, h)
  BY <1>3 DEF Discarded, StillAccepts
<1>4a. /\ SameImage(st, a) /\ DOMAIN a.acc = Guests /\ DOMAIN a.vis = Guests
       /\ \A h \in Guests : StillAccepts(st, a, h)
  BY <1>2, <1>3, <1>4
<1>5. /\ Sound(a, H, {}, a) /\ a.l1 = st.l1 /\ Cached(a, "l2") = Cached(st, "l2")
      /\ \A h \in Guests : L2Entry(a, h) = L2Entry(st, h)
  BY <1>4a, SameImageSound
<1>6. Unallocated.c = 0 /\ {Unallocated.c} \ {0} = {}
  BY DEF Unallocated, Entry
<1>7. H \ {Unallocated.c} = H
  BY <1>5, <1>6, HostNumbers DEF Sound, Safe, Held
<1>8. /\ Sound(f, H, {}, a) /\ f.l1 = a.l1
      /\ L2Entry(f, g) = Unallocated /\ \A h \in Guests : h # g => L2Entry(f, h) = L2Entry(a, h)
  <2> DEFINE e == Unallocated
             z == FreeCluster(SetL2Entry(a, g, e), L2Entry(a, g).c)
  <2>1. a.l1[g].c \in Cached(a, "l2") /\ a.l1[g].copied
    BY <1>5, <1>6
  <2>2. e = Unallocated \/ (e.c \in Own /\ e = Entry(e.c, TRUE) /\ ~ a.cache["rb"].depends)
    OBVIOUS
  <2>3. \A s \in Sectors : EntryNow(a, e, s) \in a.acc[g][s]
    BY <1>3, <1>6 DEF EntryNow, Values
  <2>3a. ~ L2Entry(a, g).copied \/ Discarded(a, g)
    BY <1>4
  <2>3b. MayReplace(a, g, e)
    BY <2>1, <2>2, <2>3, <2>3a DEF MayReplace
  <2>4. z = f
    BY <1>5
  <2> DEFINE L == {}
  <2>4a. Links(e, H, L, H) /\ Sound(a, H, L, a)
    BY <1>5, <1>6, <1>7 DEF Links
  <2> HIDE DEF e, L
  <2>5. /\ Sound(z, H, {}, a) /\ z.l1 = a.l1
        /\ L2Entry(z, g) = e /\ \A h \in Guests : h # g => L2Entry(z, h) = L2Entry(a, h)
    BY <2>3b, <2>4a, ReplaceEntrySound
  <2> QED BY <2>4, <2>5 DEF e
<1> HIDE DEF f
<1>9. Sound(f, H, {}, f) /\ SameGuest(f, a)
  BY <1>8, Rebase
<1>10. CASE L2Entry(st, g).c = 0
  BY <1>1, <1>10, Rebase
<1>11. CASE L2Entry(st, g).c # 0
  <2>1. \A c \in Hosts, s \in Sectors : f.cur[DataAt(c, s)] = st.cur[DataAt(c, s)]
    BY <1>2, <1>9 DEF SameGuest, SameImage
  <2>2. \A s \in Sectors : f.vis[g][s] = "zero"
    BY <1>3, <1>9 DEF SameGuest
  <2>3. \A h \in Guests : h # g =>
          L2Entry(f, h) = L2Entry(st, h) /\ f.acc[h] = st.acc[h] /\ f.vis[h] = st.vis[h]
    BY <1>3, <1>5, <1>8, <1>9 DEF SameGuest
  <2> QED BY <1>1, <1>5, <1>8, <1>9, <1>11, <2>1, <2>2, <2>3
<1> QED BY <1>10, <1>11

-----------------------------------------------------------------------------
(* Opening an image, the first time and after a crash.                     *)

\* What the guest reads is what it wrote last.
Visible(st) ==
    \A g \in Guests, s \in Sectors : EntryNow(st, L2Entry(st, g), s) = st.vis[g][s]

\* An image that was just opened: the caches are empty and the file holds
\* one value in every place, the L1 table among them.  The guest expects
\* what it finds.
Opened(st, f) ==
    /\ Image(st) /\ st.cur = f /\ st.poss = [p \in Places |-> {f[p]}] /\ st.free = 1
    /\ st.refsOk /\ st.dataOk
    /\ \A g \in Guests : st.l1[g] = f[L1At(g)]
    /\ \A w \in Caches : st.cache[w].tables = <<>> /\ ~ st.cache[w].depends
    /\ Visible(st) /\ DOMAIN st.acc = Guests /\ DOMAIN st.vis = Guests
    /\ \A g \in Guests, s \in Sectors : st.acc[g][s] = {st.vis[g][s]}

\* The L2 entry of g in the file f.
EntryIn(f, g) == IF f[L1At(g)].c = 0 THEN Unallocated ELSE f[L2At(f[L1At(g)].c)]
UsedIn(f, c) == \E g \in Guests : f[L1At(g)].c = c \/ EntryIn(f, g).c = c

\* The file f gives each cluster one user at most and refcounts that suffice,
\* and the snapshot is there.
Consistent(f) ==
    /\ DOMAIN f = Places
    /\ \A g \in Guests : EntryOk(f[L1At(g)], g, SnapTable(g))
                         /\ EntryOk(EntryIn(f, g), g, SnapData(g))
    /\ \A g, h \in Guests : f[L1At(g)].c = f[L1At(h)].c => g = h \/ f[L1At(g)].c = 0
    /\ \A g, h \in Guests : EntryIn(f, g).c = EntryIn(f, h).c => g = h \/ EntryIn(f, g).c = 0
    /\ \A g, h \in Guests : f[L1At(g)].c = EntryIn(f, h).c => EntryIn(f, h).c = 0
    /\ \A b \in Blocks : f[RbAt(b)] \in CountFns(b)
    /\ \A c \in Hosts : Enough(f[RbAt(Block(c))][c], UsedIn(f, c), c)
    /\ \A c \in Hosts, s \in Sectors : f[DataAt(c, s)] \in Values
    /\ \A g \in Shared : /\ f[L2At(SnapTable(g))] = Entry(SnapData(g), FALSE)
                         /\ \A s \in Sectors : f[DataAt(SnapData(g), s)] = "old"

\* An image opened from such a file is sound.
LEMMA OpenedSound ==
    ASSUME NEW st, NEW f, Opened(st, f), Consistent(f)
    PROVE  Sound(st, {}, {}, st)
<1>1. \A w \in Caches : Tables(st, w) = <<>> /\ Cached(st, w) = {} /\ Dirty(st, w) = {}
  BY DEF Opened, Tables, Cached, Dirty
<1>2. \A p \in Places : st.cur[p] = f[p] /\ st.poss[p] = {f[p]}
  BY DEF Opened
<1>3. \A g \in Guests : EntryOk(st.l1[g], g, SnapTable(g))
  BY DEF Opened, Consistent
<1>4. \A g \in Guests : st.l1[g].c = 0 \/ st.l1[g].c \in Hosts
  <2>1. \A g \in Shared : SnapTable(g) \in Hosts
    BY Qcow2Assumption
  <2>2. \A g : \A e : EntryOk(e, g, SnapTable(g)) => e.c = 0 \/ e.c \in Hosts
    BY <2>1 DEF EntryOk, Entry, Unallocated, Own
  <2> QED BY <1>3, <2>2
<1>5. \A g \in Guests : L2Entry(st, g) = EntryIn(f, g)
  BY <1>1 DEF L2Entry, EntryIn, Opened, Caches
<1>6. \A g \in Guests : OnDisk(st, g) = {EntryIn(f, g)}
  <2> SUFFICES ASSUME NEW g \in Guests PROVE OnDisk(st, g) = {EntryIn(f, g)}
    OBVIOUS
  <2>1. st.l1[g].c \in Hosts => st.poss[L2At(st.l1[g].c)] = {f[L2At(st.l1[g].c)]}
    BY <1>2, TablePlaces
  <2> QED BY <1>4, <2>1 DEF OnDisk, EntryIn, Opened
<1>7. \A g \in Guests : May(st, g) = {EntryIn(f, g)}
  BY <1>5, <1>6 DEF May
<1>8. \A c \in Hosts : /\ Count(st, c) = f[RbAt(Block(c))][c]
                       /\ MayCount(st, c) = {f[RbAt(Block(c))][c]}
  <2> SUFFICES ASSUME NEW c \in Hosts
               PROVE  /\ Count(st, c) = f[RbAt(Block(c))][c]
                      /\ MayCount(st, c) = {f[RbAt(Block(c))][c]}
    OBVIOUS
  <2>1. st.poss[RbAt(Block(c))] = {f[RbAt(Block(c))]}
    BY <1>2, BlockOf, TablePlaces
  <2>2. MayCount(st, c) = {f[RbAt(Block(c))][c]}
    BY <2>1 DEF MayCount
  <2>3. Counts(st, Block(c)) = f[RbAt(Block(c))]
    BY <1>1 DEF Counts, Opened, Caches
  <2> QED BY <2>2, <2>3 DEF Count
<1>9. \A c : /\ NowUses(st, c) <=> UsedIn(f, c)
             /\ MayUse(st, c) <=> UsedIn(f, c)
             /\ DiskUses(st, c) <=> UsedIn(f, c)
  BY <1>5, <1>6, <1>7 DEF NowUses, MayUse, DiskUses, UsedIn, Opened
<1>10. Exclusive(st)
  BY <1>3, <1>7 DEF Exclusive, Consistent, Opened
<1>11. \A c \in Hosts : Enough(f[RbAt(Block(c))][c], UsedIn(f, c), c)
  BY DEF Consistent
<1>12. CountsNow(st) /\ CountsOnDisk(st) /\ CountsForL2(st, {}) /\ CountsForRb(st)
  BY <1>8, <1>9, <1>11 DEF CountsNow, CountsOnDisk, CountsForL2, CountsForRb, Enough
<1>13. Held(st, {})
  BY DEF Held
<1>14. L2CacheOk(st) /\ RbCacheOk(st) /\ Acyclic(st)
  BY <1>1 DEF L2CacheOk, RbCacheOk, Acyclic, Opened, Caches
<1>15. CacheOk(st, "l2") /\ CacheOk(st, "rb")
  <2>1. IsFiniteSet({}) /\ Cardinality({}) = 0
    BY FS_EmptySet
  <2>2. \A w : 0 <= Size(w)
    BY Qcow2Assumption DEF Size
  <2> QED BY <1>1, <2>1, <2>2 DEF CacheOk, Caches
<1>16. FileOk(st)
  <2>1. \A g \in Guests : st.poss[L1At(g)] = {st.l1[g]}
    BY <1>2, TablePlaces DEF Opened
  <2>2. \A b \in Blocks : st.poss[RbAt(b)] \subseteq CountFns(b)
    BY <1>2, TablePlaces DEF Consistent
  <2> QED BY <1>2, <2>1, <2>2 DEF FileOk
<1>17. st.free \in Nat \ {0} /\ st.free <= Cardinality(Hosts) + 1
  BY HostNumbers DEF Opened
<1>18. Valid(st)
  BY <1>14, <1>15, <1>16, <1>17 DEF Valid, Opened
<1>19. SnapshotFiled(st) /\ SnapshotCached(st)
  <2>1. \A g \in Shared : /\ st.poss[L2At(SnapTable(g))] = {Entry(SnapData(g), FALSE)}
                          /\ \A s \in Sectors : st.poss[DataAt(SnapData(g), s)] = {"old"}
    BY <1>2, TablePlaces, DataPlaces, Qcow2Assumption DEF Consistent
  <2> QED BY <1>1, <2>1 DEF SnapshotFiled, SnapshotCached, Caches
<1>20. \A c \in Hosts, s \in Sectors : /\ st.poss[DataAt(c, s)] \subseteq Values
                                       /\ st.poss[DataAt(c, s)] = {st.cur[DataAt(c, s)]}
  BY <1>2, DataPlaces DEF Consistent
<1>21. DataTyped(st)
  BY <1>20 DEF DataTyped, Opened
<1>22. \A g \in Guests : EntryIn(f, g).c = 0 \/ EntryIn(f, g).c \in Hosts
  BY <1>7, <1>10, TablesAreHosts
<1>23. \A g \in Guests, s \in Sectors :
         /\ EntryData(st, EntryIn(f, g), s) = {EntryNow(st, EntryIn(f, g), s)}
         /\ st.acc[g][s] = {EntryNow(st, EntryIn(f, g), s)}
  BY <1>5, <1>20, <1>22 DEF EntryData, EntryNow, Opened, Visible
<1>24. \A g \in Guests : Accepts(st, g, EntryIn(f, g))
  BY <1>23 DEF Accepts
<1>25. DataOnDisk(st) /\ DataNow(st) /\ DataForL2(st, {})
  BY <1>5, <1>6, <1>23, <1>24 DEF DataOnDisk, DataNow, DataForL2
<1>26. Faithful(st, {}, st)
  BY <1>19, <1>21, <1>25 DEF Faithful, SameGuest, Opened
<1> QED BY <1>10, <1>12, <1>13, <1>18, <1>26 DEF Sound, Safe, Opened

\* A crash leaves one of the values that a place can have.
LEMMA SurvivorValues ==
    ASSUME NEW st, Image(st), FileOk(st), NEW f \in Survivors(st)
    PROVE  DOMAIN f = Places /\ \A p \in Places : f[p] \in st.poss[p]
<1> DEFINE Kinds == {"l1", "l2", "rb", "data"}
<1>1. \A p \in Places : p[1] \in Kinds
  BY DEF Places, L1At, L2At, RbAt, DataAt
<1>2. PICK o \in [l1 : Outcomes(st, "l1"), l2 : Outcomes(st, "l2"),
                  rb : Outcomes(st, "rb"), data : Outcomes(st, "data")] :
        f = [p \in Places |-> IF p \in DOMAIN o[p[1]] THEN o[p[1]][p] ELSE st.cur[p]]
  BY DEF Survivors
<1>3. \A k \in Kinds : o[k] \in Outcomes(st, k)
  BY <1>2
<1>4. \A k : \A u \in Outcomes(st, k) : \A p \in DOMAIN u : u[p] \in st.poss[p]
  BY DEF Outcomes
<1>5. \A p \in Places : st.cur[p] \in st.poss[p]
  BY DEF FileOk
<1> HIDE DEF Kinds
<1> QED BY <1>1, <1>2, <1>3, <1>4, <1>5

\* The host crashes and the image is opened again.
LEMMA ReopenedSound ==
    ASSUME NEW st, NEW H, NEW L, Sound(st, H, L, st), NEW f \in Survivors(st)
    PROVE  Sound(Reopened(st, f), {}, {}, Reopened(st, f)) /\ Visible(Reopened(st, f))
<1> DEFINE z == Reopened(st, f)
           l1 == [g \in Guests |-> f[L1At(g)]]
           a == [st EXCEPT
                  !.cur = f, !.poss = [p \in Places |-> {f[p]}], !.free = 1, !.l1 = l1,
                  !.cache = [w \in {"l2", "rb"} |->
                     [tables |-> <<>>, depends |-> FALSE, onFlush |-> FALSE]]]
           vis == [g \in Guests |-> [s \in Sectors |-> Content(a, g, s)]]
<1>1. DOMAIN f = Places /\ \A p \in Places : f[p] \in st.poss[p]
  BY SurvivorValues DEF Sound, Valid
<1>2. /\ DOMAIN z = DOMAIN st /\ z.l1 = [g \in Guests |-> f[L1At(g)]]
      /\ z.cur = f /\ z.poss = [p \in Places |-> {f[p]}] /\ z.free = 1
      /\ z.refsOk = st.refsOk /\ z.dataOk = st.dataOk
      /\ z.vis = vis /\ z.acc = [g \in Guests |-> [s \in Sectors |-> {vis[g][s]}]]
      /\ a.l1 = z.l1 /\ a.cache = z.cache /\ a.cur = z.cur
      /\ z.cache = [w \in {"l2", "rb"} |->
                      [tables |-> <<>>, depends |-> FALSE, onFlush |-> FALSE]]
  BY DEF Reopened, Sound, Valid, Image
<1> HIDE DEF z, a
<1>2a. \A g : L2Entry(a, g) = L2Entry(z, g)
  BY <1>2 DEF L2Entry, Cached, Tables
<1>2b. \A g, s : Content(a, g, s) = EntryNow(z, L2Entry(z, g), s)
  BY <1>2, <1>2a DEF Content, EntryNow
<1>2c. /\ DOMAIN z.vis = Guests /\ DOMAIN z.acc = Guests
       /\ \A g \in Guests, s \in Sectors :
            z.vis[g][s] = Content(a, g, s) /\ z.acc[g][s] = {z.vis[g][s]}
  BY <1>2
<1> HIDE DEF vis
<1>2d. Visible(z)
  BY <1>2b, <1>2c DEF Visible
<1>3. Opened(z, f)
  <2>1. Image(z)
    BY <1>1, <1>2 DEF Image, Shape, Caches, Sound, Valid
  <2>2. z.refsOk /\ z.dataOk
    BY <1>2 DEF Sound, Safe, Faithful
  <2>3. \A g \in Guests : z.l1[g] = f[L1At(g)]
    BY <1>2
  <2>4. \A w \in Caches : z.cache[w].tables = <<>> /\ ~ z.cache[w].depends
    BY <1>2 DEF Caches
  <2> QED BY <1>2, <1>2c, <1>2d, <2>1, <2>2, <2>3, <2>4 DEF Opened
<1>4. \A g \in Guests : f[L1At(g)] = st.l1[g]
  BY <1>1, TablePlaces DEF Sound, Valid, FileOk
<1>5. \A g \in Guests : st.l1[g].c = 0 \/ st.l1[g].c \in Hosts
  BY TablesAreHosts DEF Sound, Safe
<1>6. \A g \in Guests : EntryIn(f, g) \in OnDisk(st, g)
  BY <1>1, <1>4, <1>5, TablePlaces DEF EntryIn, OnDisk
<1>7. \A g \in Guests : EntryIn(f, g) \in May(st, g)
  BY <1>6 DEF May
<1>8. \A c : UsedIn(f, c) => DiskUses(st, c)
  BY <1>4, <1>6 DEF UsedIn, DiskUses
<1>9. \A c \in Hosts : f[RbAt(Block(c))][c] \in MayCount(st, c)
  BY <1>1, BlockOf, TablePlaces DEF MayCount
<1>10. \A c \in Hosts : Enough(f[RbAt(Block(c))][c], UsedIn(f, c), c)
  BY <1>8, <1>9 DEF Sound, Safe, CountsOnDisk, Enough
<1>11. \A b \in Blocks : f[RbAt(b)] \in CountFns(b)
  BY <1>1, TablePlaces DEF Sound, Valid, FileOk
<1>12. Faithful(st, L, st) /\ Exclusive(st)
  BY DEF Sound, Safe
<1>13. \A c \in Hosts, s \in Sectors : f[DataAt(c, s)] \in Values
  BY <1>1, <1>12, DataPlaces DEF Faithful, DataTyped
<1>14. \A g \in Shared : /\ f[L2At(SnapTable(g))] = Entry(SnapData(g), FALSE)
                         /\ \A s \in Sectors : f[DataAt(SnapData(g), s)] = "old"
  <2> SUFFICES ASSUME NEW g \in Shared
               PROVE  /\ f[L2At(SnapTable(g))] = Entry(SnapData(g), FALSE)
                      /\ \A s \in Sectors : f[DataAt(SnapData(g), s)] = "old"
    OBVIOUS
  <2>1. SnapTable(g) \in Hosts /\ SnapData(g) \in Hosts
    BY Qcow2Assumption
  <2>2. /\ f[L2At(SnapTable(g))] \in st.poss[L2At(SnapTable(g))]
        /\ \A s \in Sectors : f[DataAt(SnapData(g), s)] \in st.poss[DataAt(SnapData(g), s)]
    BY <1>1, <2>1, TablePlaces, DataPlaces
  <2>3. /\ st.poss[L2At(SnapTable(g))] = {Entry(SnapData(g), FALSE)}
        /\ \A s \in Sectors : st.poss[DataAt(SnapData(g), s)] = {"old"}
    BY <1>12 DEF Faithful, SnapshotFiled
  <2> QED BY <2>2, <2>3
<1>15. Consistent(f)
  <2>1. \A g \in Guests : EntryOk(f[L1At(g)], g, SnapTable(g))
                          /\ EntryOk(EntryIn(f, g), g, SnapData(g))
    BY <1>4, <1>7, <1>12 DEF Exclusive
  <2>2. \A g, h \in Guests : f[L1At(g)].c = f[L1At(h)].c => g = h \/ f[L1At(g)].c = 0
    BY <1>4, <1>12 DEF Exclusive
  <2>3. \A g, h \in Guests : EntryIn(f, g).c = EntryIn(f, h).c => g = h \/ EntryIn(f, g).c = 0
    BY <1>7, <1>12 DEF Exclusive
  <2>4. \A g, h \in Guests : f[L1At(g)].c = EntryIn(f, h).c => EntryIn(f, h).c = 0
    BY <1>4, <1>7, <1>12 DEF Exclusive
  <2> QED BY <1>1, <1>10, <1>11, <1>13, <1>14, <2>1, <2>2, <2>3, <2>4 DEF Consistent
<1> QED BY <1>2d, <1>3, <1>15, OpenedSound DEF z

\* The image with its new snapshot is sound.
LEMMA InitSound == Init => Sound(q, {}, {}, q) /\ Visible(q)
<1> SUFFICES ASSUME Init PROVE Sound(q, {}, {}, q) /\ Visible(q)
  OBVIOUS
<1> DEFINE entry(g) == IF g \in Shared THEN Entry(SnapTable(g), FALSE) ELSE Unallocated
           snap(p) == \E g \in Shared :
               p \in {L2At(SnapTable(g))} \cup {DataAt(SnapData(g), s) : s \in Sectors}
           used(c) == \E g \in Shared : c \in {SnapTable(g), SnapData(g)}
           cur == [p \in Places |->
               CASE p[1] = "l1" -> entry(p[2])
                 [] p[1] = "l2" -> IF snap(p) THEN Entry(p[2] + 1, FALSE) ELSE Unallocated
                 [] p[1] = "rb" -> [c \in {c \in Hosts : Block(c) = p[2]} |->
                                      IF used(c) THEN 2 ELSE 0]
                 [] p[1] = "data" -> IF snap(p) THEN "old" ELSE "junk"]
           vis == [g \in Guests |-> [s \in Sectors |->
                     IF g \in Shared THEN "old" ELSE "zero"]]
           empty == [tables |-> <<>>, depends |-> FALSE, onFlush |-> FALSE]
<1>1. /\ DOMAIN q = {"l1", "cache", "cur", "poss", "free", "vis", "acc", "refsOk", "dataOk"}
      /\ q.l1 = [g \in Guests |-> entry(g)]
      /\ q.cache = [w \in {"l2", "rb"} |-> empty]
      /\ q.cur = cur /\ q.poss = [p \in Places |-> {cur[p]}] /\ q.free = 1 /\ q.refsOk
      /\ q.vis = vis /\ q.acc = [g \in Guests |-> [s \in Sectors |-> {vis[g][s]}]] /\ q.dataOk
  BY DEF Init
<1>2. \A g \in Guests : cur[L1At(g)] = entry(g)
  <2> SUFFICES ASSUME NEW g \in Guests PROVE cur[L1At(g)] = entry(g)
    OBVIOUS
  <2>1. L1At(g) \in Places /\ L1At(g)[1] = "l1" /\ L1At(g)[2] = g
    BY TablePlaces DEF L1At
  <2> QED BY <2>1
<1>3. \A g \in Shared : cur[L2At(SnapTable(g))] = Entry(SnapData(g), FALSE)
  <2> SUFFICES ASSUME NEW g \in Shared PROVE cur[L2At(SnapTable(g))] = Entry(SnapData(g), FALSE)
    OBVIOUS
  <2> DEFINE p == L2At(SnapTable(g))
  <2>1. SnapTable(g) \in Hosts /\ SnapTable(g) + 1 = SnapData(g)
    BY Qcow2Assumption DEF SnapTable, SnapData
  <2>2. p \in Places /\ p[1] = "l2" /\ p[2] = SnapTable(g)
    BY <2>1, TablePlaces DEF L2At
  <2>3. snap(p)
    OBVIOUS
  <2> HIDE DEF p, snap
  <2>4. cur[p] = Entry(p[2] + 1, FALSE)
    BY <2>2, <2>3
  <2> QED BY <2>1, <2>2, <2>4 DEF p
<1>4. \A b \in Blocks :
        cur[RbAt(b)] = [c \in {c \in Hosts : Block(c) = b} |-> IF used(c) THEN 2 ELSE 0]
  <2> SUFFICES ASSUME NEW b \in Blocks
               PROVE  cur[RbAt(b)] =
                        [c \in {c \in Hosts : Block(c) = b} |-> IF used(c) THEN 2 ELSE 0]
    OBVIOUS
  <2>1. RbAt(b) \in Places /\ RbAt(b)[1] = "rb" /\ RbAt(b)[2] = b
    BY TablePlaces DEF RbAt
  <2> QED BY <2>1
<1>4a. \A c \in Hosts, s \in Sectors :
         /\ cur[DataAt(c, s)] \in {"old", "junk"}
         /\ (\E g \in Shared : c = SnapData(g)) => cur[DataAt(c, s)] = "old"
  <2> SUFFICES ASSUME NEW c \in Hosts, NEW s \in Sectors
               PROVE  /\ cur[DataAt(c, s)] \in {"old", "junk"}
                      /\ (\E g \in Shared : c = SnapData(g)) => cur[DataAt(c, s)] = "old"
    OBVIOUS
  <2> DEFINE p == DataAt(c, s)
  <2>1. p \in Places /\ p[1] = "data"
    BY DataPlaces DEF DataAt
  <2>2. (\E g \in Shared : c = SnapData(g)) => snap(p)
    OBVIOUS
  <2> HIDE DEF p, snap
  <2>3. cur[p] = IF snap(p) THEN "old" ELSE "junk"
    BY <2>1
  <2> QED BY <2>2, <2>3 DEF p
<1>5. DOMAIN cur = Places
  OBVIOUS
<1>6. \A c : used(c) <=> c \in Snapshot
  BY DEF Snapshot
<1> HIDE DEF cur, used
<1>6a. /\ \A g \in Shared : g \in Guests /\ SnapTable(g) # 0
      /\ \A c, copied : Entry(c, copied).c = c /\ Unallocated.c = 0
  BY HostNumbers, Qcow2Assumption DEF Entry, Unallocated
<1>6b. /\ \A g \in Shared : cur[L1At(g)] = Entry(SnapTable(g), FALSE)
       /\ \A g \in Guests \ Shared : cur[L1At(g)] = Unallocated
  BY <1>2, <1>6a
<1> HIDE DEF entry
<1>8. /\ \A g \in Shared : EntryIn(cur, g) = Entry(SnapData(g), FALSE)
      /\ \A g \in Guests \ Shared : EntryIn(cur, g) = Unallocated
  <2>1. \A g \in Shared : EntryIn(cur, g) = Entry(SnapData(g), FALSE)
    <3> SUFFICES ASSUME NEW g \in Shared PROVE EntryIn(cur, g) = Entry(SnapData(g), FALSE)
      OBVIOUS
    <3>1. cur[L1At(g)].c = SnapTable(g) /\ SnapTable(g) # 0
      BY <1>6a, <1>6b
    <3> QED BY <1>3, <3>1 DEF EntryIn
  <2>2. \A g \in Guests \ Shared : EntryIn(cur, g) = Unallocated
    BY <1>6a, <1>6b DEF EntryIn
  <2> QED BY <2>1, <2>2
<1>9. /\ \A g \in Shared : cur[L1At(g)].c = SnapTable(g) /\ EntryIn(cur, g).c = SnapData(g)
      /\ \A g \in Guests \ Shared : cur[L1At(g)].c = 0 /\ EntryIn(cur, g).c = 0
  BY <1>8, <1>6a, <1>6b
<1>10. \A g \in Guests : /\ EntryOk(cur[L1At(g)], g, SnapTable(g))
                         /\ EntryOk(EntryIn(cur, g), g, SnapData(g))
  BY <1>8, <1>6b DEF EntryOk
<1>11. /\ \A g, h \in Shared : SnapTable(g) = SnapTable(h) => g = h
       /\ \A g, h \in Shared : SnapData(g) = SnapData(h) => g = h
       /\ \A g, h \in Shared : SnapTable(g) # SnapData(h)
       /\ \A g \in Shared : SnapTable(g) # 0 /\ SnapData(g) # 0
  <2>1. Shared \subseteq Nat \ {0}
    BY Qcow2Assumption
  <2> QED BY <2>1 DEF SnapTable, SnapData
<1>12. \A g, h \in Guests : cur[L1At(g)].c = cur[L1At(h)].c => g = h \/ cur[L1At(g)].c = 0
  BY <1>9, <1>11
<1>13. \A g, h \in Guests : EntryIn(cur, g).c = EntryIn(cur, h).c => g = h \/ EntryIn(cur, g).c = 0
  BY <1>9, <1>11
<1>14. \A g, h \in Guests : cur[L1At(g)].c = EntryIn(cur, h).c => EntryIn(cur, h).c = 0
  BY <1>9, <1>11
<1>15. \A b \in Blocks : cur[RbAt(b)] \in CountFns(b)
  <2> SUFFICES ASSUME NEW b \in Blocks PROVE cur[RbAt(b)] \in CountFns(b)
    OBVIOUS
  <2> DEFINE F == [c \in {c \in Hosts : Block(c) = b} |-> IF used(c) THEN 2 ELSE 0]
  <2>1. F \in [{c \in Hosts : Block(c) = b} -> 0 .. 2]
    OBVIOUS
  <2> QED BY <1>4, <2>1 DEF CountFns
<1>16. \A c \in Hosts : Enough(cur[RbAt(Block(c))][c], UsedIn(cur, c), c)
  <2> SUFFICES ASSUME NEW c \in Hosts PROVE Enough(cur[RbAt(Block(c))][c], UsedIn(cur, c), c)
    OBVIOUS
  <2>1. cur[RbAt(Block(c))][c] = IF used(c) THEN 2 ELSE 0
    BY <1>4, BlockOf
  <2>2. c # 0
    BY HostNumbers
  <2>3. UsedIn(cur, c) => c \in Snapshot
    BY <1>9, <2>2 DEF UsedIn, Snapshot
  <2> QED BY <1>6, <2>1, <2>3 DEF Enough
<1>17. Consistent(cur)
  <2>1. \A c \in Hosts, s \in Sectors : cur[DataAt(c, s)] \in Values
    BY <1>4a DEF Values
  <2>2. \A g \in Shared : /\ cur[L2At(SnapTable(g))] = Entry(SnapData(g), FALSE)
                          /\ \A s \in Sectors : cur[DataAt(SnapData(g), s)] = "old"
    BY <1>3, <1>4a, Qcow2Assumption
  <2> QED BY <1>5, <1>10, <1>12, <1>13, <1>14, <1>15, <1>16, <2>1, <2>2 DEF Consistent
<1>18. \A g \in Guests : q.l1[g] = cur[L1At(g)]
  BY <1>1, <1>2 DEF entry
<1>19. \A w \in Caches : q.cache[w].tables = <<>> /\ ~ q.cache[w].depends
  BY <1>1 DEF Caches
<1>20. Visible(q)
  <2> SUFFICES ASSUME NEW g \in Guests, NEW s \in Sectors
               PROVE  EntryNow(q, L2Entry(q, g), s) = q.vis[g][s]
    BY DEF Visible
  <2>1. L2Entry(q, g) = EntryIn(cur, g)
    <3>1. Cached(q, "l2") = {}
      BY <1>19 DEF Cached, Tables, Caches
    <3> QED BY <1>1, <1>18, <3>1 DEF L2Entry, EntryIn
  <2>2. CASE g \in Shared
    <3>1. EntryNow(q, L2Entry(q, g), s) = cur[DataAt(SnapData(g), s)]
      BY <1>1, <1>9, <1>11, <2>1, <2>2 DEF EntryNow
    <3> QED BY <1>1, <1>4a, <2>2, <3>1, Qcow2Assumption
  <2>3. CASE g \notin Shared
    BY <1>1, <1>9, <2>1, <2>3 DEF EntryNow
  <2> QED BY <2>2, <2>3
<1>21. Opened(q, cur)
  <2>1. Image(q)
    BY <1>1, <1>5 DEF Image, Shape, Caches
  <2>2. /\ DOMAIN q.acc = Guests /\ DOMAIN q.vis = Guests
        /\ \A g \in Guests, s \in Sectors : q.acc[g][s] = {q.vis[g][s]}
    BY <1>1
  <2> QED BY <1>1, <1>18, <1>19, <1>20, <2>1, <2>2 DEF Opened
<1> QED BY <1>17, <1>20, <1>21, OpenedSound

-----------------------------------------------------------------------------
(* The requests.                                                           *)

Pcs == {"new", "wait", "again", "inplace", "data", "cow", "link", "done"}
Allocs == {"data", "cow", "link"}

\* The clusters that requests have allocated and not linked yet.
HeldBy(R) == {R[r].host : r \in {x \in Requests : R[x].pc \in Allocs}}

\* A request at work has a guest cluster; one that allocates has a cluster
\* that no other request has, and an L2 table of its own to link it in.
RequestOk(x, l1) ==
    /\ {"pc", "g", "ss", "host", "on"} \subseteq DOMAIN x
    /\ x.pc \in Pcs /\ (x.pc = "wait" <=> x.on # <<>>)
    /\ x.pc \in {"new", "done"} \/ x.g \in Guests
    /\ x.pc \in Allocs => x.host \in Own /\ l1[x.g].copied

RequestsOk(R, l1) ==
    /\ DOMAIN R = Requests
    /\ \A r \in Requests : RequestOk(R[r], l1)
    /\ \A r, x \in Requests :
         R[r].pc \in Allocs /\ R[x].pc \in Allocs /\ R[r].host = R[x].host => r = x

\* Guest clusters keep their own L2 tables.
KeepsTables(old, new) == \A g \in Guests : old[g].copied => new[g].copied

\* A request is all right as long as its table is there.
LEMMA RequestKept ==
    ASSUME NEW x, NEW l1, NEW m, RequestOk(x, l1), KeepsTables(l1, m)
    PROVE  RequestOk(x, m)
  BY DEF RequestOk, KeepsTables, Allocs

\* So are all requests.
LEMMA RequestsKept ==
    ASSUME NEW R, NEW l1, NEW m, RequestsOk(R, l1), KeepsTables(l1, m)
    PROVE  RequestsOk(R, m)
  BY RequestKept DEF RequestsOk

\* A request that held nothing goes on.
LEMMA RequestMoves ==
    ASSUME NEW R, NEW l1, NEW m, RequestsOk(R, l1), KeepsTables(l1, m), NEW r \in Requests,
           R[r].pc \notin Allocs, NEW x, RequestOk(x, m), x.pc \in Allocs => x.host \notin HeldBy(R)
    PROVE  /\ RequestsOk([R EXCEPT ![r] = x], m)
           /\ HeldBy([R EXCEPT ![r] = x]) \subseteq HeldBy(R) \cup {x.host}
           /\ x.pc \notin Allocs => HeldBy([R EXCEPT ![r] = x]) \subseteq HeldBy(R)
<1> DEFINE S == [R EXCEPT ![r] = x]
<1>1. DOMAIN S = Requests /\ S[r] = x /\ \A y \in Requests : y # r => S[y] = R[y]
  BY DEF RequestsOk
<1> HIDE DEF S
<1>2. \A y \in Requests : RequestOk(S[y], m)
  BY <1>1, RequestKept DEF RequestsOk
<1>3. \A y \in Requests : R[y].pc \in Allocs => R[y].host \in HeldBy(R)
  BY DEF HeldBy
<1>4. \A y, z \in Requests : S[y].pc \in Allocs /\ S[z].pc \in Allocs
                             /\ S[y].host = S[z].host => y = z
  BY <1>1, <1>3 DEF RequestsOk
<1>5. \A h \in HeldBy(S) : h \in HeldBy(R) \/ (h = x.host /\ x.pc \in Allocs)
  <2> SUFFICES ASSUME NEW y \in Requests, S[y].pc \in Allocs
               PROVE  S[y].host \in HeldBy(R) \/ (S[y].host = x.host /\ x.pc \in Allocs)
    BY DEF HeldBy
  <2> QED BY <1>1, <1>3
<1> QED BY <1>1, <1>2, <1>4, <1>5 DEF RequestsOk, S

\* An allocating request goes on to its next step.
LEMMA PhaseOk ==
    ASSUME NEW R, NEW l1, NEW m, RequestsOk(R, l1), KeepsTables(l1, m), NEW r \in Requests,
           R[r].pc \in Allocs, NEW p \in Allocs
    PROVE  RequestsOk([R EXCEPT ![r].pc = p], m)
           /\ HeldBy([R EXCEPT ![r].pc = p]) \subseteq HeldBy(R)
<1> DEFINE S == [R EXCEPT ![r].pc = p]
<1>1. RequestOk(R[r], m) /\ R[r].pc # "wait" /\ p # "wait" /\ p \in Pcs
      /\ R[r].pc \notin {"new", "done"}
  BY RequestsKept DEF RequestsOk, Allocs, Pcs
<1>2. /\ DOMAIN S = Requests /\ \A y \in Requests : y # r => S[y] = R[y]
      /\ DOMAIN S[r] = DOMAIN R[r] /\ S[r].pc = p /\ S[r].g = R[r].g /\ S[r].host = R[r].host
      /\ S[r].on = R[r].on
  BY <1>1 DEF RequestsOk, RequestOk
<1> HIDE DEF S
<1>3. RequestOk(S[r], m)
  BY <1>1, <1>2 DEF RequestOk
<1>4. \A y \in Requests : RequestOk(S[y], m)
  BY <1>2, <1>3, RequestKept DEF RequestsOk
<1>5. \A y \in Requests : S[y].pc \in Allocs => R[y].pc \in Allocs /\ S[y].host = R[y].host
  BY <1>2
<1>6. HeldBy(S) \subseteq HeldBy(R)
  BY <1>5 DEF HeldBy
<1> QED BY <1>2, <1>4, <1>5, <1>6 DEF RequestsOk, S

\* A request ends and wakes those that wait for it.
LEMMA FinishOk ==
    ASSUME NEW l1, NEW m, RequestsOk(req, l1), KeepsTables(l1, m), NEW r \in Requests
    PROVE  /\ RequestsOk(Finish(r), m)
           /\ HeldBy(Finish(r)) \subseteq HeldBy(req)
           /\ req[r].pc \in Allocs => req[r].host \notin HeldBy(Finish(r))
<1> DEFINE S == Finish(r)
<1>1. DOMAIN S = Requests
  BY DEF Finish
<1>2. S[r] = [NewReq EXCEPT !.pc = "done"]
  BY DEF Finish
<1>3. RequestOk(S[r], m) /\ S[r].pc \notin Allocs
  BY <1>2 DEF NewReq, RequestOk, Pcs, Allocs
<1>4. ASSUME NEW y \in Requests, y # r, req[y].on = <<r>>
      PROVE  RequestOk(S[y], m) /\ S[y].pc \notin Allocs
  <2>1. S[y] = [req[y] EXCEPT !.pc = "again", !.on = <<>>]
    BY <1>4 DEF Finish
  <2>2. RequestOk(req[y], m)
    BY RequestsKept DEF RequestsOk
  <2>3. req[y].pc = "wait"
    <3>1. <<r>> # <<>>
      OBVIOUS
    <3> QED BY <1>4, <2>2, <3>1 DEF RequestOk
  <2>4. /\ DOMAIN S[y] = DOMAIN req[y] /\ S[y].pc = "again" /\ S[y].on = <<>> /\ S[y].g = req[y].g
    BY <2>1, <2>2 DEF RequestOk
  <2> QED BY <2>2, <2>3, <2>4 DEF RequestOk, Pcs, Allocs
<1>5. ASSUME NEW y \in Requests, y # r, req[y].on # <<r>>
      PROVE  RequestOk(S[y], m) /\ S[y] = req[y]
  <2>1. S[y] = req[y]
    BY <1>5 DEF Finish
  <2> QED BY <2>1, RequestsKept DEF RequestsOk
<1> HIDE DEF S
<1>6. \A y \in Requests : S[y].pc \in Allocs => y # r /\ S[y] = req[y]
  BY <1>3, <1>4, <1>5
<1>7. \A y \in Requests : RequestOk(S[y], m)
  BY <1>3, <1>4, <1>5
<1>8. HeldBy(S) \subseteq HeldBy(req) /\ (req[r].pc \in Allocs => req[r].host \notin HeldBy(S))
  BY <1>6 DEF HeldBy, RequestsOk
<1> QED BY <1>1, <1>6, <1>7, <1>8 DEF RequestsOk, S

-----------------------------------------------------------------------------
(* The data of the requests.                                               *)

\* What request r, in state x, has done: the guest accepts its data; a write
\* in place has a cluster of its own, one that allocates has none to write
\* to yet; its data are in the new cluster, and so is the rest after the
\* copy.
Transfer(r, x, st) ==
    x.pc \notin {"new", "done"} =>
      /\ x.ss # {} /\ x.ss \subseteq Sectors
      /\ \A s \in x.ss : r \in st.acc[x.g][s]
      /\ x.pc = "inplace" => L2Entry(st, x.g) = Entry(x.host, TRUE)
      /\ x.pc \in Allocs => ~ L2Entry(st, x.g).copied
      /\ x.pc \in {"cow", "link"} => \A s \in x.ss : st.cur[DataAt(x.host, s)] = r
      /\ x.pc = "link" =>
           \A s \in Sectors \ x.ss : st.cur[DataAt(x.host, s)] = st.vis[x.g][s]

Transfers(R, st) == \A r \in Requests : Transfer(r, R[r], st)

\* handle_dependencies: one allocation at a time for each guest cluster.
Apart(R) ==
    \A r, x \in Requests :
      R[r].pc \in Allocs /\ R[x].pc \in Allocs /\ R[r].g = R[x].g => r = x

\* The data and the entries that a request relies on stay.
LEMMA TransferKept ==
    ASSUME NEW r, NEW x, NEW a, NEW b, Transfer(r, x, a),
           x.pc \notin {"new", "done"} => \A s \in x.ss : r \in b.acc[x.g][s],
           x.pc = "inplace" \/ x.pc \in Allocs => L2Entry(b, x.g) = L2Entry(a, x.g),
           x.pc \in {"cow", "link"} =>
             \A s \in Sectors : b.cur[DataAt(x.host, s)] = a.cur[DataAt(x.host, s)],
           x.pc = "link" => \A s \in Sectors : b.vis[x.g][s] = a.vis[x.g][s]
    PROVE  Transfer(r, x, b)
<1> SUFFICES ASSUME x.pc \notin {"new", "done"}
             PROVE  /\ x.ss # {} /\ x.ss \subseteq Sectors
                    /\ \A s \in x.ss : r \in b.acc[x.g][s]
                    /\ x.pc = "inplace" => L2Entry(b, x.g) = Entry(x.host, TRUE)
                    /\ x.pc \in Allocs => ~ L2Entry(b, x.g).copied
                    /\ x.pc \in {"cow", "link"} => \A s \in x.ss : b.cur[DataAt(x.host, s)] = r
                    /\ x.pc = "link" =>
                         \A s \in Sectors \ x.ss : b.cur[DataAt(x.host, s)] = b.vis[x.g][s]
  BY DEF Transfer
<1>1. /\ x.ss # {} /\ x.ss \subseteq Sectors
      /\ x.pc = "inplace" => L2Entry(a, x.g) = Entry(x.host, TRUE)
      /\ x.pc \in Allocs => ~ L2Entry(a, x.g).copied
      /\ x.pc \in {"cow", "link"} => \A s \in x.ss : a.cur[DataAt(x.host, s)] = r
      /\ x.pc = "link" =>
           \A s \in Sectors \ x.ss : a.cur[DataAt(x.host, s)] = a.vis[x.g][s]
  BY DEF Transfer
<1>2. x.pc \in {"cow", "link"} => \A s \in x.ss : b.cur[DataAt(x.host, s)] = r
  BY <1>1
<1>3. x.pc = "link" =>
        \A s \in Sectors \ x.ss : b.cur[DataAt(x.host, s)] = b.vis[x.g][s]
  BY <1>1
<1> QED BY <1>1, <1>2, <1>3

\* From state a to state b the guest's data stay where they are.
Carries(a, b) ==
    /\ \A g \in Guests, s \in Sectors :
         a.acc[g][s] \subseteq b.acc[g][s] /\ b.vis[g][s] = a.vis[g][s]
    /\ \A g \in Guests : L2Entry(b, g) = L2Entry(a, g)
    /\ \A c \in Hosts, s \in Sectors : b.cur[DataAt(c, s)] = a.cur[DataAt(c, s)]

\* They do when only tables are written or loaded.
LEMMA SameGuestCarries ==
    ASSUME NEW a, NEW b, NEW H, NEW L, Sound(b, H, L, a),
           \A g \in Guests : L2Entry(b, g) = L2Entry(a, g)
    PROVE  Carries(a, b)
  BY DEF Sound, Faithful, SameGuest, Carries

\* The requests and the guest find them there.
LEMMA CarriesData ==
    ASSUME NEW a, NEW b, NEW H, NEW L, NEW ref, Sound(a, H, L, ref), Carries(a, b),
           NEW R, NEW l1, RequestsOk(R, l1), Transfers(R, a), Visible(a)
    PROVE  Transfers(R, b) /\ Visible(b)
<1>1. ASSUME NEW r \in Requests PROVE Transfer(r, R[r], b)
  <2> DEFINE x == R[r]
  <2>1. RequestOk(x, l1) /\ Transfer(r, x, a)
    BY DEF RequestsOk, Transfers
  <2> HIDE DEF x
  <2>2. /\ x.pc \notin {"new", "done"} => x.g \in Guests
        /\ x.pc \in Allocs => x.host \in Hosts
    BY <2>1 DEF RequestOk, Own
  <2>3. x.pc \notin {"new", "done"} => \A s \in x.ss : r \in b.acc[x.g][s]
    BY <2>1, <2>2 DEF Transfer, Carries
  <2>4. x.pc = "inplace" \/ x.pc \in Allocs => L2Entry(b, x.g) = L2Entry(a, x.g)
    BY <2>2 DEF Carries, Allocs
  <2>5. x.pc \in {"cow", "link"} =>
          \A s \in Sectors : b.cur[DataAt(x.host, s)] = a.cur[DataAt(x.host, s)]
    BY <2>2 DEF Carries, Allocs
  <2>6. x.pc = "link" => \A s \in Sectors : b.vis[x.g][s] = a.vis[x.g][s]
    BY <2>2 DEF Carries
  <2> QED BY <2>1, <2>3, <2>4, <2>5, <2>6, TransferKept DEF x
<1>2. Visible(b)
  <2> SUFFICES ASSUME NEW g \in Guests, NEW s \in Sectors
               PROVE  EntryNow(b, L2Entry(b, g), s) = b.vis[g][s]
    BY DEF Visible
  <2>1. L2Entry(a, g).c = 0 \/ L2Entry(a, g).c \in Hosts
    BY TablesAreHosts DEF Sound, Safe, May
  <2>2. EntryNow(a, L2Entry(a, g), s) = a.vis[g][s]
    BY DEF Visible
  <2> QED BY <2>1, <2>2 DEF Carries, EntryNow
<1> QED BY <1>1, <1>2 DEF Transfers

\* A write to the cluster that request r holds changes the data of r alone.
LEMMA HeldWrite ==
    ASSUME NEW a, NEW b, NEW R, NEW ref, NEW l1, Sound(a, HeldBy(R), {}, ref), RequestsOk(R, l1),
           Transfers(R, a), Visible(a), NEW r \in Requests, R[r].pc \in Allocs,
           b.acc = a.acc, b.vis = a.vis,
           \A g \in Guests : L2Entry(b, g) = L2Entry(a, g),
           \A c \in Hosts, s \in Sectors :
             c # R[r].host => b.cur[DataAt(c, s)] = a.cur[DataAt(c, s)]
    PROVE  Visible(b) /\ \A y \in Requests : y # r => Transfer(y, R[y], b)
<1>1. R[r].host \in HeldBy(R)
  BY DEF HeldBy
<1>2. ASSUME NEW y \in Requests, y # r PROVE Transfer(y, R[y], b)
  <2> DEFINE x == R[y]
  <2>1. /\ RequestOk(x, l1) /\ Transfer(y, x, a)
        /\ x.pc \in Allocs => x.host # R[r].host
    BY <1>2 DEF RequestsOk, Transfers
  <2> HIDE DEF x
  <2>2. /\ x.pc \notin {"new", "done"} => x.g \in Guests
        /\ x.pc \in Allocs => x.host \in Hosts
    BY <2>1 DEF RequestOk, Own
  <2>3. x.pc \notin {"new", "done"} => \A s \in x.ss : y \in b.acc[x.g][s]
    BY <2>1 DEF Transfer
  <2>4. x.pc = "inplace" \/ x.pc \in Allocs => L2Entry(b, x.g) = L2Entry(a, x.g)
    BY <2>2 DEF Allocs
  <2>5. x.pc \in {"cow", "link"} =>
          \A s \in Sectors : b.cur[DataAt(x.host, s)] = a.cur[DataAt(x.host, s)]
    BY <2>1, <2>2 DEF Allocs
  <2> QED BY <2>1, <2>3, <2>4, <2>5, TransferKept DEF x
<1>3. Visible(b)
  <2> SUFFICES ASSUME NEW g \in Guests, NEW s \in Sectors
               PROVE  EntryNow(b, L2Entry(b, g), s) = b.vis[g][s]
    BY DEF Visible
  <2>1. L2Entry(a, g).c = 0 \/ L2Entry(a, g).c \in Hosts
    BY TablesAreHosts DEF Sound, Safe, May
  <2>2. L2Entry(a, g).c # R[r].host
    BY <1>1 DEF Sound, Safe, Held, NowUses
  <2>3. EntryNow(a, L2Entry(a, g), s) = a.vis[g][s]
    BY DEF Visible
  <2> QED BY <2>1, <2>2, <2>3 DEF EntryNow
<1> QED BY <1>2, <1>3

\* The end of a request concerns no other one's data.
LEMMA FinishData ==
    ASSUME NEW l1, RequestsOk(req, l1), NEW r \in Requests, NEW st,
           \A y \in Requests : y # r => Transfer(y, req[y], st), Apart(req)
    PROVE  Transfers(Finish(r), st) /\ Apart(Finish(r))
<1> DEFINE S == Finish(r)
<1>1. S[r].pc = "done"
  BY DEF Finish, NewReq
<1>2. ASSUME NEW y \in Requests, y # r, req[y].on = <<r>>
      PROVE  Transfer(y, S[y], st) /\ S[y].pc \notin Allocs
  <2> DEFINE x == req[y]
             z == S[y]
  <2>1. z = [x EXCEPT !.pc = "again", !.on = <<>>]
    BY <1>2 DEF Finish
  <2>2. RequestOk(x, l1) /\ Transfer(y, x, st)
    BY <1>2 DEF RequestsOk
  <2>3. x.pc = "wait"
    <3>1. <<r>> # <<>>
      OBVIOUS
    <3> QED BY <1>2, <2>2, <3>1 DEF RequestOk
  <2> HIDE DEF x, z
  <2>4. z.pc = "again" /\ z.g = x.g /\ z.ss = x.ss
    BY <2>1, <2>2 DEF RequestOk
  <2>5. Transfer(y, z, st) /\ z.pc \notin Allocs
    BY <2>2, <2>3, <2>4 DEF Transfer, Allocs
  <2> QED BY <2>5 DEF z
<1>3. ASSUME NEW y \in Requests, y # r, req[y].on # <<r>>
      PROVE  Transfer(y, S[y], st) /\ S[y] = req[y]
  <2>1. S[y] = req[y]
    BY <1>3 DEF Finish
  <2> QED BY <1>3, <2>1
<1> HIDE DEF S
<1>4. Transfer(r, S[r], st) /\ S[r].pc \notin Allocs
  BY <1>1 DEF Transfer, Allocs
<1>5. \A y \in Requests : Transfer(y, S[y], st) /\ (S[y].pc \in Allocs => S[y] = req[y])
  BY <1>2, <1>3, <1>4
<1>6. Apart(S)
  BY <1>5 DEF Apart
<1> QED BY <1>5, <1>6 DEF Transfers, S

-----------------------------------------------------------------------------
(* The invariant, one action after the other.                              *)

Good(st, R) ==
    /\ Sound(st, HeldBy(R), {}, st) /\ RequestsOk(R, st.l1)
    /\ Transfers(R, st) /\ Apart(R) /\ Visible(st)

\* Nothing is in flight before the first request.
LEMMA InitGood == Init => Good(q, req)
<1> SUFFICES ASSUME Init PROVE Good(q, req)
  OBVIOUS
<1>1. Sound(q, {}, {}, q) /\ Visible(q)
  BY InitSound
<1>2. req = [r \in Requests |-> NewReq]
  BY DEF Init
<1>3. \A r \in Requests : RequestOk(req[r], q.l1) /\ req[r].pc \notin Allocs /\ req[r].pc = "new"
  BY <1>2 DEF RequestOk, NewReq, Pcs, Allocs
<1>4. RequestsOk(req, q.l1) /\ Apart(req)
  BY <1>2, <1>3 DEF RequestsOk, Apart
<1>5. HeldBy(req) = {}
  BY <1>3 DEF HeldBy
<1>6. Transfers(req, q)
  BY <1>3 DEF Transfers, Transfer
<1> QED BY <1>1, <1>4, <1>5, <1>6 DEF Good

\* A request ends, and the image holds what remains.
LEMMA FinishGood ==
    ASSUME Good(q, req), NEW st, NEW H, Sound(st, H, {}, st), HeldBy(req) \subseteq H,
           KeepsTables(q.l1, st.l1), NEW r \in Requests, Visible(st),
           \A y \in Requests : y # r => Transfer(y, req[y], st)
    PROVE  Good(st, Finish(r))
<1>1. RequestsOk(Finish(r), st.l1) /\ HeldBy(Finish(r)) \subseteq HeldBy(req)
  BY FinishOk DEF Good
<1>2. Sound(st, HeldBy(Finish(r)), {}, st)
  BY <1>1, FewerHeld
<1>3. Transfers(Finish(r), st) /\ Apart(Finish(r))
  BY FinishData DEF Good
<1> QED BY <1>1, <1>2, <1>3 DEF Good

\* qcow2_alloc_cluster_offset.
LEMMA AllocClusterOffsetGood ==
    ASSUME Good(q, req), NEW r \in Requests, NEW g \in Guests, NEW ss \in (SUBSET Sectors) \ {{}},
           NEW pick, req[r].pc \notin Allocs, AllocClusterOffset(r, g, ss, pick)
    PROVE  Good(q', req')
<1> DEFINE H == HeldBy(req)
           a == GetClusterTable(q, g, pick)
           b == [a EXCEPT !.acc[g] = [s \in Sectors |-> @[s] \cup (IF s \in ss THEN {r} ELSE {})]]
           x(pc, host, on) == [pc |-> pc, g |-> g, ss |-> ss, host |-> host, on |-> on]
<1>1. Sound(q, H, {}, q) /\ RequestsOk(req, q.l1) /\ Room(q)
  BY DEF Good, AllocClusterOffset
<1>2. Place(b, r, g, ss)
  BY DEF AllocClusterOffset
<1> HIDE DEF H
<1>3. Sound(a, H, {}, q) /\ TableOwned(q, a, g) /\ FreeHosts(a) # {}
  BY <1>1, GetClusterTableSound
<1> HIDE DEF a
<1>4. /\ SameImage(a, b) /\ b.vis = a.vis
      /\ b.acc = [a.acc EXCEPT ![g] = [s \in Sectors |-> @[s] \cup (IF s \in ss THEN {r} ELSE {})]]
  BY <1>3 DEF SameImage, Sound, Valid, Image
<1> HIDE DEF b
<1>5. /\ DOMAIN b.acc = Guests /\ DOMAIN b.vis = Guests
      /\ \A h \in Guests, s \in Sectors : a.acc[h][s] \subseteq b.acc[h][s]
      /\ \A s \in ss : r \in b.acc[g][s]
  <2>1. DOMAIN a.acc = Guests /\ DOMAIN a.vis = Guests
    BY <1>3 DEF Sound, Faithful, DataTyped
  <2>2. /\ \A h \in Guests : h # g => b.acc[h] = a.acc[h]
        /\ \A s \in Sectors : b.acc[g][s] = a.acc[g][s] \cup (IF s \in ss THEN {r} ELSE {})
    BY <1>4, <2>1
  <2>3. \A h \in Guests, s \in Sectors : a.acc[h][s] \subseteq b.acc[h][s]
    BY <2>2
  <2>4. \A s \in ss : r \in b.acc[g][s]
    BY <2>2
  <2> QED BY <1>4, <2>1, <2>3, <2>4
<1>6. /\ Sound(b, H, {}, b) /\ b.l1 = a.l1 /\ FreeHosts(b) # {}
      /\ \A h \in Guests : L2Entry(b, h) = L2Entry(a, h)
  <2>1. \A h \in Guests : StillAccepts(a, b, h)
    BY <1>5 DEF StillAccepts
  <2> QED BY <1>3, <1>4, <1>5, <2>1, SameImageSound
<1>7. KeepsTables(q.l1, b.l1) /\ b.l1[g].copied
  BY <1>3, <1>6 DEF TableOwned, KeepsTables
<1>8. Transfers(req, b) /\ Visible(b)
  <2>1. Carries(q, a)
    BY <1>3, SameGuestCarries DEF TableOwned
  <2>2. Carries(a, b)
    BY <1>4, <1>5, <1>6 DEF Carries, SameImage
  <2>3. Transfers(req, a) /\ Visible(a)
    BY <1>1, <2>1, CarriesData DEF Good
  <2> QED BY <1>1, <1>3, <2>2, <2>3, CarriesData
<1>9. \A pc, host, on :
        /\ {"pc", "g", "ss", "host", "on"} \subseteq DOMAIN x(pc, host, on)
        /\ x(pc, host, on).pc = pc /\ x(pc, host, on).g = g /\ x(pc, host, on).ss = ss
        /\ x(pc, host, on).host = host /\ x(pc, host, on).on = on
  OBVIOUS
<1> HIDE DEF x
<1>10. ASSUME NEW y, y.g = g, NEW st, Transfers(req, st), Transfer(r, y, st),
              y.pc \in Allocs => Conflicts(g) = {}
       PROVE  LET R == [req EXCEPT ![r] = y] IN Transfers(R, st) /\ Apart(R)
  <2> DEFINE R == [req EXCEPT ![r] = y]
  <2>1. R[r] = y /\ \A z \in Requests : z # r => R[z] = req[z]
    BY <1>1 DEF RequestsOk
  <2> HIDE DEF R
  <2>2. Transfers(R, st)
    BY <1>10, <2>1 DEF Transfers
  <2>3. y.pc \in Allocs => \A z \in Requests : req[z].pc \in Allocs => req[z].g # g
    <3>1. g <= g /\ g <= g + 1
      BY Qcow2Assumption
    <3> QED BY <1>10, <3>1 DEF Conflicts, Allocating, Allocs
  <2>4. Apart(R)
    BY <1>10, <2>1, <2>3 DEF Apart, Good
  <2> QED BY <2>2, <2>4 DEF R
<1>11. ASSUME NEW pc \in {"inplace", "wait"}, NEW host, NEW on, pc = "wait" <=> on # <<>>,
              pc = "inplace" => L2Entry(b, g) = Entry(host, TRUE),
              q' = b, req' = [req EXCEPT ![r] = x(pc, host, on)]
       PROVE  Good(q', req')
  <2> DEFINE y == x(pc, host, on)
  <2>1. RequestOk(y, b.l1) /\ y.pc \notin Allocs
    BY <1>9, <1>11 DEF RequestOk, Pcs, Allocs
  <2>1a. y.pc = pc /\ y.g = g /\ y.ss = ss /\ y.host = host
    BY <1>9
  <2>1b. ss # {} /\ ss \subseteq Sectors
    OBVIOUS
  <2> HIDE DEF y
  <2>2. Transfer(r, y, b) /\ y.g = g
    BY <1>5, <1>11, <2>1a, <2>1b DEF Transfer, Allocs
  <2>3. RequestsOk([req EXCEPT ![r] = y], b.l1) /\ HeldBy([req EXCEPT ![r] = y]) \subseteq H
    BY <1>1, <1>7, <2>1, RequestMoves DEF H
  <2>4. Sound(b, HeldBy([req EXCEPT ![r] = y]), {}, b)
    BY <1>6, <2>3, FewerHeld
  <2>5. Transfers([req EXCEPT ![r] = y], b) /\ Apart([req EXCEPT ![r] = y])
    BY <1>8, <1>10, <2>1, <2>2
  <2> QED BY <1>8, <1>11, <2>3, <2>4, <2>5 DEF Good, y
<1>12. ASSUME ~ L2Entry(b, g).copied, Conflicts(g) = {},
              q' = AllocCluster(b), req' = [req EXCEPT ![r] = x("data", NewHost(b), <<>>)]
       PROVE  Good(q', req')
  <2> DEFINE f == AllocCluster(b)
             new == NewHost(b)
             G == H \cup {new}
             y == x("data", new, <<>>)
  <2>1. /\ Sound(f, G, {}, b) /\ new \in Own \ H /\ f.l1 = b.l1
        /\ \A h \in Guests : L2Entry(f, h) = L2Entry(b, h)
    BY <1>6, AllocClusterSound
  <2> HIDE DEF f, new
  <2>2. RequestOk(y, f.l1) /\ y.host = new /\ y.g = g
    BY <1>7, <1>9, <2>1 DEF RequestOk, Pcs, Allocs
  <2>3. Sound(f, G, {}, f) /\ Carries(b, f)
    BY <2>1, Rebase, SameGuestCarries
  <2>4. Transfers(req, f) /\ Visible(f)
    BY <1>1, <1>6, <1>8, <2>3, CarriesData
  <2>5. Transfer(r, y, f)
    <3>1. \A s \in ss : r \in f.acc[g][s]
      BY <1>5, <2>3 DEF Carries
    <3>2. y.pc = "data" /\ y.g = g /\ y.ss = ss
      BY <1>9
    <3>3. ss # {} /\ ss \subseteq Sectors /\ ~ L2Entry(f, g).copied
      BY <1>12, <2>1
    <3> HIDE DEF y
    <3> QED BY <3>1, <3>2, <3>3 DEF Transfer
  <2> HIDE DEF y
  <2>6. RequestsOk([req EXCEPT ![r] = y], f.l1) /\ HeldBy([req EXCEPT ![r] = y]) \subseteq G
    BY <1>1, <1>7, <2>1, <2>2, RequestMoves DEF H
  <2>7. Sound(f, HeldBy([req EXCEPT ![r] = y]), {}, f)
    BY <2>3, <2>6, FewerHeld
  <2>8. Transfers([req EXCEPT ![r] = y], f) /\ Apart([req EXCEPT ![r] = y])
    BY <1>10, <1>12, <2>2, <2>4, <2>5
  <2> QED BY <1>12, <2>4, <2>6, <2>7, <2>8 DEF Good, f, new, y
<1>13. \/ /\ L2Entry(b, g).copied
          /\ q' = b /\ req' = [req EXCEPT ![r] = x("inplace", L2Entry(b, g).c, <<>>)]
       \/ q' = b /\ \E r2 : req' = [req EXCEPT ![r] = x("wait", 0, <<r2>>)]
       \/ /\ ~ L2Entry(b, g).copied /\ Conflicts(g) = {}
          /\ q' = AllocCluster(b) /\ req' = [req EXCEPT ![r] = x("data", NewHost(b), <<>>)]
  BY <1>2 DEF Place, x
<1>14. \A r2 : <<r2>> # <<>>
  OBVIOUS
<1>15. L2Entry(b, g).copied => L2Entry(b, g) = Entry(L2Entry(b, g).c, TRUE)
  <2>1. EntryOk(L2Entry(b, g), g, SnapData(g))
    BY <1>6 DEF Sound, Safe, Exclusive, May
  <2>2. Unallocated.copied = FALSE /\ Entry(SnapData(g), FALSE).copied = FALSE
    BY DEF Unallocated, Entry
  <2> QED BY <2>1, <2>2 DEF EntryOk
<1> QED BY <1>11, <1>12, <1>13, <1>14, <1>15

\* The data reaches the cluster that a request holds, or fails to.
LEMMA WriteHeldGood ==
    ASSUME Good(q, req), NEW r \in Requests, req[r].pc = "data", WriteData(r) \/ WriteFailed(r)
    PROVE  Good(q', req')
<1> DEFINE H == HeldBy(req)
           a == Written(r)
           host == req[r].host
           ss == req[r].ss
           value == [s \in ss |-> r]
<1>1. /\ Sound(q, H, {}, q) /\ RequestsOk(req, q.l1) /\ KeepsTables(q.l1, q.l1)
      /\ Transfers(req, q) /\ Visible(q) /\ Apart(req)
  BY DEF Good, KeepsTables
<1>2. req[r].pc \in Allocs /\ req[r].pc \notin {"new", "done"}
  BY DEF Allocs
<1>3. host \in Own /\ host \in H /\ host \in Hosts
  BY <1>1, <1>2 DEF RequestsOk, RequestOk, HeldBy, Own
<1>4. Transfer(r, req[r], q) /\ ss # {} /\ ss \subseteq Sectors
  BY <1>1, <1>2 DEF Transfers, Transfer
<1>5. a = WriteSectors(q, host, value)
  BY DEF Written
<1>6. DOMAIN value = ss /\ \A s \in ss : value[s] = r /\ r \in Values
  BY DEF Values
<1> HIDE DEF a, H, value, host, ss
<1>7. /\ Sound(a, H, {}, a) /\ a.l1 = q.l1 /\ a.acc = q.acc /\ a.vis = q.vis
      /\ \A h \in Guests : L2Entry(a, h) = L2Entry(q, h)
      /\ \A c \in Hosts, s \in Sectors :
           a.cur[DataAt(c, s)] =
             IF c = host /\ s \in ss THEN value[s] ELSE q.cur[DataAt(c, s)]
  <2>1. \A s \in DOMAIN value : s \in Sectors /\ value[s] \in Values
    BY <1>4, <1>6
  <2>2. MayWrite(q, H, host, value)
    BY <1>3, <2>1 DEF MayWrite
  <2> QED BY <1>1, <1>5, <1>6, <2>2, WriteSectorsSound
<1>8. Visible(a) /\ \A y \in Requests : y # r => Transfer(y, req[y], a)
  <2>1. \A c \in Hosts, s \in Sectors :
          c # req[r].host => a.cur[DataAt(c, s)] = q.cur[DataAt(c, s)]
    BY <1>7 DEF host
  <2> QED BY <1>1, <1>2, <1>7, <2>1, HeldWrite DEF H
<1>9. CASE WriteData(r)
  <2> DEFINE p == IF ss = Sectors THEN "link" ELSE "cow"
             R == [req EXCEPT ![r].pc = p]
  <2>1. q' = a /\ req' = R /\ p \in Allocs
    BY <1>9 DEF WriteData, Allocs, a, ss
  <2>2. RequestsOk(R, q.l1) /\ HeldBy(R) \subseteq H
    BY <1>1, <1>2, <2>1, PhaseOk DEF H
  <2>3. Sound(a, HeldBy(R), {}, a)
    BY <1>7, <2>2, FewerHeld
  <2>4. /\ \A y \in Requests : y # r => R[y] = req[y]
        /\ R[r].pc = p /\ R[r].g = req[r].g /\ R[r].ss = ss /\ R[r].host = host
    BY <1>1 DEF RequestsOk, RequestOk, ss, host
  <2> HIDE DEF R
  <2>5. Transfer(r, R[r], a)
    <3>1. /\ \A s \in ss : r \in a.acc[req[r].g][s]
          /\ ~ L2Entry(a, req[r].g).copied
      <4>1. req[r].g \in Guests
        BY <1>1, <1>2 DEF RequestsOk, RequestOk
      <4> QED BY <1>2, <1>4, <1>7, <4>1 DEF Transfer, ss
    <3>2. \A s \in ss : a.cur[DataAt(host, s)] = r
      BY <1>3, <1>4, <1>6, <1>7
    <3>3. p = "link" => Sectors \ ss = {}
      OBVIOUS
    <3>4. p \in {"link", "cow"}
      OBVIOUS
    <3> HIDE DEF p
    <3> QED BY <1>4, <2>4, <3>1, <3>2, <3>3, <3>4 DEF Transfer, Allocs
  <2>6. Transfers(R, a)
    BY <1>8, <2>4, <2>5 DEF Transfers
  <2>7. Apart(R)
    BY <1>1, <1>2, <2>4 DEF Apart
  <2> QED BY <1>7, <1>8, <2>1, <2>2, <2>3, <2>6, <2>7 DEF Good
<1>10. CASE WriteFailed(r)
  <2>1. (q' = a \/ q' = q) /\ req' = Finish(r)
    BY <1>10 DEF WriteFailed, a
  <2>2. Good(a, Finish(r))
    BY <1>1, <1>7, <1>8, FinishGood DEF H
  <2>3. Good(q, Finish(r))
    BY <1>1, FinishGood DEF H, Transfers
  <2> QED BY <2>1, <2>2, <2>3
<1> QED BY <1>9, <1>10

\* The data reaches the guest's own cluster, or fails to.
LEMMA WriteInPlaceGood ==
    ASSUME Good(q, req), NEW r \in Requests, req[r].pc = "inplace",
           WriteInPlace(r) \/ WriteFailed(r)
    PROVE  Good(q', req')
<1> DEFINE H == HeldBy(req)
           a == Written(r)
           b == Seen(a, r)
           g == req[r].g
           host == req[r].host
           ss == req[r].ss
           value == [s \in ss |-> r]
<1>1. /\ Sound(q, H, {}, q) /\ RequestsOk(req, q.l1) /\ KeepsTables(q.l1, q.l1)
      /\ Transfers(req, q) /\ Visible(q)
  BY DEF Good, KeepsTables
<1>2. g \in Guests
  BY <1>1 DEF RequestsOk, RequestOk
<1>3. /\ ss \subseteq Sectors /\ L2Entry(q, g) = Entry(host, TRUE)
      /\ \A s \in ss : r \in q.acc[g][s]
  BY <1>1 DEF Transfers, Transfer
<1>4. L2Entry(q, g).c = host /\ L2Entry(q, g).copied /\ L2Entry(q, g) \in May(q, g)
  BY <1>3 DEF Entry, May
<1>5. host \in Own
  <2>1. EntryOk(L2Entry(q, g), g, SnapData(g))
    BY <1>1, <1>2, <1>4 DEF Sound, Safe, Exclusive
  <2>2. Unallocated.copied = FALSE /\ Entry(SnapData(g), FALSE).copied = FALSE
    BY DEF Unallocated, Entry
  <2> QED BY <1>4, <2>1, <2>2 DEF EntryOk
<1>6. host \in Hosts /\ host # 0 /\ host \notin H
  BY <1>1, <1>2, <1>4, <1>5, HostNumbers DEF Own, Sound, Safe, Held, NowUses
<1>7. a = WriteSectors(q, host, value)
  BY DEF Written
<1>8. DOMAIN value = ss /\ \A s \in ss : value[s] = r /\ r \in Values
  BY DEF Values
<1> HIDE DEF a, H, value, g, host, ss
<1>9. /\ Sound(a, H, {}, a) /\ a.l1 = q.l1 /\ a.acc = q.acc /\ a.vis = q.vis
      /\ \A h \in Guests : L2Entry(a, h) = L2Entry(q, h)
      /\ \A c \in Hosts, s \in Sectors :
           a.cur[DataAt(c, s)] =
             IF c = host /\ s \in ss THEN value[s] ELSE q.cur[DataAt(c, s)]
  <2>1. \A s \in DOMAIN value : s \in Sectors /\ value[s] \in Values
    BY <1>3, <1>8
  <2>2. \E h \in Guests : /\ L2Entry(q, h) = Entry(host, TRUE)
                          /\ \A s \in DOMAIN value : value[s] \in q.acc[h][s]
    BY <1>2, <1>3, <1>8
  <2>3. MayWrite(q, H, host, value)
    BY <1>5, <2>1, <2>2 DEF MayWrite
  <2> QED BY <1>1, <1>7, <1>8, <2>3, WriteSectorsSound
<1>10. /\ Sound(b, H, {}, b) /\ b.l1 = a.l1 /\ b.acc = a.acc /\ b.cur = a.cur
       /\ \A h \in Guests : L2Entry(b, h) = L2Entry(a, h)
       /\ \A h \in Guests : h # g => b.vis[h] = a.vis[h]
       /\ \A s \in Sectors : b.vis[g][s] = IF s \in ss THEN r ELSE a.vis[g][s]
  BY <1>2, <1>9, SeenSound DEF g, ss
<1> HIDE DEF b
<1>11. Visible(b)
  <2> SUFFICES ASSUME NEW h \in Guests, NEW s \in Sectors
               PROVE  EntryNow(b, L2Entry(q, h), s) = b.vis[h][s]
    BY <1>9, <1>10 DEF Visible
  <2>1. EntryNow(q, L2Entry(q, h), s) = q.vis[h][s]
    BY <1>1 DEF Visible
  <2>2. CASE h = g
    <3>1. EntryNow(b, L2Entry(q, h), s) = IF s \in ss THEN r ELSE EntryNow(q, L2Entry(q, h), s)
      BY <1>4, <1>6, <1>8, <1>9, <1>10, <2>2 DEF EntryNow
    <3> QED BY <1>9, <1>10, <2>1, <2>2, <3>1
  <2>3. CASE h # g
    <3>1. L2Entry(q, h) \in May(q, h)
      BY DEF May
    <3>2. L2Entry(q, h).c # host
      BY <1>1, <1>2, <1>4, <1>6, <2>3, <3>1 DEF Sound, Safe, Exclusive
    <3>3. L2Entry(q, h).c = 0 \/ L2Entry(q, h).c \in Hosts
      BY <1>1, <3>1, TablesAreHosts DEF Sound, Safe
    <3> QED BY <1>9, <1>10, <2>1, <2>3, <3>2, <3>3 DEF EntryNow
  <2> QED BY <2>2, <2>3
<1>12. ASSUME NEW y \in Requests, y # r PROVE Transfer(y, req[y], b)
  <2> DEFINE x == req[y]
  <2>1. /\ RequestOk(x, q.l1) /\ Transfer(y, x, q)
        /\ x.pc \in Allocs => x.host \in H
    BY <1>1 DEF RequestsOk, Transfers, HeldBy, H
  <2> HIDE DEF x
  <2>2. /\ x.pc \notin {"new", "done"} => x.g \in Guests
        /\ x.pc \in Allocs => x.host \in Hosts /\ x.host # host
    BY <1>6, <2>1 DEF RequestOk, Own
  <2>3. x.pc \notin {"new", "done"} => \A s \in x.ss : y \in b.acc[x.g][s]
    BY <1>9, <1>10, <2>1 DEF Transfer
  <2>4. x.pc = "inplace" \/ x.pc \in Allocs => L2Entry(b, x.g) = L2Entry(q, x.g)
    BY <1>9, <1>10, <2>2 DEF Allocs
  <2>5. x.pc \in {"cow", "link"} =>
          \A s \in Sectors : b.cur[DataAt(x.host, s)] = q.cur[DataAt(x.host, s)]
    BY <1>9, <1>10, <2>2 DEF Allocs
  <2>6. x.pc = "link" => x.g # g /\ x.g \in Guests
    BY <1>4, <2>1, <2>2 DEF Transfer, Allocs
  <2>7. x.pc = "link" => \A s \in Sectors : b.vis[x.g][s] = q.vis[x.g][s]
    BY <1>9, <1>10, <2>6
  <2> QED BY <2>1, <2>3, <2>4, <2>5, <2>7, TransferKept DEF x
<1>13. (q' = b \/ q' = q) /\ req' = Finish(r)
  BY DEF WriteInPlace, WriteFailed, a, b
<1>14. Good(b, Finish(r))
  BY <1>1, <1>9, <1>10, <1>11, <1>12, FinishGood DEF H
<1>15. Good(q, Finish(r))
  BY <1>1, FinishGood DEF H, Transfers
<1> QED BY <1>13, <1>14, <1>15

\* The data is written, and the write ends the request or not.
LEMMA WriteGood ==
    ASSUME Good(q, req), NEW r \in Requests, WriteInPlace(r) \/ WriteData(r) \/ WriteFailed(r)
    PROVE  Good(q', req')
  BY WriteHeldGood, WriteInPlaceGood DEF WriteInPlace, WriteData, WriteFailed

\* copy_sectors, which may fail.
LEMMA CowGood ==
    ASSUME Good(q, req), NEW r \in Requests, NEW pick, Cow(r, pick)
    PROVE  Good(q', req')
<1> DEFINE H == HeldBy(req)
           g == req[r].g
           host == req[r].host
           ss == req[r].ss
           a == LoadTable(q, g, pick)
           value == [s \in Sectors \ ss |-> Content(a, g, s)]
           b == WriteSectors(a, host, value)
           R == [req EXCEPT ![r].pc = "link"]
<1>1. /\ Sound(q, H, {}, q) /\ RequestsOk(req, q.l1) /\ KeepsTables(q.l1, q.l1)
      /\ Transfers(req, q) /\ Visible(q) /\ Apart(req)
  BY DEF Good, KeepsTables
<1>2. req[r].pc = "cow" /\ req[r].pc \in Allocs /\ "link" \in Allocs
  BY DEF Cow, Allocs
<1>3. g \in Guests /\ host \in Own /\ host \in H /\ host \in Hosts
  BY <1>1, <1>2 DEF RequestsOk, RequestOk, HeldBy, Own
<1>4. \/ q' = b /\ req' = R
      \/ q' = a /\ req' = Finish(r)
  BY DEF Cow
<1>5. /\ \A y \in Requests : y # r => R[y] = req[y]
      /\ R[r].pc = "link" /\ R[r].g = g /\ R[r].ss = ss /\ R[r].host = host
  BY <1>1 DEF RequestsOk, RequestOk
<1> HIDE DEF H, g, host, ss, R
<1>6. Sound(a, H, {}, q) /\ SameMemory(q, a)
  BY <1>1, <1>3, LoadTableSound
<1> HIDE DEF a
<1>7. Sound(a, H, {}, a) /\ a.l1 = q.l1 /\ Carries(q, a)
  BY <1>6, Rebase, SameGuestCarries DEF SameMemory
<1>8. Transfers(req, a) /\ Visible(a)
  BY <1>1, <1>7, CarriesData
<1>9. \A s \in Sectors : Content(a, g, s) = a.vis[g][s] /\ Content(a, g, s) \in Values
  <2> SUFFICES ASSUME NEW s \in Sectors
               PROVE  Content(a, g, s) = a.vis[g][s] /\ Content(a, g, s) \in Values
    OBVIOUS
  <2>1. Content(a, g, s) = EntryNow(a, L2Entry(a, g), s)
    BY DEF Content, EntryNow
  <2>2. L2Entry(a, g).c = 0 \/ L2Entry(a, g).c \in Hosts
    BY <1>3, <1>7, TablesAreHosts DEF Sound, Safe, May
  <2>3. \A c \in Hosts : a.cur[DataAt(c, s)] \in Values
    BY <1>7, DataPlaces DEF Sound, Valid, FileOk, Faithful, DataTyped
  <2>4. EntryNow(a, L2Entry(a, g), s) \in Values
    BY <2>2, <2>3 DEF EntryNow, Values
  <2> QED BY <1>3, <1>8, <2>1, <2>4 DEF Visible
<1>10. /\ DOMAIN value = Sectors \ ss
       /\ \A s \in Sectors \ ss : value[s] = a.vis[g][s] /\ value[s] \in Values
  BY <1>9
<1> HIDE DEF value
<1>11. /\ Sound(b, H, {}, b) /\ b.l1 = a.l1 /\ b.acc = a.acc /\ b.vis = a.vis
       /\ \A h \in Guests : L2Entry(b, h) = L2Entry(a, h)
       /\ \A c \in Hosts, s \in Sectors :
            b.cur[DataAt(c, s)] =
              IF c = host /\ s \in DOMAIN value THEN value[s] ELSE a.cur[DataAt(c, s)]
  <2>1. \A s \in DOMAIN value : s \in Sectors /\ value[s] \in Values
    BY <1>10
  <2>2. MayWrite(a, H, host, value)
    BY <1>3, <2>1 DEF MayWrite
  <2> QED BY <1>7, <2>2, WriteSectorsSound
<1> HIDE DEF b
<1>12. Visible(b) /\ \A y \in Requests : y # r => Transfer(y, req[y], b)
  <2>1. \A c \in Hosts, s \in Sectors :
          c # req[r].host => b.cur[DataAt(c, s)] = a.cur[DataAt(c, s)]
    BY <1>11 DEF host
  <2> QED BY <1>1, <1>2, <1>7, <1>8, <1>11, <2>1, HeldWrite DEF H
<1>13. CASE q' = b /\ req' = R
  <2>1. RequestsOk(R, q.l1) /\ HeldBy(R) \subseteq H
    BY <1>1, <1>2, PhaseOk DEF H, R
  <2>2. Sound(b, HeldBy(R), {}, b)
    BY <1>11, <2>1, FewerHeld
  <2>3. Transfer(r, R[r], b)
    <3>1. Transfer(r, req[r], a) /\ req[r].pc \notin {"new", "done"}
      BY <1>2, <1>8 DEF Transfers
    <3>2. /\ ss # {} /\ ss \subseteq Sectors /\ ~ L2Entry(a, g).copied
          /\ \A s \in ss : r \in a.acc[g][s] /\ a.cur[DataAt(host, s)] = r
      BY <1>2, <3>1 DEF Transfer, ss, g, host
    <3>3. \A s \in ss : r \in b.acc[g][s] /\ b.cur[DataAt(host, s)] = r
      BY <1>3, <1>10, <1>11, <3>2
    <3>4. \A s \in Sectors \ ss : b.cur[DataAt(host, s)] = b.vis[g][s]
      BY <1>3, <1>10, <1>11
    <3>5. ~ L2Entry(b, g).copied
      BY <1>3, <1>11, <3>2
    <3> QED BY <1>5, <3>2, <3>3, <3>4, <3>5 DEF Transfer
  <2>4. Transfers(R, b)
    BY <1>5, <1>12, <2>3 DEF Transfers
  <2>5. Apart(R)
    BY <1>1, <1>2, <1>5 DEF Apart, g
  <2> QED BY <1>7, <1>11, <1>12, <1>13, <2>1, <2>2, <2>4, <2>5 DEF Good
<1>14. CASE q' = a /\ req' = Finish(r)
  <2>1. Good(a, Finish(r))
    BY <1>1, <1>7, <1>8, FinishGood DEF H, Transfers
  <2> QED BY <1>14, <2>1
<1> QED BY <1>4, <1>13, <1>14

\* The end of qcow2_alloc_cluster_link_l2.
LEMMA LinkGood ==
    ASSUME Good(q, req), NEW r \in Requests, NEW pick, Link(r, pick)
    PROVE  Good(q', req')
<1> DEFINE H == HeldBy(req)
           g == req[r].g
           host == req[r].host
           ss == req[r].ss
           a == LinkEntry(GetClusterTable(OrderLink(q, r), g, pick), g, host)
           b == Seen(a, r)
           G == H \ {host}
<1>1. /\ Sound(q, H, {}, q) /\ RequestsOk(req, q.l1) /\ KeepsTables(q.l1, q.l1)
      /\ Transfers(req, q) /\ Visible(q) /\ Apart(req)
  BY DEF Good, KeepsTables
<1>2. req[r].pc = "link" /\ req[r].pc \in Allocs /\ req[r].pc \notin {"new", "done"}
  BY DEF Link, Allocs
<1>3. g \in Guests /\ host \in Own /\ q.l1[g].copied
  BY <1>1, <1>2 DEF RequestsOk, RequestOk
<1>4. host \in H /\ host \in Hosts /\ host # 0
  BY <1>2, <1>3, HostNumbers DEF HeldBy, Own
<1>5. q' = b /\ req' = Finish(r)
  BY DEF Link
<1>6. RequestsOk(Finish(r), q.l1) /\ HeldBy(Finish(r)) \subseteq G
  BY <1>1, <1>2, FinishOk
<1>7. /\ ss \subseteq Sectors /\ ~ L2Entry(q, g).copied
      /\ \A s \in ss : r \in q.acc[g][s] /\ q.cur[DataAt(host, s)] = r
      /\ \A s \in Sectors \ ss : q.cur[DataAt(host, s)] = q.vis[g][s]
  <2>1. Transfer(r, req[r], q)
    BY <1>1 DEF Transfers
  <2> QED BY <1>2, <2>1 DEF Transfer
<1>8. \A y \in Requests : y # r /\ req[y].pc \in Allocs => req[y].g # g
  BY <1>1, <1>2 DEF Apart
<1> HIDE DEF H, g, host, ss, G
<1>9. \A s \in Sectors : q.cur[DataAt(host, s)] \in q.acc[g][s]
  <2>1. \A s \in Sectors : q.vis[g][s] \in q.acc[g][s]
    BY <1>1, <1>3 DEF Visible, Sound, Faithful, DataNow
  <2> QED BY <1>7, <2>1
<1>10. /\ Sound(a, G, {}, q) /\ a.l1 = q.l1 /\ L2Entry(a, g) = Entry(host, TRUE)
       /\ \A h \in Guests : h # g => L2Entry(a, h) = L2Entry(q, h)
  <2>1. Linked(q, a, H, G, g, host)
    BY <1>3, <1>4, <1>7, <1>9 DEF Linked, G
  <2> HIDE DEF a
  <2>2. Sound(a, G, {}, q) /\ EntrySet(q, a, g, Entry(host, TRUE))
    BY <1>1, <1>3, <2>1, LinkSound
  <2> QED BY <2>2 DEF EntrySet
<1>11. SameGuest(a, q)
  BY <1>10, Rebase
<1> HIDE DEF a
<1>12. /\ Sound(b, G, {}, b) /\ b.l1 = a.l1 /\ b.acc = a.acc /\ b.cur = a.cur
       /\ \A h \in Guests : L2Entry(b, h) = L2Entry(a, h)
       /\ \A h \in Guests : h # g => b.vis[h] = a.vis[h]
       /\ \A s \in Sectors : b.vis[g][s] = IF s \in ss THEN r ELSE a.vis[g][s]
  BY <1>3, <1>10, SeenSound DEF g, ss
<1> HIDE DEF b
<1>13. Sound(b, HeldBy(Finish(r)), {}, b)
  BY <1>6, <1>12, FewerHeld
<1>14. /\ b.acc = q.acc /\ \A h \in Guests : h # g => b.vis[h] = q.vis[h]
       /\ \A s \in Sectors : b.vis[g][s] = IF s \in ss THEN r ELSE q.vis[g][s]
       /\ \A c \in Hosts, s \in Sectors : b.cur[DataAt(c, s)] = q.cur[DataAt(c, s)]
       /\ L2Entry(b, g) = Entry(host, TRUE)
       /\ \A h \in Guests : h # g => L2Entry(b, h) = L2Entry(q, h)
  BY <1>3, <1>10, <1>11, <1>12 DEF SameGuest
<1>15. Visible(b)
  <2> SUFFICES ASSUME NEW h \in Guests, NEW s \in Sectors
               PROVE  EntryNow(b, L2Entry(b, h), s) = b.vis[h][s]
    BY DEF Visible
  <2>1. CASE h = g
    <3>1. EntryNow(b, L2Entry(b, h), s) = q.cur[DataAt(host, s)]
      BY <1>4, <1>14, <2>1 DEF EntryNow, Entry
    <3> QED BY <1>7, <1>14, <2>1, <3>1
  <2>2. CASE h # g
    <3>1. L2Entry(q, h).c = 0 \/ L2Entry(q, h).c \in Hosts
      BY <1>1, TablesAreHosts DEF Sound, Safe, May
    <3>2. EntryNow(q, L2Entry(q, h), s) = q.vis[h][s]
      BY <1>1 DEF Visible
    <3> QED BY <1>14, <2>2, <3>1, <3>2 DEF EntryNow
  <2> QED BY <2>1, <2>2
<1>16. ASSUME NEW y \in Requests, y # r PROVE Transfer(y, req[y], b)
  <2> DEFINE x == req[y]
  <2>1. /\ RequestOk(x, q.l1) /\ Transfer(y, x, q)
        /\ x.pc \in Allocs => x.g # g
    BY <1>1, <1>8, <1>16 DEF RequestsOk, Transfers
  <2> HIDE DEF x
  <2>2. /\ x.pc \notin {"new", "done"} => x.g \in Guests
        /\ x.pc \in Allocs => x.host \in Hosts
    BY <2>1 DEF RequestOk, Own
  <2>3. x.pc = "inplace" => x.g # g
    <3>1. Entry(x.host, TRUE).copied
      BY DEF Entry
    <3> QED BY <1>7, <2>1, <3>1 DEF Transfer
  <2>4. x.pc \notin {"new", "done"} => \A s \in x.ss : y \in b.acc[x.g][s]
    BY <1>14, <2>1 DEF Transfer
  <2>5. x.pc = "inplace" \/ x.pc \in Allocs => L2Entry(b, x.g) = L2Entry(q, x.g)
    BY <1>14, <2>1, <2>2, <2>3 DEF Allocs
  <2>6. x.pc \in {"cow", "link"} =>
          \A s \in Sectors : b.cur[DataAt(x.host, s)] = q.cur[DataAt(x.host, s)]
    BY <1>14, <2>2 DEF Allocs
  <2>7. x.pc = "link" => \A s \in Sectors : b.vis[x.g][s] = q.vis[x.g][s]
    BY <1>14, <2>1, <2>2 DEF Allocs
  <2> QED BY <2>1, <2>4, <2>5, <2>6, <2>7, TransferKept DEF x
<1>17. Transfers(Finish(r), b) /\ Apart(Finish(r))
  BY <1>1, <1>16, FinishData
<1> QED BY <1>5, <1>6, <1>10, <1>12, <1>13, <1>15, <1>17 DEF Good

\* qcow2_co_readv.
LEMMA ReadGood ==
    ASSUME Good(q, req), NEW g \in Guests, NEW pick, Read(g, pick)
    PROVE  Good(q', req')
<1> DEFINE H == HeldBy(req)
           a == LoadTable(q, g, pick)
<1>1. /\ Sound(q, H, {}, q) /\ RequestsOk(req, q.l1) /\ Transfers(req, q) /\ Visible(q)
      /\ Apart(req) /\ req' = req /\ q' = a
  BY DEF Good, Read
<1> HIDE DEF H
<1>2. Sound(a, H, {}, q) /\ SameMemory(q, a)
  BY <1>1, LoadTableSound
<1> HIDE DEF a
<1>3. Sound(a, H, {}, a) /\ a.l1 = q.l1 /\ Carries(q, a)
  BY <1>2, Rebase, SameGuestCarries DEF SameMemory
<1>4. Transfers(req, a) /\ Visible(a)
  BY <1>1, <1>3, CarriesData
<1> QED BY <1>1, <1>3, <1>4 DEF Good, H

\* qcow2_co_discard.
LEMMA DiscardGood ==
    ASSUME Good(q, req), NEW g \in Guests, NEW pick, Discard(g, pick)
    PROVE  Good(q', req')
<1> DEFINE H == HeldBy(req)
           a == GetClusterTable(q, g, pick)
           f == Unmap(a, g)
<1>1. /\ Sound(q, H, {}, q) /\ RequestsOk(req, q.l1) /\ Transfers(req, q) /\ Visible(q)
      /\ Apart(req) /\ req' = req /\ q' = f /\ Room(q)
      /\ \A s \in Sectors : Writing(g, s) = {}
  BY DEF Good, Discard
<1> HIDE DEF H
<1>2. Sound(a, H, {}, q) /\ TableOwned(q, a, g)
  BY <1>1, GetClusterTableSound
<1> HIDE DEF a
<1>3. Carries(q, a)
  BY <1>2, SameGuestCarries DEF TableOwned
<1>4. Transfers(req, a) /\ Visible(a)
  BY <1>1, <1>3, CarriesData
<1>5. /\ Sound(f, H, {}, f) /\ f.l1 = a.l1
      /\ \/ f = a
         \/ L2Entry(f, g) = Unallocated /\ \A s \in Sectors : f.vis[g][s] = "zero"
      /\ \A c \in Hosts, s \in Sectors : f.cur[DataAt(c, s)] = a.cur[DataAt(c, s)]
      /\ \A h \in Guests : h # g =>
           L2Entry(f, h) = L2Entry(a, h) /\ f.acc[h] = a.acc[h] /\ f.vis[h] = a.vis[h]
  BY <1>2, UnmapSound DEF TableOwned
<1> HIDE DEF f
<1>6. RequestsOk(req, f.l1)
  BY <1>1, <1>2, <1>5, RequestsKept DEF TableOwned, KeepsTables
<1>7. Visible(f)
  <2> SUFFICES ASSUME NEW h \in Guests, NEW s \in Sectors
               PROVE  EntryNow(f, L2Entry(f, h), s) = f.vis[h][s]
    BY DEF Visible
  <2>1. EntryNow(a, L2Entry(a, h), s) = a.vis[h][s]
    BY <1>4 DEF Visible
  <2>2. CASE f = a
    BY <2>1, <2>2
  <2>3. CASE f # a /\ h = g
    BY <1>5, <2>3 DEF EntryNow, Unallocated, Entry
  <2>4. CASE h # g
    <3>1. L2Entry(a, h).c = 0 \/ L2Entry(a, h).c \in Hosts
      BY <1>2, TablesAreHosts DEF Sound, Safe, May
    <3> QED BY <1>5, <2>1, <2>4, <3>1 DEF EntryNow
  <2> QED BY <2>2, <2>3, <2>4
<1>8. ASSUME NEW y \in Requests PROVE Transfer(y, req[y], f)
  <2> DEFINE x == req[y]
  <2>1. RequestOk(x, q.l1) /\ Transfer(y, x, a)
    BY <1>1, <1>4 DEF RequestsOk, Transfers
  <2>2. x.pc \notin {"new", "done"} => x.g # g
    <3> SUFFICES ASSUME x.pc \notin {"new", "done"}, x.g = g PROVE FALSE
      OBVIOUS
    <3>1. PICK s \in Sectors : s \in x.ss
      BY <2>1 DEF Transfer
    <3>2. y \in Writing(g, s)
      BY <3>1 DEF Writing, InFlight
    <3> QED BY <1>1, <3>2
  <2> HIDE DEF x
  <2>3. /\ x.pc \notin {"new", "done"} => x.g \in Guests
        /\ x.pc \in Allocs => x.host \in Hosts
    BY <2>1 DEF RequestOk, Own
  <2>4. x.pc \notin {"new", "done"} => \A s \in x.ss : y \in f.acc[x.g][s]
    BY <1>5, <2>1, <2>2, <2>3 DEF Transfer
  <2>5. x.pc = "inplace" \/ x.pc \in Allocs => L2Entry(f, x.g) = L2Entry(a, x.g)
    BY <1>5, <2>2, <2>3 DEF Allocs
  <2>6. x.pc \in {"cow", "link"} =>
          \A s \in Sectors : f.cur[DataAt(x.host, s)] = a.cur[DataAt(x.host, s)]
    BY <1>5, <2>3 DEF Allocs
  <2>7. x.pc = "link" => \A s \in Sectors : f.vis[x.g][s] = a.vis[x.g][s]
    BY <1>5, <2>2, <2>3
  <2> QED BY <2>1, <2>4, <2>5, <2>6, <2>7, TransferKept DEF x
<1> QED BY <1>1, <1>5, <1>6, <1>7, <1>8 DEF Good, H, Transfers

\* bdrv_flush of the image: memory and disk agree after it.
LEMMA GuestFlushGood ==
    ASSUME Good(q, req), GuestFlush
    PROVE  Good(q', req')
<1> DEFINE H == HeldBy(req)
           a == CacheFlush(q, "l2")
           b == CacheFlush(a, "rb")
           c == FileFlush(b)
           acc == [g \in Guests |-> [s \in Sectors |-> {c.vis[g][s]} \cup Writing(g, s)]]
           d == [c EXCEPT !.acc = acc]
<1>1. /\ Sound(q, H, {}, q) /\ RequestsOk(req, q.l1) /\ Transfers(req, q) /\ Visible(q)
      /\ Apart(req)
  BY DEF Good
<1>2. q' = d /\ req' = req
  BY DEF GuestFlush
<1> HIDE DEF H
<1>3. Sound(a, H, {}, q) /\ Steady(q, a) /\ Dirty(a, "l2") = {}
  BY <1>1, CacheFlushSound DEF Caches, Settled
<1> HIDE DEF a
<1>4. Sound(b, H, {}, q) /\ Steady(a, b)
  BY <1>3, CacheFlushSound DEF Caches
<1> HIDE DEF b
<1>5. Sound(c, H, {}, q) /\ Steady(b, c) /\ Clean(c)
  BY <1>4, FileFlushSettles
<1> HIDE DEF c
<1>6. Steady(q, c) /\ Dirty(c, "l2") = {}
  <2>1. Steady(a, c)
    BY <1>4, <1>5, SteadyTransitive
  <2> QED BY <1>3, <2>1, SteadyTransitive DEF Steady, Caches
<1>7. Carries(q, c) /\ c.l1 = q.l1
  BY <1>5, <1>6, SameGuestCarries DEF Steady, SameMemory
<1>8. Transfers(req, c) /\ Visible(c)
  BY <1>1, <1>7, CarriesData
<1>9. \A g \in Guests : OnDisk(c, g) = {L2Entry(c, g)}
  <2> SUFFICES ASSUME NEW g \in Guests PROVE OnDisk(c, g) = {L2Entry(c, g)}
    OBVIOUS
  <2> DEFINE t == c.l1[g].c
  <2>1. CASE t = 0
    BY <2>1 DEF OnDisk, L2Entry
  <2>2. CASE t # 0
    <3>1. t \in Hosts
      BY <1>5, <2>2, TablesAreHosts DEF Sound, Safe
    <3>2. c.poss[L2At(t)] = {c.cur[L2At(t)]}
      BY <1>5, <3>1, TablePlaces DEF Clean
    <3>3. t \in Cached(c, "l2") => Tables(c, "l2")[t].val = c.cur[L2At(t)]
      BY <1>5, <1>6 DEF Sound, Valid, L2CacheOk, Dirty
    <3> QED BY <2>2, <3>2, <3>3 DEF OnDisk, L2Entry
  <2> QED BY <2>1, <2>2
<1>10. \A g \in Guests, s \in Sectors : EntryData(c, L2Entry(c, g), s) = {c.vis[g][s]}
  <2> SUFFICES ASSUME NEW g \in Guests, NEW s \in Sectors
               PROVE  EntryData(c, L2Entry(c, g), s) = {c.vis[g][s]}
    OBVIOUS
  <2>1. L2Entry(c, g).c = 0 \/ L2Entry(c, g).c \in Hosts
    BY <1>5, TablesAreHosts DEF Sound, Safe, May
  <2>2. \A h \in Hosts : c.poss[DataAt(h, s)] = {c.cur[DataAt(h, s)]}
    BY <1>5, DataPlaces DEF Clean
  <2>3. EntryNow(c, L2Entry(c, g), s) = c.vis[g][s]
    BY <1>8 DEF Visible
  <2> QED BY <2>1, <2>2, <2>3 DEF EntryData, EntryNow
<1>11. SameImage(c, d) /\ d.vis = c.vis /\ d.acc = acc
  BY <1>5 DEF SameImage, Sound, Valid, Image
<1> HIDE DEF d
<1>12. /\ DOMAIN d.acc = Guests /\ DOMAIN d.vis = Guests
       /\ \A g \in Guests, s \in Sectors : d.acc[g][s] = {c.vis[g][s]} \cup Writing(g, s)
  BY <1>5, <1>11 DEF Sound, Faithful, DataTyped
<1> HIDE DEF acc
<1>13. \A g \in Guests : StillAccepts(c, d, g)
  BY <1>9, <1>10, <1>12 DEF StillAccepts
<1>14. /\ Sound(d, H, {}, d) /\ d.l1 = c.l1
       /\ \A g \in Guests : L2Entry(d, g) = L2Entry(c, g)
  BY <1>5, <1>11, <1>12, <1>13, SameImageSound
<1>15. Visible(d)
  BY <1>8, <1>11, <1>14 DEF Visible, EntryNow, SameImage
<1>16. ASSUME NEW r \in Requests PROVE Transfer(r, req[r], d)
  <2> DEFINE x == req[r]
  <2>1. RequestOk(x, q.l1) /\ Transfer(r, x, c)
    BY <1>1, <1>8 DEF RequestsOk, Transfers
  <2>2. x.pc \notin {"new", "done"} => \A s \in x.ss : r \in Writing(x.g, s)
    BY DEF Writing, InFlight
  <2> HIDE DEF x
  <2>3. x.pc \notin {"new", "done"} => x.g \in Guests
    BY <2>1 DEF RequestOk
  <2>4. x.pc \notin {"new", "done"} => \A s \in x.ss : r \in d.acc[x.g][s]
    <3> SUFFICES ASSUME x.pc \notin {"new", "done"}, NEW s \in x.ss PROVE r \in d.acc[x.g][s]
      OBVIOUS
    <3>1. s \in Sectors /\ x.g \in Guests
      BY <2>1, <2>3 DEF Transfer
    <3>2. d.acc[x.g][s] = {c.vis[x.g][s]} \cup Writing(x.g, s)
      BY <1>12, <3>1
    <3> QED BY <2>2, <3>2
  <2>5. x.pc = "inplace" \/ x.pc \in Allocs => L2Entry(d, x.g) = L2Entry(c, x.g)
    BY <1>14, <2>3 DEF Allocs
  <2>6. d.cur = c.cur /\ d.vis = c.vis
    BY <1>11 DEF SameImage
  <2> QED BY <2>1, <2>4, <2>5, <2>6, TransferKept DEF x
<1> QED BY <1>1, <1>2, <1>7, <1>14, <1>15, <1>16 DEF Good, H, Transfers

\* A crash ends all requests.
LEMMA CrashGood ==
    ASSUME Good(q, req), Crash
    PROVE  Good(q', req')
<1>1. PICK f \in Survivors(q) : q' = Reopened(q, f)
  BY DEF Crash
<1>2. Sound(q', {}, {}, q') /\ Visible(q')
  BY <1>1, ReopenedSound DEF Good
<1>3. req' = [r \in Requests |-> IF InFlight(r) THEN [NewReq EXCEPT !.pc = "done"] ELSE req[r]]
  BY DEF Crash
<1>4. ASSUME NEW r \in Requests
      PROVE  /\ RequestOk(req'[r], q'.l1) /\ req'[r].pc \in {"new", "done"}
             /\ req'[r].pc \notin Allocs
  <2>1. CASE InFlight(r)
    <3>1. req'[r] = [NewReq EXCEPT !.pc = "done"]
      BY <1>3, <2>1
    <3> QED BY <3>1 DEF NewReq, RequestOk, Pcs, Allocs
  <2>2. CASE ~ InFlight(r)
    <3>1. req'[r] = req[r] /\ req[r].pc \in {"new", "done"}
      BY <1>3, <2>2 DEF InFlight
    <3> QED BY <3>1 DEF Good, RequestsOk, RequestOk, Allocs
  <2> QED BY <2>1, <2>2
<1>5. DOMAIN req' = Requests
  BY <1>3
<1>6. RequestsOk(req', q'.l1) /\ HeldBy(req') = {}
  BY <1>4, <1>5 DEF RequestsOk, HeldBy
<1>7. Transfers(req', q') /\ Apart(req')
  BY <1>4 DEF Transfers, Transfer, Apart
<1> QED BY <1>2, <1>6, <1>7 DEF Good

\* Every step keeps the image sound and the guest's data safe.
LEMMA StepGood == Good(q, req) /\ [Next]_vars => Good(q, req)'
<1> SUFFICES ASSUME Good(q, req), [Next]_vars PROVE Good(q', req')
  OBVIOUS
<1>1. ASSUME NEW r \in Requests, NEW g \in Guests, NEW ss \in (SUBSET Sectors) \ {{}}, NEW pick,
             WriteStart(r, g, ss, pick)
      PROVE  Good(q', req')
  BY <1>1, AllocClusterOffsetGood DEF WriteStart, Allocs
<1>2. ASSUME NEW r \in Requests, NEW pick, WriteAgain(r, pick)
      PROVE  Good(q', req')
  <2>1. req[r].pc = "again" /\ AllocClusterOffset(r, req[r].g, req[r].ss, pick)
    BY <1>2 DEF WriteAgain
  <2>2. req[r].pc \notin Allocs /\ req[r].g \in Guests
    BY <2>1 DEF Good, RequestsOk, RequestOk, Allocs
  <2>3. req[r].ss \in (SUBSET Sectors) \ {{}}
    BY <2>1 DEF Good, Transfers, Transfer
  <2> QED BY <2>1, <2>2, <2>3, AllocClusterOffsetGood
<1>3. CASE UNCHANGED vars
  BY <1>3 DEF vars
<1> QED BY <1>1, <1>2, <1>3, CowGood, LinkGood, ReadGood, DiscardGood, WriteGood,
           GuestFlushGood, CrashGood DEF Next

\* Whatever the order of the guest's requests, of the write-back of the two
\* caches and of crashes, a crash finds no cluster with fewer refcounts than
\* references and no shared cluster that is marked COPIED: what the order of
\* qcow2-cache.c and of qcow2_alloc_cluster_link_l2, l2_allocate and
\* qcow2_free_clusters is for.
THEOREM RefcountsSurviveCrashes == Spec => []CrashRefcounts
<1>1. Good(q, req) => CrashRefcounts
  <2> SUFFICES ASSUME Good(q, req) PROVE CrashRefcounts
    OBVIOUS
  <2>1. RefcountsSafe(q)
    BY SoundSurvives DEF Good
  <2> QED BY <2>1 DEF Good, Sound, Safe, CrashRefcounts
<1> QED BY <1>1, InitGood, StepGood, PTL DEF Spec

\* The guest reads what it wrote last, and after a crash each sector holds
\* what it held at the last flush or what was written since; the snapshot
\* never changes.  This is what the order of qcow2_alloc_cluster_link_l2 is
\* for (the data, then the L2 entry), what depends_on_flush adds for the
\* copied sectors, and what handle_dependencies keeps apart.
THEOREM GuestDataSafe == Spec => []GuestData
<1>1. Good(q, req) => GuestData
  <2> SUFFICES ASSUME Good(q, req) PROVE GuestData
    OBVIOUS
  <2>1. DataSafe(q)
    BY SoundKeepsData DEF Good
  <2>2. q.dataOk
    BY DEF Good, Sound, Faithful
  <2>3. \A g \in Guests, s \in Sectors : Content(q, g, s) = q.vis[g][s]
    BY DEF Good, Visible, Content, EntryNow
  <2> QED BY <2>1, <2>2, <2>3 DEF GuestData
<1> QED BY <1>1, InitGood, StepGood, PTL DEF Spec

\* qcow2_cache_set_dependency never lets the two caches depend on each
\* other, so the mutual recursion of qcow2_cache_flush and
\* qcow2_cache_flush_dependency ends after one level.
THEOREM NoCircularDependency == Spec => []DependencyAcyclic
<1>1. Good(q, req) => DependencyAcyclic
  BY DEF Good, Sound, Valid, Acyclic, DependencyAcyclic
<1> QED BY <1>1, InitGood, StepGood, PTL DEF Spec

\* The bounds of the model hold.
Bounded == crashes \in 0 .. MaxCrashes /\ discards \in 0 .. MaxDiscards

\* Every step respects them.
LEMMA StepBounded == Bounded /\ [Next]_vars => Bounded'
<1> SUFFICES ASSUME Bounded, [Next]_vars PROVE Bounded'
  OBVIOUS
<1>1. MaxCrashes \in Nat /\ MaxDiscards \in Nat
  BY Qcow2Assumption
<1>2. CASE Crash
  BY <1>1, <1>2 DEF Crash, Bounded
<1>3. ASSUME NEW g, NEW pick, Discard(g, pick) PROVE Bounded'
  BY <1>1, <1>3 DEF Discard, Bounded
<1>4. CASE UNCHANGED <<crashes, discards>>
  BY <1>4 DEF Bounded
<1>5. CASE UNCHANGED vars
  BY <1>5 DEF Bounded, vars
<1>6. CASE Next
  <2>1. \/ Crash \/ (\E g, pick : Discard(g, pick)) \/ UNCHANGED <<crashes, discards>>
    BY <1>6 DEF Next, WriteStart, WriteAgain, AllocClusterOffset, Cow, Link, Read,
       WriteInPlace, WriteData, WriteFailed, GuestFlush
  <2> QED BY <1>2, <1>3, <1>4, <2>1
<1> QED BY <1>5, <1>6

\* The number of a refcount block is at most that of its clusters.
LEMMA BlocksSmall == Blocks \subseteq Hosts \cup {0}
<1> SUFFICES ASSUME NEW h \in Hosts PROVE h \div BlockSize \in Hosts \cup {0}
  BY DEF Blocks
<1>1. h \in Nat /\ h <= Cardinality(Hosts) /\ Cardinality(Hosts) \in Nat /\ BlockSize \in Nat \ {0}
  BY HostNumbers, Qcow2Assumption
<1> DEFINE b == h \div BlockSize
<1>2. b \in Nat /\ b * BlockSize <= h
  BY <1>1, DivNat, DivBounds
<1> HIDE DEF b
<1>3. b <= b * BlockSize /\ b * BlockSize \in Nat
  BY <1>1, <1>2, TimesMonotone
<1>4. b <= Cardinality(Hosts)
  BY <1>1, <1>2, <1>3
<1> QED BY <1>1, <1>2, <1>4, HostNumbers DEF b

\* update_refcount leaves refcounts between zero and two references, the
\* caches hold no more tables than they were created for, a request that
\* waits has another one to wait for, and the rest has its type.
THEOREM Qcow2Typed == Spec => []TypeOK
<1>1. Good(q, req) /\ Bounded => TypeOK
  <2> SUFFICES ASSUME Good(q, req), Bounded PROVE TypeOK
    OBVIOUS
  <2>1. Valid(q) /\ Exclusive(q) /\ RequestsOk(req, q.l1)
    BY DEF Good, Sound, Safe
  <2>2. q.l1 \in [Guests -> [c : Hosts \cup {0}, copied : BOOLEAN]]
    <3>1. \A g \in Shared : SnapTable(g) \in Hosts
      BY Qcow2Assumption
    <3>2. \A g : \A e : EntryOk(e, g, SnapTable(g)) => e \in [c : Hosts \cup {0}, copied : BOOLEAN]
      <4>1. \A c \in Hosts \cup {0}, v \in BOOLEAN :
              Entry(c, v) \in [c : Hosts \cup {0}, copied : BOOLEAN]
        BY DEF Entry
      <4> QED BY <3>1, <4>1 DEF EntryOk, Unallocated, Own
    <3>3. \A g \in Guests : q.l1[g] \in [c : Hosts \cup {0}, copied : BOOLEAN]
      BY <2>1, <3>2 DEF Exclusive
    <3>4. q.l1 = [g \in Guests |-> q.l1[g]]
      BY <2>1 DEF Valid, Image
    <3> QED BY <3>3, <3>4
  <2>3. \A w \in {"l2", "rb"} :
          Cardinality(Cached(q, w)) <= Size(w) /\ Cached(q, w) \subseteq Hosts \cup {0}
    BY <2>1, BlocksSmall DEF Valid, CacheOk, L2CacheOk, RbCacheOk
  <2>4. \A b \in Blocks : \A c \in DOMAIN Counts(q, b) : Counts(q, b)[c] \in 0 .. 2
    <3> SUFFICES ASSUME NEW b \in Blocks
                 PROVE  \A c \in DOMAIN Counts(q, b) : Counts(q, b)[c] \in 0 .. 2
      OBVIOUS
    <3>1. Counts(q, b) \in CountFns(b)
      BY <2>1, TablePlaces DEF Counts, Valid, RbCacheOk, FileOk
    <3> QED BY <3>1 DEF CountFns
  <2>5. q.free \in 1 .. Cardinality(Hosts) + 1
    BY <2>1, HostNumbers DEF Valid
  <2>6. \A r \in Requests :
          /\ req[r].pc \in {"new", "wait", "again", "inplace", "data", "cow", "link", "done"}
          /\ (req[r].pc = "wait") = (req[r].on # <<>>)
    BY <2>1 DEF RequestsOk, RequestOk, Pcs
  <2> QED BY <2>2, <2>3, <2>4, <2>5, <2>6 DEF TypeOK, Bounded
<1>2. Init => Bounded
  BY Qcow2Assumption DEF Init, Bounded
<1> QED BY <1>1, <1>2, InitGood, StepGood, StepBounded, PTL DEF Spec
=============================================================================
