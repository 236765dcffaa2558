------------------------------- MODULE Qcow2 -------------------------------
(***************************************************************************)
(* Metadata updates of the qcow2 image format (block/qcow2*.c): the caches *)
(* of L2 tables and refcount blocks and the order they are written back    *)
(* in, cluster allocation, copy on write, and what a crash may leave.      *)
(*                                                                         *)
(* The image file has a volatile write cache: until the next bdrv_flush a  *)
(* crash may persist any of the values written to a place.  "poss" holds   *)
(* these values, "cur" the last one, which is what a read returns.         *)
(*                                                                         *)
(* What a request does between taking and dropping s->lock is one step,    *)
(* computed on the record "q".  A crash in the middle of such a step is    *)
(* covered all the same: between two flushes poss only grows, so the worst *)
(* moments are those before each flush, and FileFlush records whether the  *)
(* image was Safe there.                                                   *)
(*                                                                         *)
(* Each L2 table maps one guest cluster; guest clusters have two sectors.  *)
(* The image has just been given a snapshot: what it shares with the       *)
(* active state has refcount 2 and lacks the COPIED flag.  Refcount blocks *)
(* for all host clusters exist.                                            *)
(***************************************************************************)
EXTENDS Integers, FiniteSets, FiniteSetsExt, Functions

CONSTANTS
    Requests,       \* write requests, each one issued at most once
    Shared,         \* guest clusters that the snapshot shares
    Guests,         \* guest clusters, numbers
    Hosts,          \* host clusters, positive numbers
    BlockSize,      \* host clusters per refcount block
    L2Size, RbSize, \* sizes of the two caches
    RbPick(_),      \* the block that the refcount cache prefers to drop
    MaxCrashes, MaxDiscards

Sectors == {0, 1}
Blocks == {h \div BlockSize : h \in Hosts}
Block(h) == h \div BlockSize

\* The snapshot's L2 table and data cluster of guest cluster g.
SnapTable(g) == 2 * g - 1
SnapData(g) == 2 * g

ASSUME Qcow2Assumption ==
    /\ IsFiniteSet(Requests)
    /\ Guests \subseteq Nat \ {0} /\ Shared \subseteq Guests
    /\ IsFiniteSet(Hosts) /\ Hosts = 1 .. Cardinality(Hosts)
    /\ \A g \in Shared : {SnapTable(g), SnapData(g)} \subseteq Hosts
    /\ BlockSize \in Nat \ {0}
    /\ L2Size \in Nat \ {0, 1} /\ RbSize \in Nat \ {0}
    /\ MaxCrashes \in Nat /\ MaxDiscards \in Nat

\* Contents of a guest sector: what a request wrote, what was there before
\* the snapshot, zeros (not allocated), or what a cluster held before it was
\* allocated.
Values == Requests \cup {"old", "zero", "junk"}

\* An L1 or L2 entry: a host cluster, or 0, and the COPIED flag.
Entry(c, copied) == [c |-> c, copied |-> copied]
Unallocated == Entry(0, FALSE)

\* The places of the image file.
L1At(g) == <<"l1", g>>
L2At(t) == <<"l2", t>>
RbAt(b) == <<"rb", b>>
DataAt(c, s) == <<"data", c, s>>
Places ==
    {L1At(g) : g \in Guests} \cup {L2At(t) : t \in Hosts}
      \cup {RbAt(b) : b \in Blocks} \cup {DataAt(c, s) : c \in Hosts, s \in Sectors}

VARIABLES
    q,        \* the image, see Init
    req,      \* req[r]: [pc, g, s, host, on]
    crashes, discards

vars == <<q, req, crashes, discards>>

-----------------------------------------------------------------------------
(* What an image may look like after a crash, and what it must look like.  *)

L1Poss(st, g) == st.poss[L1At(g)]
L2Poss(st, g) ==
    UNION {IF e.c = 0 THEN {Unallocated} ELSE st.poss[L2At(e.c)] : e \in L1Poss(st, g)}
DataPoss(st, g, s) ==
    UNION {IF e.c = 0 THEN {"zero"} ELSE st.poss[DataAt(e.c, s)] : e \in L2Poss(st, g)}

\* The references there can be to host cluster c, and its smallest refcount.
References(st, c) ==
    Cardinality({g \in Guests : \E e \in L1Poss(st, g) : e.c = c})
      + Cardinality({g \in Guests : \E e \in L2Poss(st, g) : e.c = c})
      + Cardinality({g \in Shared : SnapTable(g) = c \/ SnapData(g) = c})
Refcount(st, c) == Min({v[c] : v \in st.poss[RbAt(Block(c))]})

RefcountsSafe(st) ==
    /\ \A c \in Hosts : References(st, c) <= Refcount(st, c)
    /\ \A g \in Guests : \A e \in L1Poss(st, g) \cup L2Poss(st, g) :
         e.copied => References(st, e.c) = 1

DataSafe(st) ==
    /\ \A g \in Guests, s \in Sectors : DataPoss(st, g, s) \subseteq st.acc[g][s]
    /\ \A g \in Shared, s \in Sectors :
         /\ st.poss[L2At(SnapTable(g))] = {Entry(SnapData(g), FALSE)}
         /\ st.poss[DataAt(SnapData(g), s)] = {"old"}

-----------------------------------------------------------------------------
(* The image file (external).                                              *)

FileWrite(st, place, v) ==
    [st EXCEPT !.cur[place] = v, !.poss[place] = @ \cup {v}]

FileFlush(st) ==
    [st EXCEPT !.poss = [p \in Places |-> {st.cur[p]}],
               !.refsOk = @ /\ RefcountsSafe(st),
               !.dataOk = @ /\ DataSafe(st)]

-----------------------------------------------------------------------------
(* qcow2-cache.c.  st.cache[w], where w is "l2" or "rb": the cached tables *)
(* by their place in the file, whether the cache depends on the other one, *)
(* and depends_on_flush.                                                   *)

Other(w) == IF w = "l2" THEN "rb" ELSE "l2"
Tables(st, w) == st.cache[w].tables
Cached(st, w) == DOMAIN Tables(st, w)
Dirty(st, w) == {i \in Cached(st, w) : Tables(st, w)[i].dirty}
Size(w) == IF w = "l2" THEN L2Size ELSE RbSize

\* bdrv_pwrite of the dirty tables D of a cache.
WriteTables(st, w, D) ==
    LET value == [p \in {<<w, i>> : i \in D} |-> Tables(st, w)[p[2]].val] IN
    [st EXCEPT
       !.cur = [p \in Places |-> IF p \in DOMAIN value THEN value[p] ELSE @[p]],
       !.poss = [p \in Places |->
                   IF p \in DOMAIN value THEN @[p] \cup {value[p]} ELSE @[p]],
       !.cache[w].tables =
           [i \in DOMAIN @ |-> [val |-> @[i].val, dirty |-> @[i].dirty /\ i \notin D]]]

NoDependency(st, w) ==
    [st EXCEPT !.cache[w].depends = FALSE, !.cache[w].onFlush = FALSE]

AwaitFlush(st, w) ==
    IF st.cache[w].onFlush
    THEN [FileFlush(st) EXCEPT !.cache[w].onFlush = FALSE]
    ELSE st

\* qcow2_cache_flush of a cache on which the other one depends: it depends
\* on none itself (DependencyAcyclic).
FlushBase(st, w) ==
    FileFlush(IF Dirty(st, w) = {} THEN st
              ELSE WriteTables(AwaitFlush(st, w), w, Dirty(st, w)))

\* qcow2_cache_flush_dependency, or the flush that qcow2_cache_entry_flush
\* needs before it writes a table.
FlushDependency(st, w) == NoDependency(FlushBase(st, Other(w)), w)

BeforeWrite(st, w) ==
    IF st.cache[w].depends THEN FlushDependency(st, w) ELSE AwaitFlush(st, w)

\* qcow2_cache_entry_flush and qcow2_cache_flush.
EntryFlush(st, w, i) ==
    IF Tables(st, w)[i].dirty THEN WriteTables(BeforeWrite(st, w), w, {i}) ELSE st

CacheFlush(st, w) ==
    FileFlush(IF Dirty(st, w) = {} THEN st
              ELSE WriteTables(BeforeWrite(st, w), w, Dirty(st, w)))

\* Mutant of SetDependency: the other cache's own dependency stays.
SetDependencyOnly(st, w) == [st EXCEPT !.cache[w].depends = TRUE]

\* qcow2_cache_set_dependency of cache w on the other one.
SetDependency(st, w) ==
    LET base == IF st.cache[Other(w)].depends
                THEN FlushDependency(st, Other(w)) ELSE st IN
    [base EXCEPT !.cache[w].depends = TRUE]

\* qcow2_cache_depends_on_flush.
DependsOnFlush(st, w) == [st EXCEPT !.cache[w].onFlush = TRUE]

\* qcow2_cache_do_get: table i comes into the cache with value val, in an
\* unused entry or in that of a table that is not in use, which is written
\* back and dropped.  The hit counts that choose the entry are abstracted to
\* the preference "pick": they decay, so that a table may have to go while
\* the cache still has an unused entry.
Replaced(st, w, keep, pick) ==
    IF pick \in Cached(st, w) \ keep THEN pick ELSE Min(Cached(st, w) \ keep)

Install(st, w, i, val) ==
    [st EXCEPT !.cache[w].tables =
       [j \in DOMAIN @ \cup {i} |->
          IF j = i THEN [val |-> val, dirty |-> FALSE] ELSE @[j]]]

DoGet(st, w, i, val, keep, pick) ==
    IF i \in Cached(st, w) THEN st
    ELSE IF Cardinality(Cached(st, w)) < Size(w) /\ pick \notin Cached(st, w) \ keep
         THEN Install(st, w, i, val)
    ELSE LET old == Replaced(st, w, keep, pick)
             st1 == EntryFlush(st, w, old) IN
         Install([st1 EXCEPT !.cache[w].tables = Restrict(@, DOMAIN @ \ {old})],
                 w, i, val)

CacheGet(st, w, i, keep, pick) == DoGet(st, w, i, st.cur[<<w, i>>], keep, pick)

\* A refcount block; the choice of the one to drop is any function of the
\* image, where that of an L2 table is free (see Victims).
GetBlock(st, b) == CacheGet(st, "rb", b, {}, RbPick(st))

\* A change to a cached table, and qcow2_cache_entry_mark_dirty.
Modify(st, w, i, val) ==
    [st EXCEPT !.cache[w].tables[i] = [val |-> val, dirty |-> TRUE]]

-----------------------------------------------------------------------------
(* qcow2-refcount.c.                                                       *)

Counts(st, b) ==
    IF b \in Cached(st, "rb") THEN Tables(st, "rb")[b].val ELSE st.cur[RbAt(b)]
FreeHosts(st) == {c \in Hosts : c >= st.free /\ Counts(st, Block(c))[c] = 0}

\* update_refcount of one cluster; a decrease waits for the L2 tables.
Recount(st, c, addend) ==
    LET counts == Tables(st, "rb")[Block(c)].val
        n == counts[c] + addend IN
    [Modify(st, "rb", Block(c), [counts EXCEPT ![c] = n]) EXCEPT
       !.free = IF n = 0 /\ c < @ THEN c ELSE @]

UpdateRefcount(st, c, addend) ==
    Recount(GetBlock(IF addend < 0 THEN SetDependency(st, "rb") ELSE st, Block(c)),
            c, addend)

\* qcow2_alloc_clusters of one cluster: alloc_clusters_noref reads every
\* refcount block from free_cluster_index to the first free cluster, then
\* update_refcount.
NewHost(st) == Min(FreeHosts(st))

Scan(st, first, last) ==
    LET read[b \in first .. last] ==
            GetBlock(IF b = first THEN st ELSE read[b - 1], b)
    IN  read

Scanned(st) == Scan(st, Block(st.free), Block(NewHost(st)))[Block(NewHost(st))]

AllocCluster(st) ==
    UpdateRefcount([Scanned(st) EXCEPT !.free = NewHost(st) + 1], NewHost(st), 1)

\* qcow2_free_clusters, of what a table entry pointed to.
FreeCluster(st, c) == IF c = 0 THEN st ELSE UpdateRefcount(st, c, -1)

-----------------------------------------------------------------------------
(* qcow2-cluster.c.                                                        *)

L2Entry(st, g) ==
    LET t == st.l1[g].c IN
    IF t = 0 THEN Unallocated
    ELSE IF t \in Cached(st, "l2") THEN Tables(st, "l2")[t].val
    ELSE st.cur[L2At(t)]

\* l2_allocate: the new table takes its entry from the old one and is durable
\* before the L1 entry points to it.
LoadOld(st, g, new, pick) ==
    IF st.l1[g].c = 0 THEN st ELSE CacheGet(st, "l2", st.l1[g].c, {new}, pick)
CopyOld(st, g, new) ==
    CacheFlush(Modify(st, "l2", new, L2Entry(st, g)), "l2")
WriteL1Entry(st, g, new) ==
    FileFlush(FileWrite([st EXCEPT !.l1[g] = Entry(new, TRUE)],
                        L1At(g), Entry(new, TRUE)))

L2Allocate(st, g, pick) ==
    LET new == NewHost(st)
        st1 == CacheFlush(AllocCluster(st), "rb")
        st2 == DoGet(st1, "l2", new, Unallocated, {}, pick) IN
    WriteL1Entry(CopyOld(LoadOld(st2, g, new, pick), g, new), g, new)

\* get_cluster_table: a table of its own for g, in the cache.
GetClusterTable(st, g, pick) ==
    IF st.l1[g].copied
    THEN CacheGet(st, "l2", st.l1[g].c, {}, pick)
    ELSE FreeCluster(L2Allocate(st, g, pick), st.l1[g].c)

\* Mutant of SetL2Entry: the table is marked dirty, its entry stays.
SetL2EntryUnchanged(st, g, e) == Modify(st, "l2", st.l1[g].c, L2Entry(st, g))

\* The change of an L2 entry, in a table that the cache holds.
SetL2Entry(st, g, e) == Modify(st, "l2", st.l1[g].c, e)

\* The host clusters that a request may still need (a bound of the model:
\* the image file grows).
Room(st) == Cardinality(FreeHosts(st)) >= 2

-----------------------------------------------------------------------------
(* Requests of the guest.  It never has two writes of one sector in flight *)
(* and discards no cluster that it is writing.                             *)

NewReq == [pc |-> "new", g |-> 0, ss |-> {}, host |-> 0, on |-> <<>>]
InFlight(r) == req[r].pc \notin {"new", "done"}
Allocating(r) == req[r].pc \in {"data", "cow", "link"}
Writing(g, s) == {r \in Requests : InFlight(r) /\ req[r].g = g /\ s \in req[r].ss}

Init ==
    /\ LET entry(g) == IF g \in Shared THEN Entry(SnapTable(g), FALSE) ELSE Unallocated
           snap(p) == \E g \in Shared :
               p \in {L2At(SnapTable(g))} \cup {DataAt(SnapData(g), s) : s \in Sectors}
           used(c) == \E g \in Shared : c \in {SnapTable(g), SnapData(g)}
           cur == [p \in Places |->
               CASE p[1] = "l1" -> entry(p[2])
                 [] p[1] = "l2" -> IF snap(p) THEN Entry(p[2] + 1, FALSE) ELSE Unallocated
                 [] p[1] = "rb" -> [c \in {c \in Hosts : Block(c) = p[2]} |->
                                      IF used(c) THEN 2 ELSE 0]
                 [] p[1] = "data" -> IF snap(p) THEN "old" ELSE "junk"]
           vis == [g \in Guests |-> [s \in Sectors |->
                     IF g \in Shared THEN "old" ELSE "zero"]]
           empty == [tables |-> <<>>, depends |-> FALSE, onFlush |-> FALSE] IN
       q = [l1 |-> [g \in Guests |-> entry(g)],
            cache |-> [w \in {"l2", "rb"} |-> empty],
            cur |-> cur, poss |-> [p \in Places |-> {cur[p]}], free |-> 1,
            vis |-> vis, acc |-> [g \in Guests |-> [s \in Sectors |-> {vis[g][s]}]],
            refsOk |-> TRUE, dataOk |-> TRUE]
    /\ req = [r \in Requests |-> NewReq]
    /\ crashes = 0 /\ discards = 0

\* Mutant of Conflicts: a write waits for no other one.
ConflictsIgnored(g) == {}

\* handle_dependencies: the allocating requests that a write of cluster g
\* waits for.  The end of the running allocation counts as part of it, so a
\* write of the next cluster waits too.
Conflicts(g) == {r \in Requests : Allocating(r) /\ req[r].g <= g /\ g <= req[r].g + 1}

\* qcow2_alloc_cluster_offset: the write of sectors ss of g goes to a cluster
\* of its own in place, waits for a conflicting allocation (and starts again
\* when woken), or allocates a cluster.  In st the table of g is cached.
Place(st, r, g, ss) ==
    LET e == L2Entry(st, g)
        go(pc, host, on) ==
            req' = [req EXCEPT ![r] = [pc |-> pc, g |-> g, ss |-> ss, host |-> host, on |-> on]]
    IN
    \/ e.copied /\ q' = st /\ go("inplace", e.c, <<>>)
    \/ ~e.copied /\ \E r2 \in Conflicts(g) : q' = st /\ go("wait", 0, <<r2>>)
    \/ ~e.copied /\ Conflicts(g) = {} /\ q' = AllocCluster(st) /\ go("data", NewHost(st), <<>>)

AllocClusterOffset(r, g, ss, pick) ==
    /\ Room(q)
    /\ Place([GetClusterTable(q, g, pick) EXCEPT
                !.acc[g] = [s \in Sectors |-> @[s] \cup (IF s \in ss THEN {r} ELSE {})]],
             r, g, ss)
    /\ UNCHANGED <<crashes, discards>>

\* qcow2_co_writev, first part of the request.
WriteStart(r, g, ss, pick) ==
    /\ req[r].pc = "new"
    /\ \A s \in ss : Writing(g, s) = {}
    /\ AllocClusterOffset(r, g, ss, pick)

\* A request woken by the end of the one it waited for.
WriteAgain(r, pick) ==
    /\ req[r].pc = "again"
    /\ AllocClusterOffset(r, req[r].g, req[r].ss, pick)

\* The end of request r: it leaves cluster_allocs and wakes those that wait
\* for it.
Finish(r) ==
    [x \in Requests |->
       IF x = r THEN [NewReq EXCEPT !.pc = "done"]
       ELSE IF req[x].on = <<r>> THEN [req[x] EXCEPT !.pc = "again", !.on = <<>>]
       ELSE req[x]]

\* The data of r reaches the host cluster: bdrv_co_writev, without s->lock.
WriteSectors(st, host, value) ==
    LET at == {DataAt(host, s) : s \in DOMAIN value} IN
    [st EXCEPT !.cur = [p \in Places |-> IF p \in at THEN value[p[3]] ELSE @[p]],
               !.poss = [p \in Places |-> IF p \in at THEN @[p] \cup {value[p[3]]} ELSE @[p]]]

Seen(st, r) ==
    [st EXCEPT !.vis[req[r].g] = [s \in Sectors |-> IF s \in req[r].ss THEN r ELSE @[s]]]

Written(r) == WriteSectors(q, req[r].host, [s \in req[r].ss |-> r])

WriteInPlace(r) ==
    /\ req[r].pc = "inplace"
    /\ q' = Seen(Written(r), r)
    /\ req' = Finish(r)
    /\ UNCHANGED <<crashes, discards>>

WriteData(r) ==
    /\ req[r].pc = "data"
    /\ q' = Written(r)
    /\ req' = [req EXCEPT ![r].pc = IF req[r].ss = Sectors THEN "link" ELSE "cow"]
    /\ UNCHANGED <<crashes, discards>>

\* A write that fails, with the data on the disk or not, ends the request; a
\* cluster it allocated is leaked.
WriteFailed(r) ==
    /\ req[r].pc \in {"data", "inplace"}
    /\ \/ q' = IF req[r].pc = "inplace" THEN Seen(Written(r), r) ELSE Written(r)
       \/ q' = q
    /\ req' = Finish(r)
    /\ UNCHANGED <<crashes, discards>>

\* The content of a guest cluster, read through the tables in memory.
Content(st, g, s) ==
    IF L2Entry(st, g).c = 0 THEN "zero" ELSE st.cur[DataAt(L2Entry(st, g).c, s)]

\* qcow2_co_readv: only its use of the L2 cache changes state.
LoadTable(st, g, pick) ==
    IF st.l1[g].c = 0 THEN st ELSE CacheGet(st, "l2", st.l1[g].c, {}, pick)

Read(g, pick) ==
    /\ q' = LoadTable(q, g, pick)
    /\ UNCHANGED <<req, crashes, discards>>

\* perform_cow: copy_sectors reads the rest of the cluster and writes it to
\* the new one; the read may fail, too.
Cow(r, pick) ==
    /\ req[r].pc = "cow"
    /\ LET st == LoadTable(q, req[r].g, pick) IN
       \/ /\ q' = WriteSectors(st, req[r].host,
                    [s \in Sectors \ req[r].ss |-> Content(st, req[r].g, s)])
          /\ req' = [req EXCEPT ![r].pc = "link"]
       \/ q' = st /\ req' = Finish(r)
    /\ UNCHANGED <<crashes, discards>>

\* Mutant of OrderLink: the L2 table does not wait for the refcounts.
OrderLinkByFlush(st, r) == DependsOnFlush(st, "l2")

\* The rest of qcow2_alloc_cluster_link_l2: the L2 entry comes after the copy
\* and after the new cluster's refcount, the old cluster's decrease after the
\* L2 entry.
OrderLink(st, r) ==
    SetDependency(IF req[r].ss = Sectors THEN st ELSE DependsOnFlush(st, "l2"), "l2")

LinkEntry(st, g, host) ==
    FreeCluster(SetL2Entry(st, g, Entry(host, TRUE)), L2Entry(st, g).c)

Link(r, pick) ==
    /\ req[r].pc = "link"
    /\ q' = Seen(LinkEntry(GetClusterTable(OrderLink(q, r), req[r].g, pick),
                           req[r].g, req[r].host), r)
    /\ req' = Finish(r)
    /\ UNCHANGED <<crashes, discards>>

\* qcow2_co_discard of a whole cluster (discard_single_l2).
Unmap(st, g) ==
    LET zero == [st EXCEPT !.vis[g] = [s \in Sectors |-> "zero"],
                           !.acc[g] = [s \in Sectors |-> Values]] IN
    IF L2Entry(st, g).c = 0 THEN st
    ELSE FreeCluster(SetL2Entry(zero, g, Unallocated), L2Entry(st, g).c)

Discard(g, pick) ==
    /\ discards < MaxDiscards /\ Room(q)
    /\ \A s \in Sectors : Writing(g, s) = {}
    /\ q' = Unmap(GetClusterTable(q, g, pick), g)
    /\ discards' = discards + 1
    /\ UNCHANGED <<req, crashes>>

\* bdrv_flush: qcow2_co_flush_to_os, then a flush of the file.  What the
\* guest had written before is durable after it.
GuestFlush ==
    /\ LET st == FileFlush(CacheFlush(CacheFlush(q, "l2"), "rb")) IN
       q' = [st EXCEPT !.acc = [g \in Guests |-> [s \in Sectors |->
                                  {st.vis[g][s]} \cup Writing(g, s)]]]
    /\ UNCHANGED <<req, crashes, discards>>

\* The values that the places of one kind may have after a crash, where they
\* have a choice.
Outcomes(st, kind) ==
    LET P == {p \in Places : p[1] = kind /\ Cardinality(st.poss[p]) > 1} IN
    {f \in [P -> UNION {st.poss[p] : p \in P}] : \A p \in P : f[p] \in st.poss[p]}

\* The host crashes: each place of the file keeps one of the values it may
\* have, everything in memory is lost, and the image is opened again.
Survivors(st) ==
    {[p \in Places |-> IF p \in DOMAIN o[p[1]] THEN o[p[1]][p] ELSE st.cur[p]] :
       o \in [l1 : Outcomes(st, "l1"), l2 : Outcomes(st, "l2"),
             rb : Outcomes(st, "rb"), data : Outcomes(st, "data")]}

Reopened(st, f) ==
    LET l1 == [g \in Guests |-> f[L1At(g)]]
        st1 == [st EXCEPT
                  !.cur = f, !.poss = [p \in Places |-> {f[p]}], !.free = 1, !.l1 = l1,
                  !.cache = [w \in {"l2", "rb"} |->
                     [tables |-> <<>>, depends |-> FALSE, onFlush |-> FALSE]]]
        vis == [g \in Guests |-> [s \in Sectors |-> Content(st1, g, s)]] IN
    [st1 EXCEPT !.vis = vis,
                !.acc = [g \in Guests |-> [s \in Sectors |-> {vis[g][s]}]]]

Crash ==
    /\ crashes < MaxCrashes
    /\ \E f \in Survivors(q) : q' = Reopened(q, f)
    /\ req' = [r \in Requests |->
                 IF InFlight(r) THEN [NewReq EXCEPT !.pc = "done"] ELSE req[r]]
    /\ crashes' = crashes + 1
    /\ UNCHANGED discards

\* The choices that an L2 cache has of the table to drop; 0 is an unused entry.
Victims ==
    Cached(q, "l2") \cup (IF Cardinality(Cached(q, "l2")) < L2Size THEN {0} ELSE {})

Next ==
    \/ \E pick \in Victims :
         \/ \E r \in Requests :
              \/ \E g \in Guests, ss \in (SUBSET Sectors) \ {{}} : WriteStart(r, g, ss, pick)
              \/ WriteAgain(r, pick) \/ Cow(r, pick) \/ Link(r, pick)
         \/ \E g \in Guests : Read(g, pick) \/ Discard(g, pick)
    \/ \E r \in Requests : WriteInPlace(r) \/ WriteData(r) \/ WriteFailed(r)
    \/ GuestFlush
    \/ Crash

Spec == Init /\ [][Next]_vars

-----------------------------------------------------------------------------
(* Properties.                                                             *)

\* The tables have their types; in particular no refcount goes below zero or
\* above the references there are (one of the snapshot, one of the guest).
TypeOK ==
    /\ q.l1 \in [Guests -> [c : Hosts \cup {0}, copied : BOOLEAN]]
    /\ \A w \in {"l2", "rb"} :
         Cardinality(Cached(q, w)) <= Size(w) /\ Cached(q, w) \subseteq Hosts \cup {0}
    /\ \A b \in Blocks : \A c \in DOMAIN Counts(q, b) : Counts(q, b)[c] \in 0 .. 2
    /\ q.free \in 1 .. Cardinality(Hosts) + 1
    /\ \A r \in Requests :
         /\ req[r].pc \in {"new", "wait", "again", "inplace", "data", "cow", "link", "done"}
         /\ (req[r].pc = "wait") = (req[r].on # <<>>)
    /\ crashes \in 0 .. MaxCrashes /\ discards \in 0 .. MaxDiscards

\* Whenever the host crashes, no cluster of the image has a refcount below
\* the number of references to it, and one that the COPIED flag marks as
\* writable in place has no other reference: whatever the guest's requests
\* interleave to, the write-back order of the two caches (the dependencies of
\* qcow2-cache.c) leaves leaks at worst, never a cluster that a later
\* allocation would hand out twice.
CrashRefcounts == q.refsOk /\ RefcountsSafe(q)

\* The guest reads what it wrote last, through the caches, and after a crash
\* each sector holds what it held at the guest's last flush or what was
\* written since, never what the cluster contained before it was allocated
\* (unless the guest discarded it and has not flushed); the snapshot's
\* clusters never change.
GuestData ==
    /\ q.dataOk /\ DataSafe(q)
    /\ \A g \in Guests, s \in Sectors : Content(q, g, s) = q.vis[g][s]

\* The caches never wait for each other: the recursion of qcow2_cache_flush
\* through qcow2_cache_flush_dependency ends.
DependencyAcyclic == ~(q.cache["l2"].depends /\ q.cache["rb"].depends)
=============================================================================
