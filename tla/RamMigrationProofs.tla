------------------------- MODULE RamMigrationProofs -------------------------
(***************************************************************************)
(* Theorems about RamMigration, for memory of any layout and size, caches  *)
(* of any size and any number of guest writes.                             *)
(***************************************************************************)
EXTENDS RamMigration, NatLemmas, FiniteSetTheorems

-----------------------------------------------------------------------------
(* The inductive invariant.                                                *)

\* Between ram_save_setup and the end of ram_save_complete.
Migrating == phase \in {"active", "complete"}

\* Where ram_save_block runs, and what its locals may then be.
Control ==
    /\ pc # "handler" => Migrating
    /\ phase \in {"complete", "done"} => ~ running
    /\ phase = "complete" => log = {}
    /\ InHand \/ pc = "scan" => block \in BlockIds
    /\ InHand => offset < Length(block) /\ Here \notin migration_bitmap
    /\ last_seen_block = NoBlock \/ last_offset <= Length(last_seen_block)

\* The destination is in the block that the next record may continue.
SameBlock == Migrating /\ last_sent_block # NoBlock => dst.block = last_sent_block

\* The search starts at <<last_seen_block, last_offset>>: the pages it has passed are clean.
Before(b, o, c, q) == b < c \/ (b = c /\ o < q)
Passed(b, o) ==
    IF complete_round
    THEN Before(b, o, block, offset) \/ ~ Before(b, o, last_seen_block, last_offset)
    ELSE Before(b, o, block, offset) /\ ~ Before(b, o, last_seen_block, last_offset)

Swept ==
    /\ (InHand \/ pc = "scan") /\ last_seen_block # NoBlock =>
        /\ complete_round => block <= last_seen_block
        /\ ~ complete_round => ~ Before(block, offset, last_seen_block, last_offset)
        /\ \A b \in BlockIds : \A o \in 0 .. Length(b) - 1 :
             Passed(b, o) => Page(b, o) \notin migration_bitmap
    /\ pc = "zero" => BlockPages \cap migration_bitmap = {}

\* With XBZRLE the guest writes no page of one byte value.
NoDupWrites == xbzrle => \A c \in GuestWrites[TRUE] : ~ IsDupPage(c)

\* Only XBZRLE uses the cache, and an overflow is that of a cached page.
CacheUse ==
    /\ ~ xbzrle => DOMAIN cache = {}
    /\ pc \in {"xbzrle", "overflow"} => xbzrle
    /\ pc = "normal" => ~ xbzrle
    /\ pc = "overflow" => Here \in DOMAIN cache

\* A cached page never becomes one that is sent without the cache.
Variety ==
    /\ \A p \in DOMAIN cache : ~ IsDupPage(ram[p])
    /\ pc \in {"xbzrle", "overflow"} => ~ IsDupPage(ram[Here])
    /\ pc = "dup" => Here \notin DOMAIN cache

\* A page sent as one byte is one, or has been written again since the test.
DupInHand == pc = "dup" => IsDupPage(ram[Here]) \/ Here \in log

\* The cache in both stages: in the last one it is no longer updated, so a page
\* that has been sent there may differ, but that page is not looked at again.
Coherent ==
    Migrating => \A p \in DOMAIN cache :
        \/ cache[p] = dst.ram[p]
        \/ LastStage /\ p \notin migration_bitmap /\ ~ (InHand /\ p = Here)

\* The inductive invariant.
IInv ==
    /\ TypeOK /\ DirtyCount /\ StreamWellFormed
    /\ Control /\ SameBlock /\ Swept /\ CacheUse /\ DupInHand
    /\ NoDupWrites => Variety /\ Coherent /\ NoPageForgotten /\ MemoryMigrated

-----------------------------------------------------------------------------
(* Facts about the constants and the operators.                            *)

\* The blocks and their pages.
LEMMA BlockFacts ==
    /\ Len(Blocks) \in Nat \ {0}
    /\ \A b \in BlockIds : b \in Nat \ {0} /\ Length(b) \in Nat \ {0}
    /\ \A b \in BlockIds : \A o \in Nat : Page(b, o) \in Nat
    /\ \A b \in BlockIds : \A o \in 0 .. Length(b) - 1 :
         Page(b, o) \in BlockPages /\ Page(b, o) \in RamPages
    /\ BlockPages \subseteq RamPages
<1>1. Len(Blocks) \in Nat \ {0}
  BY RamAssumption
<1>2. \A b \in BlockIds : Blocks[b] \in Nat \X (Nat \ {0})
  BY RamAssumption DEF BlockIds
<1>3. \A b \in BlockIds : b \in Nat \ {0} /\ Length(b) \in Nat \ {0} /\ Blocks[b][1] \in Nat
  BY <1>1, <1>2 DEF BlockIds, Length
<1>4. \A b \in BlockIds : \A o \in Nat : Page(b, o) \in Nat
  BY <1>3 DEF Page
<1>5. ASSUME NEW b \in BlockIds, NEW o \in 0 .. Length(b) - 1
      PROVE  Page(b, o) \in 0 .. Page(b, Length(b)) - 1
  BY <1>3 DEF Page
<1>6. \A b \in BlockIds : \A o \in 0 .. Length(b) - 1 :
        Page(b, o) \in BlockPages /\ Page(b, o) \in RamPages
  BY <1>5 DEF BlockPages, RamPages
<1>7. BlockPages \subseteq RamPages
  BY <1>6 DEF BlockPages
<1> QED BY <1>1, <1>3, <1>4, <1>6, <1>7

\* The pages of the guest can be counted.
LEMMA RamPagesFinite == IsFiniteSet(RamPages)
<1> DEFINE area == [b \in BlockIds |-> 0 .. Page(b, Length(b)) - 1]
           areas == {area[b] : b \in BlockIds}
<1>1. IsFiniteSet(BlockIds)
  BY BlockFacts, FS_Interval DEF BlockIds
<1>2. area \in Surjection(BlockIds, areas)
  BY DEF Surjection
<1>3. IsFiniteSet(areas)
  BY <1>1, <1>2, FS_Surjection
<1>4. \A b \in BlockIds : IsFiniteSet(area[b])
  <2> SUFFICES ASSUME NEW b \in BlockIds PROVE IsFiniteSet(0 .. Page(b, Length(b)) - 1)
    OBVIOUS
  <2>1. Page(b, Length(b)) - 1 \in Int
    BY BlockFacts
  <2> QED BY <2>1, FS_Interval
<1>5. IsFiniteSet(UNION areas)
  BY <1>3, <1>4, FS_UNION
<1>6. UNION areas = RamPages
  BY DEF RamPages
<1> QED BY <1>5, <1>6

\* migration_bitmap_find_and_reset_dirty finds the first dirty page from the
\* current offset on, or the end of the block.
LEMMA NextDirtyFacts ==
    ASSUME block \in BlockIds, offset \in Nat
    PROVE  /\ NextDirty \in Nat /\ NextDirty <= Length(block)
           /\ NextDirty < Length(block) =>
                offset <= NextDirty /\ Page(block, NextDirty) \in migration_bitmap
           /\ \A o \in offset .. NextDirty - 1 : Page(block, o) \notin migration_bitmap
<1> DEFINE S == {o \in offset .. Length(block) - 1 : Page(block, o) \in migration_bitmap}
                  \cup {Length(block)}
<1>1. Length(block) \in Nat
  BY BlockFacts
<1>2. S \in SUBSET Nat /\ S # {} /\ Length(block) \in S
  BY <1>1
<1>3. Min(S) \in S /\ \A y \in S : Min(S) <= y
  BY <1>2, NatMin
<1>4. NextDirty = Min(S)
  BY DEF NextDirty
<1>5. NextDirty \in S /\ (\A y \in S : NextDirty <= y) /\ NextDirty \in Nat
  BY <1>2, <1>3, <1>4
<1>6. NextDirty <= Length(block)
  BY <1>2, <1>5
<1>7. NextDirty < Length(block) =>
        offset <= NextDirty /\ Page(block, NextDirty) \in migration_bitmap
  BY <1>1, <1>5
<1>8. ASSUME NEW o \in offset .. NextDirty - 1, Page(block, o) \in migration_bitmap
      PROVE  FALSE
  BY <1>1, <1>5, <1>6, <1>8
<1> QED BY <1>5, <1>6, <1>7, <1>8

\* migration_bitmap_find_and_reset_dirty keeps the count of dirty pages exact.
LEMMA ResetDirtyFacts ==
    ASSUME TypeOK, DirtyCount, Migrating, block \in BlockIds, ResetDirty(NextDirty)
    PROVE  /\ migration_bitmap' = IF NextDirty < Length(block)
                THEN migration_bitmap \ {Page(block, NextDirty)} ELSE migration_bitmap
           /\ migration_dirty_pages' \in Nat
           /\ migration_dirty_pages' = Cardinality(migration_bitmap')
<1>1. offset \in Nat /\ migration_bitmap \subseteq RamPages /\ migration_dirty_pages \in Nat
  BY DEF TypeOK
<1>2. migration_dirty_pages = Cardinality(migration_bitmap)
  BY DEF DirtyCount, Migrating
<1>3. IsFiniteSet(migration_bitmap)
  BY <1>1, RamPagesFinite, FS_Subset
<1>4. NextDirty \in Nat /\ Length(block) \in Nat
  BY <1>1, NextDirtyFacts, BlockFacts
<1>5. CASE NextDirty < Length(block)
  <2>1. /\ migration_bitmap' = migration_bitmap \ {Page(block, NextDirty)}
        /\ migration_dirty_pages' = migration_dirty_pages - 1
    BY <1>4, <1>5 DEF ResetDirty
  <2>2. Page(block, NextDirty) \in migration_bitmap
    BY <1>1, <1>5, NextDirtyFacts
  <2>3. Cardinality(migration_bitmap') = Cardinality(migration_bitmap) - 1
    BY <1>3, <2>1, <2>2, FS_RemoveElement
  <2>4. Cardinality(migration_bitmap') \in Nat
    BY <1>3, <2>1, FS_RemoveElement, FS_CardinalityType
  <2> QED BY <1>2, <1>5, <2>1, <2>3, <2>4
<1>6. CASE ~ (NextDirty < Length(block))
  BY <1>1, <1>2, <1>4, <1>6 DEF ResetDirty, bitmapVars
<1> QED BY <1>5, <1>6

\* migration_bitmap_sync too: a bit is counted when it is set.
LEMMA SyncFacts ==
    ASSUME TypeOK, DirtyCount, Migrating, MigrationBitmapSync
    PROVE  /\ migration_bitmap' = migration_bitmap \cup log /\ log' = {}
           /\ migration_dirty_pages' \in Nat
           /\ migration_dirty_pages' = Cardinality(migration_bitmap')
<1>1. migration_bitmap \subseteq RamPages /\ log \subseteq RamPages
  BY DEF TypeOK
<1>2. IsFiniteSet(migration_bitmap) /\ IsFiniteSet(log \ migration_bitmap)
  BY <1>1, RamPagesFinite, FS_Subset
<1>3. migration_bitmap' = migration_bitmap \cup (log \ migration_bitmap)
  BY DEF MigrationBitmapSync, SyncedBitmap
<1>4. (log \ migration_bitmap) \cap migration_bitmap = {}
  OBVIOUS
<1>5. Cardinality(migration_bitmap') =
        Cardinality(migration_bitmap) + Cardinality(log \ migration_bitmap)
  <2>1. Cardinality(migration_bitmap \cap (log \ migration_bitmap)) = 0
    BY <1>4, FS_EmptySet
  <2>2. /\ Cardinality(migration_bitmap) \in Nat
        /\ Cardinality(log \ migration_bitmap) \in Nat
    BY <1>2, FS_CardinalityType
  <2>3. Cardinality(migration_bitmap \cup (log \ migration_bitmap)) =
          Cardinality(migration_bitmap) + Cardinality(log \ migration_bitmap)
            - Cardinality(migration_bitmap \cap (log \ migration_bitmap))
    BY <1>2, FS_Union, Zenon
  <2> QED BY <1>3, <2>1, <2>2, <2>3
<1>6. migration_dirty_pages = Cardinality(migration_bitmap)
  BY DEF DirtyCount, Migrating
<1>7. migration_dirty_pages' = migration_dirty_pages + Cardinality(log \ migration_bitmap)
  BY DEF MigrationBitmapSync, NewlyDirty
<1>8. /\ Cardinality(migration_bitmap) \in Nat
      /\ Cardinality(log \ migration_bitmap) \in Nat
  BY <1>2, FS_CardinalityType
<1> QED BY <1>3, <1>5, <1>6, <1>7, <1>8 DEF MigrationBitmapSync

\* The page in hand is a page of the guest.
LEMMA HereFacts ==
    ASSUME TypeOK, Control, InHand
    PROVE  /\ block \in BlockIds /\ block # NoBlock
           /\ offset \in 0 .. Length(block) - 1
           /\ Here \in BlockPages /\ Here \in RamPages
           /\ Migrating /\ ram[Here] \in Contents /\ dst.ram[Here] \in Contents
<1>1. block \in BlockIds /\ offset \in Nat /\ offset < Length(block) /\ Migrating
  BY DEF TypeOK, Control, InHand
<1>2. block # NoBlock /\ offset \in 0 .. Length(block) - 1
  BY <1>1, BlockFacts DEF NoBlock
<1>3. Here \in BlockPages /\ Here \in RamPages
  BY <1>1, <1>2, BlockFacts DEF Here
<1> QED BY <1>1, <1>2, <1>3 DEF TypeOK

\* What the destination does with each kind of record.
LEMMA LoadFacts ==
    ASSUME NEW old \in Contents, NEW new \in Contents
    PROVE  /\ LoadPage([flag |-> "page", data |-> new], old) = new
           /\ LoadPage([flag |-> "compress", data |-> new[1]], old)
                = [i \in 1 .. Width |-> new[1]]
           /\ [i \in 1 .. Width |-> new[1]] \in Contents
           /\ IsDupPage(new) => [i \in 1 .. Width |-> new[1]] = new
<1>1. 1 \in 1 .. Width
  BY RamAssumption
<1> QED BY <1>1 DEF LoadPage, Contents, IsDupPage

\* xbzrle_decode_buffer undoes xbzrle_encode_buffer on the page that the
\* difference was taken from, and makes a page of any other one.
LEMMA DeltaFacts ==
    ASSUME NEW old \in Contents, NEW new \in Contents, NEW there \in Contents
    PROVE  LET rec == [flag |-> "xbzrle", data |-> XbzrleEncode(old, new)] IN
           LoadPage(rec, old) = new /\ LoadPage(rec, there) \in Contents
<1> DEFINE delta == XbzrleEncode(old, new)
           rec == [flag |-> "xbzrle", data |-> delta]
<1>1. /\ DOMAIN delta = {j \in 1 .. Width : old[j] # new[j]}
      /\ \A i \in DOMAIN delta : delta[i] = new[i]
  BY DEF XbzrleEncode
<1> HIDE DEF delta
<1>2. \A x : LoadPage(rec, x) = XbzrleDecode(delta, x)
  BY DEF LoadPage
<1>3. XbzrleDecode(delta, old) = new
  BY <1>1 DEF XbzrleDecode, Contents
<1>4. XbzrleDecode(delta, there) \in Contents
  BY <1>1 DEF XbzrleDecode, Contents
<1> QED BY <1>2, <1>3, <1>4 DEF delta

\* A record goes to the page in hand.
LEMMA PutFacts ==
    ASSUME TypeOK, Control, SameBlock, InHand, NEW flag, NEW data, Put(flag, data),
           NEW page \in Contents,
           LoadPage([flag |-> flag, data |-> data], dst.ram[Here]) = page
    PROVE  /\ dst' \in [ram : [RamPages -> Contents], block : BlockIds \cup {NoBlock},
                        bad : BOOLEAN]
           /\ dst'.block = block /\ dst'.bad = dst.bad
           /\ dst'.ram = [dst.ram EXCEPT ![Here] = page]
<1> DEFINE b == IF block = last_sent_block THEN dst.block ELSE block
<1>1. b = block /\ b # NoBlock
  BY HereFacts DEF SameBlock
<1>2. Page(b, offset) = Here
  BY <1>1 DEF Here
<1>3. dst' = [dst EXCEPT !.block = block, !.ram[Here] = page]
  BY <1>1, <1>2 DEF Put
<1>4. dst \in [ram : [RamPages -> Contents], block : BlockIds \cup {NoBlock}, bad : BOOLEAN]
  BY DEF TypeOK
<1> QED BY <1>3, <1>4, HereFacts

-----------------------------------------------------------------------------
(* What is sent: one lemma for the five actions that put a record.         *)

\* The page that the destination has after a record: the one that was read,
\* unless the guest wrote it between the test for a page of one byte value and
\* the read of its first byte, or the difference is against a stale copy.
Sends(page) ==
    /\ InHand /\ Sent /\ page \in Contents
    /\ dst' \in [ram : [RamPages -> Contents], block : BlockIds \cup {NoBlock},
                 bad : BOOLEAN]
    /\ dst'.block = block /\ dst'.bad = dst.bad
    /\ dst'.ram = [dst.ram EXCEPT ![Here] = page]

SendStep == SendDup \/ SendNormal \/ SendMiss \/ SendDelta \/ SendOverflow

\* What the destination makes of a record: the page as it is in memory now, or one that
\* the guest has changed while it was being sent.
LEMMA SendFacts ==
    ASSUME TypeOK, Control, SameBlock, SendStep
    PROVE  \E page : /\ Sends(page)
                     /\ \/ page = ram[Here]
                        \/ pc = "dup" /\ page = [i \in 1 .. Width |-> ram[Here][1]]
                        \/ pc = "xbzrle" /\ Here \in DOMAIN cache /\ cache[Here] # dst.ram[Here]
                     /\ pc = "dup" /\ IsDupPage(ram[Here]) => page = ram[Here]
<1>1. CASE SendDup
  <2>1. pc = "dup" /\ InHand /\ Put("compress", ram[Here][1]) /\ Sent
    BY <1>1 DEF SendDup, InHand
  <2> DEFINE page == [i \in 1 .. Width |-> ram[Here][1]]
  <2>2. page \in Contents /\ (IsDupPage(ram[Here]) => page = ram[Here])
    BY <2>1, HereFacts, LoadFacts
  <2>3. LoadPage([flag |-> "compress", data |-> ram[Here][1]], dst.ram[Here]) = page
    BY <2>1, HereFacts, LoadFacts
  <2> HIDE DEF page
  <2>4. Sends(page)
    BY <2>1, <2>2, <2>3, PutFacts DEF Sends
  <2> QED BY <2>1, <2>2, <2>4 DEF page
<1>2. CASE SendNormal \/ SendMiss \/ SendOverflow
  <2>1. pc # "dup" /\ InHand /\ Put("page", ram[Here]) /\ Sent
    BY <1>2 DEF SendNormal, SendMiss, SendOverflow, InHand
  <2>2. LoadPage([flag |-> "page", data |-> ram[Here]], dst.ram[Here]) = ram[Here]
    BY <2>1, HereFacts, LoadFacts
  <2>3. Sends(ram[Here])
    BY <2>1, <2>2, HereFacts, PutFacts DEF Sends
  <2> QED BY <2>1, <2>3
<1>3. CASE SendDelta
  <2>1. /\ pc = "xbzrle" /\ InHand /\ Sent /\ Here \in DOMAIN cache
        /\ Put("xbzrle", XbzrleEncode(cache[Here], ram[Here]))
    BY <1>3 DEF SendDelta, InHand
  <2> DEFINE rec == [flag |-> "xbzrle", data |-> XbzrleEncode(cache[Here], ram[Here])]
             page == LoadPage(rec, dst.ram[Here])
  <2>2. cache[Here] \in Contents
    BY <2>1 DEF TypeOK
  <2>3. page \in Contents /\ LoadPage(rec, cache[Here]) = ram[Here]
    BY <2>1, <2>2, HereFacts, DeltaFacts
  <2>4. cache[Here] = dst.ram[Here] => page = ram[Here]
    BY <2>3
  <2> HIDE DEF page
  <2>5. Sends(page)
    BY <2>1, <2>3, PutFacts DEF Sends, page
  <2> QED BY <2>1, <2>4, <2>5
<1> QED BY <1>1, <1>2, <1>3 DEF SendStep

\* The cache afterwards: only a whole page or a difference changes it, to what
\* was read, and only for the page in hand and the pages of its slot.
LEMMA SendCache ==
    ASSUME TypeOK, Control, CacheUse, SendStep
    PROVE  /\ DOMAIN cache' \subseteq RamPages /\ cache' \in [DOMAIN cache' -> Contents]
           /\ \A p \in DOMAIN cache' :
                \/ p \in DOMAIN cache /\ cache'[p] = cache[p]
                \/ p = Here /\ cache'[p] = ram[Here] /\ pc \in {"xbzrle", "overflow"}
           /\ Here \in DOMAIN cache' =>
                \/ pc \notin {"xbzrle", "overflow"} /\ cache' = cache
                \/ LastStage
                \/ cache'[Here] = ram[Here] /\ pc \in {"xbzrle", "overflow"}
<1>0. InHand
  BY DEF SendStep, SendDup, SendNormal, SendMiss, SendDelta, SendOverflow, InHand
<1>h. Here \in RamPages /\ ram[Here] \in Contents
  BY <1>0, HereFacts
<1>c. DOMAIN cache \subseteq RamPages /\ cache \in [DOMAIN cache -> Contents]
  BY DEF TypeOK
<1>1. CASE SendDup \/ SendNormal
  <2>1. cache' = cache /\ pc \notin {"xbzrle", "overflow"}
    BY <1>1 DEF SendDup, SendNormal
  <2> QED BY <2>1, <1>c
<1>2. CASE SendMiss
  <2> DEFINE D == {r \in DOMAIN cache : CachePos(r, max_num_items) # CachePos(Here, max_num_items)}
                    \cup {Here}
  <2>1. pc = "xbzrle" /\ cache' = IF LastStage THEN cache ELSE CacheInsert(Here, ram[Here])
    BY <1>2 DEF SendMiss
  <2>2. CASE LastStage
    BY <2>1, <2>2, <1>c
  <2>3. CASE ~ LastStage
    <3>1. cache' = [p \in D |-> IF p = Here THEN ram[Here] ELSE cache[p]]
      BY <2>1, <2>3 DEF CacheInsert
    <3>2. D \subseteq DOMAIN cache \cup {Here} /\ Here \in D
      OBVIOUS
    <3> HIDE DEF D
    <3>3. DOMAIN cache' = D /\ \A p \in D : cache'[p] = IF p = Here THEN ram[Here] ELSE cache[p]
      BY <3>1
    <3>4. cache' \in [D -> Contents]
      BY <3>1, <3>2, <1>h, <1>c
    <3> QED BY <2>1, <3>2, <3>3, <3>4, <1>h, <1>c
  <2> QED BY <2>2, <2>3
<1>3. CASE SendDelta \/ SendOverflow
  <2>1. /\ pc \in {"xbzrle", "overflow"} /\ Here \in DOMAIN cache
        /\ (LastStage /\ cache' = cache) \/ cache' = [cache EXCEPT ![Here] = ram[Here]]
    BY <1>3 DEF SendDelta, SendOverflow, CacheUse
  <2> QED BY <2>1, <1>h, <1>c
<1> QED BY <1>1, <1>2, <1>3 DEF SendStep

-----------------------------------------------------------------------------
(* One lemma per part of the invariant; under it one step per action.      *)

\* The search of ram_save_block stays within the blocks, and so does what it
\* remembers for the next call.
LEMMA TypeStep == IInv /\ Next => TypeOK'
<1> SUFFICES ASSUME IInv, Next PROVE TypeOK'
  OBVIOUS
<1>0. TypeOK /\ DirtyCount /\ Control /\ SameBlock /\ CacheUse
  BY DEF IInv
<1>f. FreshDst \in [ram : [RamPages -> Contents], block : BlockIds \cup {NoBlock},
                    bad : BOOLEAN]
  BY RamAssumption DEF FreshDst, Blank, Contents
<1>n. NoCache \in [DOMAIN NoCache -> Contents] /\ DOMAIN NoCache = {}
  BY DEF NoCache
<1>1. ASSUME NEW p \in BlockPages, NEW c \in GuestWrites[xbzrle], GuestWrite(p, c)
      PROVE  TypeOK'
  <2>1. p \in RamPages /\ c \in Contents
    BY BlockFacts, RamAssumption, <1>0 DEF TypeOK
  <2>2. ram' \in [RamPages -> Contents] /\ log' \subseteq RamPages /\ writes' \in 0 .. MaxWrites
    BY <1>0, <1>1, <2>1, RamAssumption DEF GuestWrite, TypeOK
  <2> QED BY <1>0, <1>1, <2>2 DEF GuestWrite, TypeOK, bitmapVars, lastVars, cacheVars, localVars
<1>2. CASE ScanStop \/ ScanAdvance \/ ScanFound
  <2>1. ResetDirty(NextDirty) /\ pc = "scan" /\ block \in BlockIds /\ Migrating
    BY <1>0, <1>2 DEF ScanStop, ScanAdvance, ScanFound, Control, Migrating
  <2>2. migration_bitmap' \subseteq RamPages /\ migration_dirty_pages' \in Nat
    BY <1>0, <2>1, ResetDirtyFacts DEF TypeOK
  <2>3. NextDirty \in Nat
    BY <1>0, <2>1, NextDirtyFacts DEF TypeOK
  <2>4. block + 1 \in BlockIds \/ block = Len(Blocks)
    BY <2>1, BlockFacts DEF BlockIds
  <2>5. 1 \in BlockIds
    BY BlockFacts DEF BlockIds
  <2>6. CASE ScanStop
    BY <1>0, <2>1, <2>2, <2>3, <2>6
    DEF ScanStop, TypeOK, guestVars, cacheVars, localVars
  <2>7. CASE ScanAdvance
    <3>1. block' \in BlockIds /\ complete_round' \in BOOLEAN /\ offset' = 0
      BY <1>0, <2>4, <2>5, <2>7 DEF ScanAdvance, TypeOK
    <3> QED BY <1>0, <2>2, <2>7, <3>1 DEF ScanAdvance, TypeOK, guestVars, lastVars, cacheVars
  <2>8. CASE ScanFound
    BY <1>0, <2>1, <2>2, <2>3, <2>8
    DEF ScanFound, TypeOK, guestVars, lastVars, cacheVars, localVars
  <2> QED BY <1>2, <2>6, <2>7, <2>8
<1>3. CASE ChooseFormat \/ SkipUnmodified \/ DeltaOverflow
  BY <1>0, <1>3 DEF ChooseFormat, SkipUnmodified, DeltaOverflow, TypeOK, guestVars,
     bitmapVars, lastVars, cacheVars, localVars
<1>4. CASE SendStep
  <2>1. PICK page : Sends(page)
    BY <1>0, <1>4, SendFacts
  <2>2. DOMAIN cache' \subseteq RamPages /\ cache' \in [DOMAIN cache' -> Contents]
    BY <1>0, <1>4, SendCache
  <2> QED BY <1>0, <2>1, <2>2 DEF Sends, Sent, TypeOK, guestVars, bitmapVars, localVars
<1>5. CASE RamSaveSetup
  <2>1. Cardinality(RamPages) \in Nat
    BY RamPagesFinite, FS_CardinalityType
  <2> QED BY <1>0, <1>5, <1>f, <1>n, <2>1 DEF RamSaveSetup, ResetRamGlobals, TypeOK, localVars
<1>6. CASE RamSavePending \/ RamSaveComplete
  <2>1. MigrationBitmapSync /\ Migrating
    BY <1>6 DEF RamSavePending, RamSaveComplete, Migrating
  <2>2. migration_bitmap' \subseteq RamPages /\ migration_dirty_pages' \in Nat /\ log' = {}
    BY <1>0, <2>1, SyncFacts DEF TypeOK
  <2> QED BY <1>0, <1>6, <2>2 DEF RamSavePending, RamSaveComplete, TypeOK, lastVars,
             cacheVars, localVars
<1>7. CASE RamListChange \/ IterateEnd \/ IterateFail \/ RamSaveIterate
  <2>1. CASE RamListChange \/ IterateEnd \/ IterateFail
    BY <1>0, <2>1 DEF RamListChange, IterateEnd, IterateFail,
       TypeOK, guestVars, bitmapVars, lastVars, cacheVars, localVars
  <2>2. CASE RamSaveIterate
    <3>1. \/ last_seen_block' = NoBlock /\ last_offset' = 0 /\ last_sent_block' = NoBlock
             /\ version_changed' = FALSE
          \/ UNCHANGED <<last_seen_block, last_offset, last_sent_block, version_changed>>
      BY <2>2 DEF RamSaveIterate, ResetRamGlobals, lastVars
    <3>2. /\ last_seen_block' \in BlockIds \cup {NoBlock} /\ last_offset' \in Nat
          /\ last_sent_block' \in BlockIds \cup {NoBlock} /\ version_changed' \in BOOLEAN
      <4>1. CASE version_changed' = FALSE /\ last_seen_block' = NoBlock
                 /\ last_offset' = 0 /\ last_sent_block' = NoBlock
        BY <4>1
      <4>2. CASE UNCHANGED <<last_seen_block, last_offset, last_sent_block, version_changed>>
        BY <1>0, <4>2 DEF TypeOK
      <4> QED BY <3>1, <4>1, <4>2
    <3> QED BY <1>0, <2>2, <3>2 DEF RamSaveIterate, TypeOK, guestVars, bitmapVars,
               cacheVars, localVars
  <2> QED BY <1>7, <2>1, <2>2
<1>8. CASE StartBlock
  <2>1. 1 \in BlockIds
    BY BlockFacts DEF BlockIds
  <2> QED BY <1>0, <1>8, <2>1 DEF StartBlock, TypeOK, guestVars, bitmapVars, lastVars, cacheVars
<1>9. CASE CompleteEnd \/ RamMigrationCancel
  BY <1>0, <1>9, <1>n DEF CompleteEnd, RamMigrationCancel, MigrationEnd, TypeOK, guestVars,
     lastVars, localVars
<1>10. ASSUME NEW n \in CacheSizes, CacheResize(n)
       PROVE  TypeOK'
  <2>1. PICK kept \in SUBSET DOMAIN cache : cache' = [p \in kept |-> cache[p]]
    BY <1>10 DEF CacheResize
  <2>2. DOMAIN cache' = kept /\ cache' \in [kept -> Contents]
    BY <1>0, <2>1 DEF TypeOK
  <2> QED BY <1>0, <1>10, <2>2 DEF CacheResize, TypeOK, guestVars, bitmapVars, lastVars, localVars
<1> QED BY <1>1, <1>2, <1>3, <1>4, <1>5, <1>6, <1>7, <1>8, <1>9, <1>10
        DEF Next, SaveBlock, Handlers, SendStep

\* Every reset of a bit and every synchronisation keeps the count; between
\* migrations it is left alone and setup starts it again.
LEMMA CountStep == IInv /\ Next => DirtyCount'
<1> SUFFICES ASSUME IInv, Next PROVE DirtyCount'
  OBVIOUS
<1>0. TypeOK /\ DirtyCount /\ Control
  BY DEF IInv
<1>1. CASE ScanStop \/ ScanAdvance \/ ScanFound
  <2>1. ResetDirty(NextDirty) /\ pc = "scan" /\ block \in BlockIds /\ Migrating
    BY <1>0, <1>1 DEF ScanStop, ScanAdvance, ScanFound, Control, Migrating
  <2> QED BY <1>0, <2>1, ResetDirtyFacts DEF DirtyCount
<1>2. CASE RamSavePending \/ RamSaveComplete
  <2>1. MigrationBitmapSync /\ Migrating
    BY <1>2 DEF RamSavePending, RamSaveComplete, Migrating
  <2> QED BY <1>0, <2>1, SyncFacts DEF DirtyCount
<1>3. CASE RamSaveSetup
  BY <1>3 DEF RamSaveSetup, DirtyCount
<1>4. CASE CompleteEnd \/ RamMigrationCancel
  BY <1>4 DEF CompleteEnd, RamMigrationCancel, DirtyCount
<1>5. CASE /\ UNCHANGED <<migration_bitmap, migration_dirty_pages>>
           /\ Migrating' => Migrating
  BY <1>0, <1>5 DEF DirtyCount, Migrating
<1>6. ASSUME NEW p, NEW c, GuestWrite(p, c)
      PROVE  DirtyCount'
  BY <1>0, <1>6 DEF GuestWrite, DirtyCount, bitmapVars
<1>7. ASSUME NEW n, CacheResize(n)
      PROVE  DirtyCount'
  BY <1>0, <1>7 DEF CacheResize, DirtyCount, bitmapVars
<1>8. CASE ChooseFormat \/ SkipUnmodified \/ DeltaOverflow \/ SendStep
  BY <1>5, <1>8 DEF ChooseFormat, SkipUnmodified, DeltaOverflow, SendStep, SendDup, SendNormal,
     SendMiss, SendDelta, SendOverflow, Sent, bitmapVars, Migrating
<1>9. CASE RamListChange \/ RamSaveIterate \/ StartBlock \/ IterateEnd \/ IterateFail
  BY <1>5, <1>9 DEF RamListChange, RamSaveIterate, StartBlock, IterateEnd, IterateFail,
     bitmapVars, Migrating
<1> QED BY <1>1, <1>2, <1>3, <1>4, <1>6, <1>7, <1>8, <1>9
        DEF Next, SaveBlock, Handlers, SendStep

\* A record continues a block only where the destination is in that block.
LEMMA StreamStep == IInv /\ Next => StreamWellFormed' /\ SameBlock'
<1> SUFFICES ASSUME IInv, Next PROVE StreamWellFormed' /\ SameBlock'
  OBVIOUS
<1>0. TypeOK /\ Control /\ SameBlock /\ StreamWellFormed
  BY DEF IInv
<1>1. CASE SendStep
  <2>1. PICK page : Sends(page)
    BY <1>0, <1>1, SendFacts
  <2> QED BY <1>0, <2>1 DEF Sends, Sent, StreamWellFormed, SameBlock
<1>2. CASE RamSaveSetup
  BY <1>2 DEF RamSaveSetup, ResetRamGlobals, FreshDst, StreamWellFormed, SameBlock
<1>3. CASE /\ dst' = dst /\ (Migrating' => Migrating)
           /\ last_sent_block' \in {last_sent_block, NoBlock}
  BY <1>0, <1>3 DEF StreamWellFormed, SameBlock, Migrating
<1>4. ASSUME NEW p, NEW c, GuestWrite(p, c)
      PROVE  StreamWellFormed' /\ SameBlock'
  BY <1>3, <1>4 DEF GuestWrite, lastVars, Migrating
<1>5. ASSUME NEW n, CacheResize(n)
      PROVE  StreamWellFormed' /\ SameBlock'
  BY <1>3, <1>5 DEF CacheResize, lastVars, Migrating
<1>6. CASE ScanStop \/ ScanAdvance \/ ScanFound \/ ChooseFormat \/ SkipUnmodified \/ DeltaOverflow
  BY <1>3, <1>6 DEF ScanStop, ScanAdvance, ScanFound, ChooseFormat, SkipUnmodified,
     DeltaOverflow, lastVars, Migrating
<1>7. CASE RamListChange \/ RamSaveIterate \/ StartBlock \/ IterateEnd \/ IterateFail
  BY <1>3, <1>7 DEF RamListChange, RamSaveIterate, ResetRamGlobals, StartBlock, IterateEnd,
     IterateFail, lastVars, Migrating
<1>8. CASE RamSavePending \/ RamSaveComplete \/ CompleteEnd \/ RamMigrationCancel
  BY <1>3, <1>8 DEF RamSavePending, RamSaveComplete, CompleteEnd, RamMigrationCancel,
     lastVars, Migrating
<1> QED BY <1>1, <1>2, <1>4, <1>5, <1>6, <1>7, <1>8
        DEF Next, SaveBlock, Handlers, SendStep

\* The guest is stopped for the last stage, and ram_save_block is only where
\* its caller lets it be.
LEMMA ControlStep == IInv /\ Next => Control' /\ CacheUse' /\ DupInHand'
<1> SUFFICES ASSUME IInv, Next PROVE Control' /\ CacheUse' /\ DupInHand'
  OBVIOUS
<1>0. TypeOK /\ DirtyCount /\ Control /\ CacheUse /\ DupInHand
  BY DEF IInv
<1> DEFINE Parts == Control' /\ CacheUse' /\ DupInHand'
<1>1. ASSUME NEW p \in BlockPages, NEW c \in GuestWrites[xbzrle], GuestWrite(p, c)
      PROVE  Parts
  <2>1. /\ UNCHANGED <<running, phase, xbzrle, last_seen_block, last_offset, cache, pc,
                       block, offset>>
        /\ running /\ log' = log \cup {p} /\ ram' = [ram EXCEPT ![p] = c]
    BY <1>1 DEF GuestWrite, lastVars, cacheVars, localVars
  <2>2. Control' /\ CacheUse'
    BY <1>0, <1>1, <2>1 DEF GuestWrite, bitmapVars, Control, CacheUse, InHand, Migrating, Here
  <2>3. Here # p => ram'[Here] = ram[Here]
    BY <1>0, <2>1 DEF TypeOK
  <2>4. DupInHand'
    BY <1>0, <2>1, <2>3 DEF DupInHand, Here, IsDupPage
  <2> QED BY <2>2, <2>4
<1>2. CASE ScanStop \/ ScanAdvance \/ ScanFound
  <2>1. /\ pc = "scan" /\ block \in BlockIds /\ Migrating
        /\ UNCHANGED <<running, log, phase, xbzrle, cache, ram>>
    BY <1>0, <1>2 DEF ScanStop, ScanAdvance, ScanFound, Control, Migrating, guestVars, cacheVars
  <2>2. NextDirty \in Nat /\ NextDirty <= Length(block)
    BY <1>0, <2>1, NextDirtyFacts DEF TypeOK
  <2>3. (block + 1 \in BlockIds \/ block = Len(Blocks)) /\ 1 \in BlockIds
    BY <2>1, BlockFacts DEF BlockIds
  <2>4. CASE ScanStop
    BY <1>0, <2>1, <2>2, <2>4 DEF ScanStop, Control, CacheUse, DupInHand, InHand, Migrating
  <2>5. CASE ScanAdvance
    <3>1. block' \in BlockIds /\ pc' = "scan" /\ UNCHANGED <<last_seen_block, last_offset>>
      BY <2>1, <2>3, <2>5 DEF ScanAdvance, lastVars
    <3> QED BY <1>0, <2>1, <3>1 DEF Control, CacheUse, DupInHand, InHand, Migrating
  <2>6. CASE ScanFound
    <3>1. /\ pc' = "found" /\ offset' = NextDirty /\ NextDirty < Length(block)
          /\ ResetDirty(NextDirty) /\ UNCHANGED <<block, last_seen_block, last_offset>>
      BY <2>6 DEF ScanFound, lastVars
    <3>2. Page(block, NextDirty) \notin migration_bitmap'
      BY <1>0, <2>1, <3>1, ResetDirtyFacts
    <3> QED BY <1>0, <2>1, <3>1, <3>2
            DEF Control, CacheUse, DupInHand, InHand, Migrating, Here
  <2> QED BY <1>2, <2>4, <2>5, <2>6
<1>3. CASE ChooseFormat \/ SkipUnmodified \/ DeltaOverflow
  <2>1. /\ InHand /\ pc' \in {"dup", "normal", "xbzrle", "overflow", "scan"}
        /\ UNCHANGED <<running, log, phase, xbzrle, last_seen_block, last_offset, cache,
                       block, offset, ram, migration_bitmap>>
    BY <1>3 DEF ChooseFormat, SkipUnmodified, DeltaOverflow, InHand, guestVars, lastVars,
       cacheVars, localVars, bitmapVars
  <2>2. Control'
    BY <1>0, <2>1 DEF Control, InHand, Migrating, Here
  <2>3. CacheUse' /\ DupInHand'
    BY <1>0, <1>3, <2>1 DEF ChooseFormat, SkipUnmodified, DeltaOverflow, CacheUse, DupInHand, Here
  <2> QED BY <2>2, <2>3
<1>4. CASE SendStep
  <2>1. InHand /\ Sent
    BY <1>4 DEF SendStep, SendDup, SendNormal, SendMiss, SendDelta, SendOverflow, InHand
  <2>2. /\ pc' = "next" /\ last_seen_block' = block /\ last_offset' = offset
        /\ UNCHANGED <<running, log, phase, xbzrle, block, offset>>
    BY <2>1 DEF Sent, guestVars, localVars
  <2>3. Control'
    <3>1. Migrating /\ offset <= Length(block)
      BY <1>0, <2>1, HereFacts, BlockFacts
    <3> QED BY <1>0, <2>2, <3>1 DEF Control, InHand, Migrating
  <2>4. ~ xbzrle => DOMAIN cache' = {}
    BY <1>0, <1>4, SendCache DEF CacheUse
  <2> QED BY <2>2, <2>3, <2>4 DEF CacheUse, DupInHand
<1>5. CASE RamSaveSetup
  <2>1. pc = "handler"
    BY <1>0, <1>5 DEF RamSaveSetup, Control, Migrating
  <2> QED BY <1>0, <1>5, <2>1 DEF RamSaveSetup, ResetRamGlobals, NoCache, Control, CacheUse,
             DupInHand, InHand, Migrating
<1>6. CASE RamSavePending \/ RamSaveComplete
  <2>1. /\ pc' \in {"handler", "next"} /\ phase' \in {"active", "complete"} /\ log' = {}
        /\ phase' = "complete" => ~ running'
        /\ UNCHANGED <<xbzrle, last_seen_block, last_offset, cache>>
    BY <1>6 DEF RamSavePending, RamSaveComplete, MigrationBitmapSync, lastVars, cacheVars
  <2> QED BY <1>0, <2>1 DEF Control, CacheUse, DupInHand, InHand, Migrating
<1>7. CASE RamListChange \/ RamSaveIterate \/ IterateEnd \/ IterateFail
  <2>1. /\ pc' \in {"handler", "next"} /\ phase' \in {"active", "idle"}
        /\ pc' = "next" => phase' = "active"
        /\ UNCHANGED <<running, xbzrle, cache>>
    BY <1>7 DEF RamListChange, RamSaveIterate, IterateEnd, IterateFail, guestVars, cacheVars
  <2>2. \/ last_seen_block' = NoBlock
        \/ UNCHANGED <<last_seen_block, last_offset>>
    BY <1>7 DEF RamListChange, RamSaveIterate, ResetRamGlobals, IterateEnd, IterateFail, lastVars
  <2> QED BY <1>0, <2>1, <2>2 DEF Control, CacheUse, DupInHand, InHand, Migrating
<1>8. CASE StartBlock
  <2>1. 1 \in BlockIds
    BY BlockFacts DEF BlockIds
  <2>2. block' \in BlockIds
    BY <1>0, <1>8, <2>1 DEF StartBlock, TypeOK
  <2> QED BY <1>0, <1>8, <2>2 DEF StartBlock, Control, CacheUse, DupInHand, InHand, Migrating,
             guestVars, lastVars, cacheVars
<1>9. CASE CompleteEnd \/ RamMigrationCancel
  BY <1>0, <1>9 DEF CompleteEnd, RamMigrationCancel, MigrationEnd, NoCache, Control, CacheUse,
     DupInHand, InHand, Migrating, guestVars, lastVars, localVars
<1>10. ASSUME NEW n \in CacheSizes, CacheResize(n)
       PROVE  Parts
  <2>1. /\ pc = "handler" /\ xbzrle
        /\ UNCHANGED <<running, log, phase, xbzrle, last_seen_block, last_offset, pc>>
    BY <1>10 DEF CacheResize, guestVars, lastVars
  <2> QED BY <1>0, <2>1 DEF Control, CacheUse, DupInHand, InHand, Migrating
<1> QED BY <1>1, <1>2, <1>3, <1>4, <1>5, <1>6, <1>7, <1>8, <1>9, <1>10
        DEF Next, SaveBlock, Handlers, SendStep

\* What the search of ram_save_block has passed since its start is clean: no
\* bit is set while it runs, so the round ends only with a clean bitmap, and
\* the bit that the last call of migration_bitmap_find_and_reset_dirty clears
\* is never one of a page that is not sent.
LEMMA SweptStep == IInv /\ Next => Swept'
<1> SUFFICES ASSUME IInv, Next PROVE Swept'
  OBVIOUS
<1>0. TypeOK /\ Control /\ DirtyCount /\ Swept
  BY DEF IInv
<1>1. CASE ScanStop \/ ScanAdvance \/ ScanFound
  <2>1. ResetDirty(NextDirty) /\ pc = "scan" /\ block \in BlockIds /\ Migrating
    BY <1>0, <1>1 DEF ScanStop, ScanAdvance, ScanFound, Control, Migrating
  <2>2. migration_bitmap' \subseteq migration_bitmap
    BY <1>0, <2>1, ResetDirtyFacts
  <2>3. /\ NextDirty \in Nat /\ NextDirty <= Length(block) /\ offset \in Nat
        /\ NextDirty < Length(block) =>
             offset <= NextDirty /\ Page(block, NextDirty) \in migration_bitmap
        /\ \A o \in offset .. NextDirty - 1 : Page(block, o) \notin migration_bitmap
    BY <1>0, <2>1, NextDirtyFacts DEF TypeOK
  <2>4. /\ block \in Nat \ {0} /\ Len(Blocks) \in Nat /\ block <= Len(Blocks)
        /\ last_seen_block \in Nat /\ last_offset \in Nat /\ complete_round \in BOOLEAN
    BY <1>0, <2>1, BlockFacts DEF TypeOK, BlockIds, NoBlock
  <2>5. ASSUME last_seen_block # NoBlock, NEW b \in BlockIds, NEW o \in 0 .. Length(b) - 1,
               Passed(b, o) \/ (b = block /\ offset <= o /\ o < NextDirty)
        PROVE  Page(b, o) \notin migration_bitmap'
    BY <1>0, <2>1, <2>2, <2>3, <2>5 DEF Swept
  <2>6. last_seen_block # NoBlock => last_offset <= Length(last_seen_block)
    BY <1>0 DEF Control
  <2>7. ASSUME ScanFound \/ ScanAdvance, last_seen_block # NoBlock
        PROVE  /\ complete_round => block <= last_seen_block
               /\ ~ complete_round => ~ Before(block, offset, last_seen_block, last_offset)
    BY <1>0, <2>1, <2>7 DEF Swept
  <2>8. CASE ScanStop
    <3>1. complete_round /\ block = last_seen_block /\ NextDirty >= last_offset
      BY <2>8 DEF ScanStop, RoundOver
    <3>2. last_seen_block # NoBlock /\ pc' = "zero"
      BY <2>4, <2>8, <3>1 DEF NoBlock, ScanStop
    <3>3. ASSUME NEW b \in BlockIds, NEW o \in 0 .. Length(b) - 1
          PROVE  Page(b, o) \notin migration_bitmap'
      <4>1. b \in Nat /\ o \in Nat
        BY BlockFacts
      <4>2. Passed(b, o) \/ (b = block /\ offset <= o /\ o < NextDirty)
        BY <2>3, <2>4, <3>1, <4>1 DEF Passed, Before
      <4> QED BY <2>5, <3>2, <4>2
    <3>4. BlockPages \cap migration_bitmap' = {}
      BY <3>3 DEF BlockPages
    <3> QED BY <3>2, <3>4 DEF Swept, InHand
  <2>9. CASE ScanFound
    <3>1. /\ pc' = "found" /\ offset' = NextDirty /\ offset <= NextDirty
          /\ UNCHANGED <<block, complete_round, last_seen_block, last_offset>>
      BY <2>3, <2>9 DEF ScanFound, lastVars
    <3>2. ASSUME last_seen_block # NoBlock, NEW b \in BlockIds, NEW o \in 0 .. Length(b) - 1,
                 Passed(b, o)'
          PROVE  Page(b, o) \notin migration_bitmap'
      <4>1. b \in Nat /\ o \in Nat
        BY BlockFacts
      <4>2. Passed(b, o) \/ (b = block /\ offset <= o /\ o < NextDirty)
        BY <2>3, <2>4, <3>1, <3>2, <4>1 DEF Passed, Before
      <4> QED BY <2>5, <3>2, <4>2
    <3>3. ASSUME last_seen_block # NoBlock
          PROVE  /\ complete_round => block <= last_seen_block
                 /\ ~ complete_round => ~ Before(block, NextDirty, last_seen_block, last_offset)
      BY <2>3, <2>4, <2>7, <2>9, <3>1, <3>3 DEF Before
    <3> QED BY <3>1, <3>2, <3>3 DEF Swept, Before
  <2>10. CASE ScanAdvance
    <3>1. /\ pc' = "scan" /\ offset' = 0 /\ NextDirty = Length(block)
          /\ block' = IF block = Len(Blocks) THEN 1 ELSE block + 1
          /\ complete_round' = (complete_round \/ block = Len(Blocks))
          /\ UNCHANGED <<last_seen_block, last_offset>>
      BY <2>1, <2>3, <2>10, BlockFacts DEF ScanAdvance, lastVars
    <3>2. ASSUME last_seen_block # NoBlock
          PROVE  complete_round => block < last_seen_block
      <4>1. complete_round /\ block = last_seen_block => RoundOver(NextDirty)
        BY <2>3, <2>4, <2>6, <3>1, <3>2 DEF RoundOver
      <4>2. ~ RoundOver(NextDirty)
        BY <2>10 DEF ScanAdvance
      <4> QED BY <2>4, <2>7, <2>10, <3>2, <4>1, <4>2
    <3>3. last_seen_block <= Len(Blocks)
      BY <1>0, <2>4 DEF TypeOK, BlockIds, NoBlock
    <3>4. ASSUME last_seen_block # NoBlock
          PROVE  /\ complete_round' => block' <= last_seen_block
                 /\ ~ complete_round' => ~ Before(block', offset', last_seen_block, last_offset)
      <4>1. CASE complete_round
        <5>1. complete_round'
          BY <3>1, <4>1, Zenon
        <5>2. block' <= last_seen_block
          BY <2>4, <3>1, <3>2, <3>3, <3>4, <4>1
        <5> QED BY <5>1, <5>2
      <4>2. CASE ~ complete_round
        <5>1. ~ Before(block, offset, last_seen_block, last_offset)
          BY <2>7, <2>10, <3>4, <4>2
        <5>2. CASE block = Len(Blocks)
          <6>1. complete_round'
            BY <3>1, <5>2, Zenon
          <6>2. block' <= last_seen_block
            BY <2>4, <3>1, <3>4, <5>2 DEF NoBlock
          <6> QED BY <6>1, <6>2
        <5>3. CASE block # Len(Blocks)
          <6>1. ~ complete_round'
            BY <3>1, <4>2, <5>3, Zenon
          <6>2. ~ Before(block', offset', last_seen_block, last_offset)
            BY <2>3, <2>4, <3>1, <5>1, <5>3 DEF Before
          <6> QED BY <6>1, <6>2
        <5> QED BY <5>2, <5>3
      <4> QED BY <4>1, <4>2
    <3>5. ASSUME last_seen_block # NoBlock, NEW b \in BlockIds, NEW o \in 0 .. Length(b) - 1,
                 Passed(b, o)'
          PROVE  Page(b, o) \notin migration_bitmap'
      <4>1. b \in Nat \ {0} /\ o \in Nat /\ o < Length(b) /\ b <= Len(Blocks)
        BY BlockFacts DEF BlockIds
      <4>2. Passed(b, o) \/ (b = block /\ offset <= o /\ o < NextDirty)
        <5>1. CASE complete_round
          BY <2>3, <2>4, <3>1, <3>2, <3>3, <3>5, <4>1, <5>1 DEF Passed, Before
        <5>2. CASE ~ complete_round /\ block = Len(Blocks)
          <6>1. ~ Before(b, o, last_seen_block, last_offset)
            BY <2>4, <3>1, <3>5, <4>1, <5>2 DEF Passed, Before
          <6> QED BY <2>3, <2>4, <3>1, <4>1, <5>2, <6>1 DEF Passed, Before
        <5>3. CASE ~ complete_round /\ block # Len(Blocks)
          BY <2>3, <2>4, <3>1, <3>3, <3>5, <4>1, <5>3 DEF Passed, Before
        <5> QED BY <5>1, <5>2, <5>3
      <4> QED BY <2>5, <3>5, <4>2
    <3> QED BY <3>1, <3>4, <3>5 DEF Swept, InHand
  <2> QED BY <1>1, <2>8, <2>9, <2>10
<1>2. CASE /\ pc' \in {"handler", "next"}
  BY <1>2 DEF Swept, InHand
<1>3. CASE /\ (InHand \/ pc = "scan") /\ pc' # "zero"
           /\ UNCHANGED <<migration_bitmap, block, offset, complete_round, last_seen_block,
                          last_offset>>
  BY <1>0, <1>3 DEF Swept, Passed, Before
<1>4. ASSUME NEW p, NEW c, GuestWrite(p, c)
      PROVE  Swept'
  BY <1>0, <1>4 DEF GuestWrite, Swept, Passed, Before, InHand, bitmapVars, lastVars, localVars
<1>5. CASE ChooseFormat \/ SkipUnmodified \/ DeltaOverflow
  BY <1>3, <1>5 DEF ChooseFormat, SkipUnmodified, DeltaOverflow, InHand, bitmapVars, lastVars,
     localVars
<1>6. CASE SendStep
  BY <1>2, <1>6 DEF SendStep, SendDup, SendNormal, SendMiss, SendDelta, SendOverflow, Sent
<1>7. CASE StartBlock
  <2>1. last_seen_block \in Nat /\ last_offset \in Nat /\ \A b \in BlockIds : b \in Nat
    BY <1>0, BlockFacts DEF TypeOK, NoBlock
  <2>2. /\ pc' = "scan" /\ complete_round' = FALSE /\ offset' = last_offset
        /\ last_seen_block # NoBlock => block' = last_seen_block
        /\ UNCHANGED <<last_seen_block, last_offset>>
    BY <1>7 DEF StartBlock, lastVars
  <2>3. ASSUME last_seen_block # NoBlock, NEW b \in BlockIds, NEW o \in 0 .. Length(b) - 1
        PROVE  ~ Passed(b, o)'
    BY <2>1, <2>2, <2>3 DEF Passed, Before
  <2> QED BY <2>1, <2>2, <2>3 DEF Swept, Before
<1>8. CASE RamSaveSetup
  <2>1. pc = "handler"
    BY <1>0, <1>8 DEF RamSaveSetup, Control, Migrating
  <2> QED BY <1>2, <1>8, <2>1 DEF RamSaveSetup
<1>9. CASE RamSavePending \/ RamSaveComplete \/ RamListChange \/ RamSaveIterate \/ IterateEnd
           \/ IterateFail \/ CompleteEnd \/ RamMigrationCancel
  BY <1>2, <1>9 DEF RamSavePending, RamSaveComplete, RamListChange, RamSaveIterate, IterateEnd,
     IterateFail, CompleteEnd, RamMigrationCancel
<1>10. ASSUME NEW n, CacheResize(n)
       PROVE  Swept'
  BY <1>2, <1>10 DEF CacheResize
<1> QED BY <1>1, <1>4, <1>5, <1>6, <1>7, <1>8, <1>9, <1>10
        DEF Next, SaveBlock, Handlers, SendStep

\* The capability does not change, so the guest's promise does not either.
LEMMA PromiseKept == Next => xbzrle' = xbzrle
  BY DEF Next, SaveBlock, Handlers, GuestWrite, ScanStop, ScanAdvance, ScanFound, ChooseFormat,
     SendDup, SendNormal, SendMiss, SkipUnmodified, SendDelta, DeltaOverflow, SendOverflow, Sent,
     RamSaveSetup, RamSavePending, RamSaveIterate, StartBlock, IterateEnd, IterateFail,
     RamSaveComplete, CompleteEnd, RamMigrationCancel, RamListChange, CacheResize

\* The end of a round clears no bit.
LEMMA StopClean ==
    ASSUME TypeOK, Control, DirtyCount, Swept, ScanStop
    PROVE  migration_bitmap' = migration_bitmap
<1>1. ResetDirty(NextDirty) /\ pc = "scan" /\ block \in BlockIds /\ Migrating
  BY DEF ScanStop, Control, Migrating
<1>2. complete_round /\ block = last_seen_block /\ NextDirty >= last_offset
  BY DEF ScanStop, RoundOver
<1>3. /\ NextDirty \in Nat /\ Length(block) \in Nat /\ last_offset \in Nat
      /\ block \in Nat /\ block # NoBlock
      /\ NextDirty < Length(block) => Page(block, NextDirty) \in migration_bitmap
  BY <1>1, NextDirtyFacts, BlockFacts DEF TypeOK, NoBlock
<1>4. Passed(block, NextDirty)
  BY <1>2, <1>3 DEF Passed, Before
<1>5. ~ (NextDirty < Length(block))
  BY <1>1, <1>2, <1>3, <1>4 DEF Swept
<1> QED BY <1>1, <1>5, ResetDirtyFacts

Data == Variety /\ Coherent /\ NoPageForgotten /\ MemoryMigrated

\* A record makes the destination's page equal to the guest's, or the guest
\* has written it since and the log knows.
LEMMA DataSend ==
    ASSUME IInv, NoDupWrites, SendStep
    PROVE  Data'
<1>0. TypeOK /\ Control /\ SameBlock /\ CacheUse /\ DupInHand /\ Variety /\ Coherent
      /\ NoPageForgotten
  BY DEF IInv
<1>1. PICK page : /\ Sends(page)
                  /\ \/ page = ram[Here]
                     \/ pc = "dup" /\ page = [i \in 1 .. Width |-> ram[Here][1]]
                     \/ pc = "xbzrle" /\ Here \in DOMAIN cache /\ cache[Here] # dst.ram[Here]
                  /\ pc = "dup" /\ IsDupPage(ram[Here]) => page = ram[Here]
  BY <1>0, SendFacts
<1>2. /\ InHand /\ Sent /\ ~ InHand' /\ pc' = "next"
      /\ dst'.ram = [dst.ram EXCEPT ![Here] = page]
      /\ UNCHANGED <<ram, log, phase, migration_bitmap>>
  BY <1>1 DEF Sends, Sent, InHand, guestVars, bitmapVars
<1>3. /\ Migrating /\ Here \in BlockPages /\ Here \in RamPages /\ Here \notin migration_bitmap
      /\ dst.ram \in [RamPages -> Contents]
  BY <1>0, <1>2, HereFacts DEF Control, TypeOK
<1>4. /\ dst'.ram[Here] = page
      /\ \A p \in RamPages \ {Here} : dst'.ram[p] = dst.ram[p]
  BY <1>2, <1>3
<1>5. Here \in DOMAIN cache => cache[Here] = dst.ram[Here]
  BY <1>0, <1>2, <1>3 DEF Coherent
<1>6. page = ram[Here] \/ Here \in log
  BY <1>0, <1>1, <1>5 DEF DupInHand
<1>7. pc \in {"xbzrle", "overflow"} => page = ram[Here]
  BY <1>1, <1>5
<1>8. NoPageForgotten'
  <2> SUFFICES ASSUME NEW p \in BlockPages, dst'.ram[p] # ram[p]
               PROVE  p \in migration_bitmap \cup log
    BY <1>2 DEF NoPageForgotten
  <2>1. CASE p = Here
    BY <1>4, <1>6, <2>1
  <2>2. CASE p # Here
    BY <1>0, <1>3, <1>4, <2>2, BlockFacts DEF NoPageForgotten, Migrating
  <2> QED BY <2>1, <2>2
<1>c. \A p \in DOMAIN cache' :
        \/ p \in DOMAIN cache /\ cache'[p] = cache[p]
        \/ p = Here /\ cache'[p] = ram[Here] /\ pc \in {"xbzrle", "overflow"}
  BY <1>0, SendCache
<1>9. Variety'
  BY <1>0, <1>2, <1>c DEF Variety
<1>10. Coherent'
  <2> SUFFICES ASSUME NEW p \in DOMAIN cache'
               PROVE  cache'[p] = dst'.ram[p] \/ (LastStage /\ p \notin migration_bitmap)
    BY <1>2 DEF Coherent, LastStage
  <2>1. CASE p = Here
    <3>1. \/ pc \notin {"xbzrle", "overflow"} /\ cache' = cache
          \/ LastStage
          \/ cache'[Here] = ram[Here] /\ pc \in {"xbzrle", "overflow"}
      BY <1>0, <2>1, SendCache
    <3>2. pc \notin {"xbzrle", "overflow"} => Here \notin DOMAIN cache
      BY <1>0 DEF SendStep, SendDup, SendNormal, SendMiss, SendDelta, SendOverflow, Variety,
                  CacheUse
    <3> QED BY <1>3, <1>4, <1>7, <2>1, <3>1, <3>2
  <2>2. CASE p # Here
    <3>1. p \in DOMAIN cache /\ cache'[p] = cache[p] /\ p \in RamPages
      BY <1>0, <1>c, <2>2 DEF TypeOK
    <3> QED BY <1>0, <1>3, <1>4, <2>2, <3>1 DEF Coherent
  <2> QED BY <2>1, <2>2
<1>11. MemoryMigrated'
  BY <1>2, <1>3 DEF MemoryMigrated, Migrating
<1> QED BY <1>8, <1>9, <1>10, <1>11 DEF Data

\* The contents of the page cache and of the destination.
LEMMA DataStep == IInv /\ NoDupWrites /\ Next => Data'
<1> SUFFICES ASSUME IInv, NoDupWrites, Next PROVE Data'
  OBVIOUS
<1>0. /\ TypeOK /\ Control /\ DirtyCount /\ Swept /\ CacheUse
      /\ Variety /\ Coherent /\ NoPageForgotten /\ MemoryMigrated
  BY DEF IInv
<1>1. ASSUME NEW p \in BlockPages, NEW c \in GuestWrites[xbzrle], GuestWrite(p, c)
      PROVE  Data'
  <2>1. /\ running /\ ram' = [ram EXCEPT ![p] = c] /\ log' = log \cup {p}
        /\ UNCHANGED <<phase, xbzrle, migration_bitmap, cache, pc, block, offset, dst>>
    BY <1>1 DEF GuestWrite, bitmapVars, cacheVars, localVars
  <2>2. p \in RamPages /\ ram \in [RamPages -> Contents] /\ DOMAIN cache \subseteq RamPages
    BY <1>0, BlockFacts DEF TypeOK
  <2>3. ram'[p] = c /\ \A x \in RamPages \ {p} : ram'[x] = ram[x]
    BY <2>1, <2>2
  <2>4. xbzrle => ~ IsDupPage(ram'[p])
    BY <1>0, <2>3 DEF NoDupWrites, TypeOK
  <2>5. DOMAIN cache # {} => xbzrle
    BY <1>0 DEF CacheUse
  <2>6. ASSUME pc \in {"xbzrle", "overflow"}
        PROVE  ~ IsDupPage(ram'[Here])
    <3>1. xbzrle /\ Here \in RamPages /\ ~ IsDupPage(ram[Here])
      BY <1>0, <2>6, HereFacts DEF CacheUse, Variety, InHand
    <3> QED BY <2>3, <2>4, <3>1
  <2>7. \A x \in DOMAIN cache : ~ IsDupPage(ram'[x])
    BY <1>0, <2>2, <2>3, <2>4, <2>5 DEF Variety
  <2>8. Variety'
    BY <1>0, <2>1, <2>6, <2>7 DEF Variety, Here
  <2>9. Coherent'
    BY <1>0, <2>1 DEF Coherent, Migrating, LastStage, InHand, Here
  <2>10. NoPageForgotten'
    <3> SUFFICES ASSUME Migrating, NEW x \in BlockPages, dst.ram[x] # ram'[x]
                 PROVE  x \in migration_bitmap \cup log' \/ (InHand /\ x = Here)
      BY <2>1 DEF NoPageForgotten, Migrating, InHand, Here
    <3>1. x # p => ram'[x] = ram[x]
      BY <2>3, BlockFacts
    <3> QED BY <1>0, <2>1, <3>1 DEF NoPageForgotten, Migrating
  <2>11. MemoryMigrated'
    BY <1>0, <2>1 DEF MemoryMigrated, Control
  <2> QED BY <2>8, <2>9, <2>10, <2>11 DEF Data
<1>2. CASE ScanStop \/ ScanAdvance \/ ScanFound
  <2>1. /\ pc = "scan" /\ block \in BlockIds /\ Migrating /\ ResetDirty(NextDirty)
        /\ pc' \in {"zero", "scan", "found"} /\ UNCHANGED <<ram, log, phase, cache, dst>>
    BY <1>0, <1>2 DEF ScanStop, ScanAdvance, ScanFound, Control, Migrating, guestVars, cacheVars
  <2>2. migration_bitmap' \subseteq migration_bitmap
    BY <1>0, <2>1, ResetDirtyFacts
  <2>3. \/ migration_bitmap' = migration_bitmap /\ ~ InHand'
        \/ /\ ScanFound /\ Here' \in migration_bitmap
           /\ migration_bitmap' = migration_bitmap \ {Here'}
    <3>1. CASE ScanStop
      BY <1>0, <3>1, StopClean DEF ScanStop, InHand
    <3>2. CASE ScanAdvance
      <4>1. ~ (NextDirty < Length(block))
        BY <1>0, <2>1, <3>2, NextDirtyFacts, BlockFacts DEF ScanAdvance, TypeOK
      <4> QED BY <1>0, <2>1, <3>2, <4>1, ResetDirtyFacts DEF ScanAdvance, InHand
    <3>3. CASE ScanFound
      <4>1. NextDirty < Length(block) /\ Here' = Page(block, NextDirty)
        BY <3>3 DEF ScanFound, Here
      <4> QED BY <1>0, <2>1, <3>3, <4>1, ResetDirtyFacts, NextDirtyFacts DEF TypeOK
    <3> QED BY <1>2, <3>1, <3>2, <3>3
  <2>4. Variety'
    BY <1>0, <2>1 DEF Variety
  <2>5. Coherent'
    BY <1>0, <2>1, <2>2, <2>3 DEF Coherent, Migrating, LastStage
  <2>6. NoPageForgotten'
    <3> SUFFICES ASSUME NEW x \in BlockPages, dst.ram[x] # ram[x]
                 PROVE  x \in migration_bitmap' \cup log \/ (InHand' /\ x = Here')
      BY <2>1 DEF NoPageForgotten
    <3>1. x \in migration_bitmap \cup log
      BY <1>0, <2>1 DEF NoPageForgotten, Migrating, InHand
    <3>2. ScanFound => InHand'
      BY DEF ScanFound, InHand
    <3> QED BY <2>3, <3>1, <3>2
  <2>7. MemoryMigrated'
    BY <2>1 DEF MemoryMigrated, Migrating
  <2> QED BY <2>4, <2>5, <2>6, <2>7 DEF Data
<1>3. CASE ChooseFormat \/ SkipUnmodified \/ DeltaOverflow
  <2>1. /\ InHand /\ Migrating /\ Here' = Here
        /\ UNCHANGED <<ram, log, phase, migration_bitmap, cache, dst>>
    BY <1>0, <1>3, HereFacts DEF ChooseFormat, SkipUnmodified, DeltaOverflow, InHand, guestVars,
       bitmapVars, cacheVars, localVars, Here
  <2>2. InHand' \/ (~ InHand' /\ dst.ram[Here] = ram[Here])
    <3>1. SkipUnmodified => dst.ram[Here] = ram[Here] /\ ~ InHand'
      BY <1>0, <2>1 DEF SkipUnmodified, Coherent, InHand
    <3>2. ChooseFormat \/ DeltaOverflow => InHand'
      BY DEF ChooseFormat, DeltaOverflow, InHand
    <3> QED BY <1>3, <3>1, <3>2
  <2>3. Variety'
    BY <1>0, <1>3, <2>1 DEF ChooseFormat, SkipUnmodified, DeltaOverflow, Variety
  <2>4. Coherent'
    BY <1>0, <2>1 DEF Coherent, Migrating, LastStage
  <2>5. NoPageForgotten'
    BY <1>0, <2>1, <2>2 DEF NoPageForgotten
  <2>6. MemoryMigrated'
    BY <2>1 DEF MemoryMigrated, Migrating
  <2> QED BY <2>3, <2>4, <2>5, <2>6 DEF Data
<1>4. CASE SendStep
  BY <1>4, DataSend
<1>5. CASE RamSaveSetup
  <2>1. pc = "handler"
    BY <1>0, <1>5 DEF RamSaveSetup, Control, Migrating
  <2>2. /\ pc' = "handler" /\ phase' = "active" /\ migration_bitmap' = RamPages
        /\ DOMAIN cache' = {}
    BY <1>5, <2>1 DEF RamSaveSetup, NoCache
  <2> QED BY <2>2, BlockFacts DEF Data, Variety, Coherent, NoPageForgotten, MemoryMigrated
<1>6. CASE RamSavePending \/ RamSaveComplete
  <2>1. /\ pc = "handler" /\ pc' \in {"handler", "next"} /\ phase = "active"
        /\ phase' \in {"active", "complete"} /\ migration_bitmap' = migration_bitmap \cup log
        /\ UNCHANGED <<ram, cache, dst>>
    BY <1>6 DEF RamSavePending, RamSaveComplete, MigrationBitmapSync, SyncedBitmap, cacheVars
  <2> QED BY <1>0, <2>1 DEF Data, Variety, Coherent, NoPageForgotten, MemoryMigrated, Migrating,
             LastStage, InHand
<1>7. CASE RamListChange \/ RamSaveIterate \/ IterateEnd \/ IterateFail \/ StartBlock
  <2>1. /\ pc \in {"handler", "next", "zero"} /\ pc' \in {"handler", "next", "scan"}
        /\ phase' = phase \/ phase' = "idle"
        /\ UNCHANGED <<ram, log, migration_bitmap, cache, dst>>
    BY <1>7 DEF RamListChange, RamSaveIterate, IterateEnd, IterateFail, StartBlock, guestVars,
       bitmapVars, cacheVars
  <2> QED BY <1>0, <2>1 DEF Data, Variety, Coherent, NoPageForgotten, MemoryMigrated, Migrating,
             LastStage, InHand
<1>8. CASE CompleteEnd
  <2>1. /\ phase = "complete" /\ phase' = "done" /\ pc = "zero" /\ pc' = "handler"
        /\ DOMAIN cache' = {} /\ UNCHANGED <<ram, dst>>
    BY <1>8 DEF CompleteEnd, MigrationEnd, NoCache, guestVars
  <2>2. \A p \in BlockPages : dst.ram[p] = ram[p]
    BY <1>0, <2>1 DEF NoPageForgotten, Swept, Control, InHand
  <2> QED BY <2>1, <2>2 DEF Data, Variety, Coherent, NoPageForgotten, MemoryMigrated, Migrating
<1>9. CASE RamMigrationCancel
  BY <1>9 DEF RamMigrationCancel, MigrationEnd, NoCache, Data, Variety, Coherent,
     NoPageForgotten, MemoryMigrated, Migrating
<1>10. ASSUME NEW n \in CacheSizes, CacheResize(n)
       PROVE  Data'
  <2>1. PICK kept \in SUBSET DOMAIN cache : cache' = [p \in kept |-> cache[p]]
    BY <1>10 DEF CacheResize
  <2>2. DOMAIN cache' \subseteq DOMAIN cache /\ \A p \in DOMAIN cache' : cache'[p] = cache[p]
    BY <2>1
  <2>3. /\ pc = "handler" /\ phase \in {"idle", "active"}
        /\ UNCHANGED <<ram, log, phase, migration_bitmap, pc, dst>>
    BY <1>10 DEF CacheResize, guestVars, bitmapVars
  <2> QED BY <1>0, <2>2, <2>3 DEF Data, Variety, Coherent, NoPageForgotten, MemoryMigrated,
             Migrating, LastStage, InHand
<1> QED BY <1>1, <1>2, <1>3, <1>4, <1>5, <1>6, <1>7, <1>8, <1>9, <1>10
        DEF Next, SaveBlock, Handlers, SendStep

-----------------------------------------------------------------------------
(* The theorems.                                                           *)

\* The invariant holds before the first attempt.
LEMMA InitIInv == Init => IInv
<1> SUFFICES ASSUME Init PROVE IInv
  OBVIOUS
<1>0. Blank \in Contents /\ MaxWrites \in Nat
  BY RamAssumption DEF Blank, Contents
<1>1. FreshDst \in [ram : [RamPages -> Contents], block : BlockIds \cup {NoBlock},
                    bad : BOOLEAN]
  BY <1>0 DEF FreshDst
<1>2. NoCache \in [DOMAIN NoCache -> Contents] /\ DOMAIN NoCache = {}
  BY DEF NoCache
<1>3. TypeOK
  <2>1. DOMAIN cache \subseteq RamPages /\ cache \in [DOMAIN cache -> Contents]
    BY <1>2 DEF Init
  <2>2. ram \in [RamPages -> Contents] /\ writes \in 0 .. MaxWrites
    BY <1>0 DEF Init
  <2>3. /\ dst \in [ram : [RamPages -> Contents], block : BlockIds \cup {NoBlock}, bad : BOOLEAN]
        /\ log \subseteq RamPages /\ migration_bitmap \subseteq RamPages
    BY <1>1 DEF Init
  <2>4. /\ migration_dirty_pages \in Nat /\ last_offset \in Nat /\ offset \in Nat
        /\ last_seen_block \in BlockIds \cup {NoBlock} /\ block \in BlockIds \cup {NoBlock}
        /\ last_sent_block \in BlockIds \cup {NoBlock}
    BY DEF Init
  <2>5. /\ running \in BOOLEAN /\ version_changed \in BOOLEAN /\ complete_round \in BOOLEAN
        /\ xbzrle \in BOOLEAN
    BY DEF Init
  <2>6. phase = "idle" /\ pc = "handler" /\ max_num_items \in CacheSizes
    BY DEF Init
  <2> QED BY <2>1, <2>2, <2>3, <2>4, <2>5, <2>6 DEF TypeOK
<1>4. DirtyCount /\ StreamWellFormed /\ Control /\ SameBlock /\ Swept /\ DupInHand
  BY DEF Init, DirtyCount, StreamWellFormed, Control, SameBlock, Swept, DupInHand, Migrating,
     InHand, FreshDst
<1>5. CacheUse
  BY <1>2 DEF Init, CacheUse
<1>6. Data
  BY <1>2 DEF Init, Data, Variety, Coherent, NoPageForgotten, MemoryMigrated, Migrating
<1> QED BY <1>3, <1>4, <1>5, <1>6 DEF IInv, Data

\* Nothing that the invariant speaks of changes in a stuttering step.
LEMMA StutterIInv == IInv /\ UNCHANGED vars => IInv'
<1> SUFFICES ASSUME IInv, UNCHANGED vars PROVE IInv'
  OBVIOUS
<1>1. /\ UNCHANGED <<ram, log, running, writes, phase, xbzrle, migration_bitmap>>
      /\ UNCHANGED <<migration_dirty_pages, last_seen_block, last_offset, last_sent_block>>
      /\ UNCHANGED <<version_changed, cache, max_num_items, pc, block, offset>>
      /\ UNCHANGED <<complete_round, dst>>
  BY DEF vars, guestVars, bitmapVars, lastVars, cacheVars, localVars
<1>2. TypeOK' /\ DirtyCount' /\ StreamWellFormed'
  BY <1>1 DEF IInv, TypeOK, DirtyCount, StreamWellFormed
<1>3. Control' /\ SameBlock' /\ CacheUse' /\ DupInHand'
  BY <1>1 DEF IInv, Control, SameBlock, CacheUse, DupInHand, Migrating, InHand, Here
<1>4. Swept'
  BY <1>1 DEF IInv, Swept, Passed, InHand
<1>5. NoDupWrites' = NoDupWrites
  BY <1>1 DEF NoDupWrites
<1>6. Variety' = Variety /\ Coherent' = Coherent
  BY <1>1 DEF Variety, Coherent, Migrating, LastStage, InHand, Here
<1>7. NoPageForgotten' = NoPageForgotten /\ MemoryMigrated' = MemoryMigrated
  BY <1>1 DEF NoPageForgotten, MemoryMigrated, InHand, Here
<1> QED BY <1>2, <1>3, <1>4, <1>5, <1>6, <1>7 DEF IInv

\* The inductive invariant holds, whatever the guest writes and wherever its
\* writes fall.
THEOREM Invariance == Spec => []IInv
<1>1. IInv /\ Next => IInv'
  <2> SUFFICES ASSUME IInv, Next PROVE IInv'
    OBVIOUS
  <2>1. TypeOK' /\ DirtyCount' /\ StreamWellFormed' /\ Control' /\ SameBlock' /\ Swept'
          /\ CacheUse' /\ DupInHand'
    BY TypeStep, CountStep, StreamStep, ControlStep, SweptStep
  <2>2. NoDupWrites' => NoDupWrites
    BY PromiseKept DEF NoDupWrites
  <2>3. NoDupWrites => Data'
    BY DataStep
  <2> QED BY <2>1, <2>2, <2>3 DEF IInv, Data
<1> QED BY <1>1, InitIInv, StutterIInv, PTL DEF Spec

\* ram_save_block and the handlers stay within the blocks of the guest's memory,
\* and the count of dirty pages never wraps.
THEOREM TypeCorrect == Spec => []TypeOK
<1>1. IInv => TypeOK
  BY DEF IInv
<1> QED BY <1>1, Invariance, PTL

\* migration_dirty_pages is the number of bits in the bitmap.
THEOREM DirtyCountExact == Spec => []DirtyCount
<1>1. IInv => DirtyCount
  BY DEF IInv
<1> QED BY <1>1, Invariance, PTL

\* Every record that continues a block continues the one the destination is in,
\* after a cancelled or failed attempt too.
THEOREM StreamSound == Spec => []StreamWellFormed
<1>1. IInv => StreamWellFormed
  BY DEF IInv
<1> QED BY <1>1, Invariance, PTL

\* No page is forgotten, whatever the guest writes and when, if XBZRLE is off
\* or the guest writes no page of one byte value (without that it is false:
\* such a page is sent and the cache keeps the old one).
THEOREM NothingForgotten == Spec => [](NoDupWrites => NoPageForgotten)
<1>1. IInv => (NoDupWrites => NoPageForgotten)
  BY DEF IInv
<1> QED BY <1>1, Invariance, PTL

\* Under the same condition the page cache is the destination's memory for as
\* long as it is used for differences, through replacement, overflow and resize.
THEOREM CacheIsDestination == Spec => [](NoDupWrites => CacheCoherent)
<1>1. IInv => (NoDupWrites => CacheCoherent)
  BY DEF IInv, Coherent, CacheCoherent, Migrating, LastStage
<1> QED BY <1>1, Invariance, PTL

\* Under the same condition the destination has the guest's memory when
\* ram_save_complete returns: no dirty page escapes its search.
THEOREM MigrationCorrect == Spec => [](NoDupWrites => MemoryMigrated)
<1>1. IInv => (NoDupWrites => MemoryMigrated)
  BY DEF IInv
<1> QED BY <1>1, Invariance, PTL
=============================================================================
