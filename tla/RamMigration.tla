---------------------------- MODULE RamMigration ----------------------------
(***************************************************************************)
(* Live migration of guest memory (the RAM part of arch_init.c and the     *)
(* XBZRLE page cache of page_cache.c).  The migration thread sends dirty   *)
(* pages while the guest runs and writes memory; in the last stage the     *)
(* guest is stopped and what is still dirty is sent.                       *)
(*                                                                         *)
(* The handlers hold the global mutex, so they do not interleave with each *)
(* other, with migrate_cancel or with migrate_set_cache_size; but a guest  *)
(* that runs under KVM writes memory at any time, so every read of a page  *)
(* is an action of its own.  The stream is reliable and ordered and the    *)
(* destination never answers: dst is the destination after it has loaded   *)
(* everything sent so far, and each record is loaded when it is put.       *)
(*                                                                         *)
(* A page is a short tuple of bytes: long enough to tell pages of one byte *)
(* value from others and to have deltas that change only some bytes.  The  *)
(* length of an encoding is abstracted: xbzrle_encode_buffer may overflow  *)
(* on any page that has changed.                                           *)
(***************************************************************************)
EXTENDS Integers, FiniteSets, Sequences, FiniteSetsExt

CONSTANTS
    Blocks,        \* Blocks[b] = <<first page, number of pages>> of RAMBlock b
    Bytes, Width,  \* a page has Width bytes
    Zero,          \* the byte memory is filled with at first
    GuestWrites,   \* GuestWrites[x]: contents the guest writes, x: is XBZRLE on?
    CacheSizes,    \* sizes of the page cache, in pages (powers of two)
    MaxWrites      \* bound: writes of the guest

VARIABLES
    ram, log,              \* guest memory; its dirty log (DIRTY_MEMORY_MIGRATION)
    running, writes,       \* the guest runs; how often it has written
    phase,                 \* "idle", "active", "complete" (last stage), "done"
    xbzrle,                \* the capability
    migration_bitmap, migration_dirty_pages,
    last_seen_block, last_offset, last_sent_block,
    version_changed,       \* ram_list.version # last_version
    cache, max_num_items,  \* cached pages and their data; the cache's size
    pc, block, offset,     \* ram_save_block: where it is, and its locals
    complete_round,
    dst                    \* the destination

guestVars == <<ram, log, running, writes>>
bitmapVars == <<migration_bitmap, migration_dirty_pages>>
lastVars == <<last_seen_block, last_offset, last_sent_block, version_changed>>
cacheVars == <<cache, max_num_items>>
localVars == <<block, offset, complete_round>>
vars == <<guestVars, phase, xbzrle, bitmapVars, lastVars, cacheVars, pc,
          localVars, dst>>

NoBlock == 0
BlockIds == 1 .. Len(Blocks)
Length(b) == Blocks[b][2]
Page(b, o) == Blocks[b][1] + o
BlockPages == UNION {{Page(b, o) : o \in 0 .. Length(b) - 1} : b \in BlockIds}
\* last_ram_offset: the bitmap also covers holes between the blocks.
RamPages == UNION {0 .. Page(b, Length(b)) - 1 : b \in BlockIds}
Contents == [1 .. Width -> Bytes]
NoCache == [p \in {} |-> Zero]

ASSUME RamAssumption ==
    /\ Blocks \in Seq(Nat \X (Nat \ {0})) /\ Blocks # <<>>
    /\ \A b, c \in BlockIds : \A o \in 0 .. Length(b) - 1, q \in 0 .. Length(c) - 1 :
        Page(b, o) = Page(c, q) => b = c
    /\ Zero \in Bytes /\ Width \in Nat \ {0} /\ MaxWrites \in Nat
    /\ GuestWrites \in [BOOLEAN -> SUBSET Contents]
    /\ CacheSizes \subseteq Nat \ {0} /\ CacheSizes # {}

Blank == [i \in 1 .. Width |-> Zero]
FreshDst == [ram |-> [p \in RamPages |-> Blank], block |-> NoBlock, bad |-> FALSE]
LastStage == phase = "complete"
Here == Page(block, offset)

\* A guest just started, no migration yet; the capability does not change.
Init ==
    /\ ram = [p \in RamPages |-> Blank] /\ log = {}
    /\ running = TRUE /\ writes = 0
    /\ phase = "idle" /\ xbzrle \in BOOLEAN
    /\ migration_bitmap = {} /\ migration_dirty_pages = 0
    /\ last_seen_block = NoBlock /\ last_offset = 0 /\ last_sent_block = NoBlock
    /\ version_changed = FALSE
    /\ cache = NoCache /\ max_num_items \in CacheSizes
    /\ pc = "handler"
    /\ block = NoBlock /\ offset = 0 /\ complete_round = FALSE
    /\ dst = FreshDst

-----------------------------------------------------------------------------
(* The guest.                                                              *)

\* The guest writes a page, maybe what it already holds; the log notes it.
GuestWrite(p, c) ==
    /\ running /\ writes < MaxWrites
    /\ ram' = [ram EXCEPT ![p] = c]
    /\ log' = log \cup {p}
    /\ writes' = writes + 1
    /\ UNCHANGED <<running, phase, xbzrle, bitmapVars, lastVars, cacheVars, pc,
                   localVars, dst>>

-----------------------------------------------------------------------------
(* The page cache: page_cache.c.                                           *)

\* cache_get_cache_pos
CachePos(p, n) == p % n

\* cache_insert: whatever was in the slot of the page is overwritten.
CacheInsert(p, data) ==
    [q \in {r \in DOMAIN cache : CachePos(r, max_num_items) # CachePos(p, max_num_items)}
            \cup {p} |-> IF q = p THEN data ELSE cache[q]]

\* migrate_set_cache_size, before or during migration: cache_resize moves the pages, and of
\* those that now share a slot one is kept (which one depends on their age).
CacheResize(n) ==
    /\ pc = "handler" /\ phase \in {"idle", "active"} /\ xbzrle
    /\ n # max_num_items /\ max_num_items' = n
    /\ \E kept \in SUBSET DOMAIN cache :
        /\ \A p \in DOMAIN cache :
            Cardinality({q \in kept : CachePos(q, n) = CachePos(p, n)}) = 1
        /\ cache' = [p \in kept |-> cache[p]]
    /\ UNCHANGED <<guestVars, phase, xbzrle, bitmapVars, lastVars, pc, localVars, dst>>

-----------------------------------------------------------------------------
(* The dirty bitmap.                                                       *)

\* Mutant of NewlyDirty: what test_and_set_bit returns is ignored.
NewlyDirtyOrNot == log

\* Pages whose bit migration_bitmap_set_dirty sets and counts.
NewlyDirty == log \ migration_bitmap

\* Mutant of SyncedBitmap: the bitmap is replaced.
SyncedBitmapReplaced == log

\* The log is added to the bitmap.
SyncedBitmap == migration_bitmap \cup log

\* migration_bitmap_sync
MigrationBitmapSync ==
    /\ migration_bitmap' = SyncedBitmap
    /\ migration_dirty_pages' = migration_dirty_pages + Cardinality(NewlyDirty)
    /\ log' = {}

\* find_next_bit, from the current offset to the end of the block.
NextDirty ==
    Min({o \in offset .. Length(block) - 1 : Page(block, o) \in migration_bitmap}
        \cup {Length(block)})

\* Mutant of ResetDirty: the count goes down whether a bit was found or not.
ResetDirtyAlways(o) ==
    /\ migration_bitmap' = migration_bitmap \ {Page(block, o)}
    /\ migration_dirty_pages' = migration_dirty_pages - 1

\* migration_bitmap_find_and_reset_dirty clears the bit it has found.
ResetDirty(o) ==
    \/ /\ o < Length(block)
       /\ migration_bitmap' = migration_bitmap \ {Page(block, o)}
       /\ migration_dirty_pages' = migration_dirty_pages - 1
    \/ /\ o >= Length(block)
       /\ UNCHANGED bitmapVars

-----------------------------------------------------------------------------
(* The stream and its destination.                                         *)

IsDupPage(c) == \A i \in 1 .. Width : c[i] = c[1]

\* xbzrle_encode_buffer: the bytes that differ.  xbzrle_decode_buffer puts them
\* into the page that is there and leaves the others alone.
XbzrleEncode(old, new) == [i \in {j \in 1 .. Width : old[j] # new[j]} |-> new[i]]
XbzrleDecode(delta, old) ==
    [i \in 1 .. Width |-> IF i \in DOMAIN delta THEN delta[i] ELSE old[i]]

\* What ram_load does with the payload of a record and the page it is for.
LoadPage(rec, old) ==
    CASE rec.flag = "compress" -> [i \in 1 .. Width |-> rec.data]
      [] rec.flag = "page" -> rec.data
      [] rec.flag = "xbzrle" -> XbzrleDecode(rec.data, old)

\* save_block_hdr names the block unless it continues the block of the record
\* before; host_from_stream_offset finds the page and refuses a record that
\* continues nothing.
Put(flag, data) ==
    LET b == IF block = last_sent_block THEN dst.block ELSE block
        p == Page(b, offset)
    IN  dst' = IF b = NoBlock THEN [dst EXCEPT !.bad = TRUE]
               ELSE [dst EXCEPT !.block = b,
                                !.ram[p] = LoadPage([flag |-> flag, data |-> data], @)]

-----------------------------------------------------------------------------
(* ram_save_block.                                                         *)

\* Mutant of RoundOver: only an offset met exactly ends the round.
RoundOverExactly(o) ==
    complete_round /\ block = last_seen_block /\ o = last_offset

\* The search is back where it started.
RoundOver(o) == complete_round /\ block = last_seen_block /\ o >= last_offset

\* Nothing dirty is left: zero is returned.
ScanStop ==
    /\ pc = "scan" /\ pc' = "zero"
    /\ RoundOver(NextDirty)
    /\ ResetDirty(NextDirty)
    /\ last_seen_block' = block /\ last_offset' = NextDirty
    /\ UNCHANGED <<guestVars, phase, xbzrle, last_sent_block, version_changed,
                   cacheVars, localVars, dst>>

\* Nothing dirty in the rest of this block: on to the next one.
ScanAdvance ==
    /\ pc = "scan"
    /\ ~ RoundOver(NextDirty) /\ NextDirty >= Length(block)
    /\ ResetDirty(NextDirty)
    /\ offset' = 0
    /\ block' = IF block = Len(Blocks) THEN 1 ELSE block + 1
    /\ complete_round' = (complete_round \/ block = Len(Blocks))
    /\ UNCHANGED <<guestVars, phase, xbzrle, lastVars, cacheVars, pc, dst>>

\* A dirty page: its bit is cleared before it is read.
ScanFound ==
    /\ pc = "scan" /\ pc' = "found"
    /\ ~ RoundOver(NextDirty) /\ NextDirty < Length(block)
    /\ ResetDirty(NextDirty)
    /\ offset' = NextDirty
    /\ UNCHANGED <<guestVars, phase, xbzrle, lastVars, cacheVars, block,
                   complete_round, dst>>

\* is_dup_page and migrate_use_xbzrle decide how the page is sent.
ChooseFormat ==
    /\ pc = "found"
    /\ pc' = IF IsDupPage(ram[Here]) THEN "dup"
             ELSE IF xbzrle THEN "xbzrle" ELSE "normal"
    /\ UNCHANGED <<guestVars, phase, xbzrle, bitmapVars, lastVars, cacheVars,
                   localVars, dst>>

\* A page has been sent: ram_save_block returns its size.
Sent ==
    /\ pc' = "next"
    /\ last_sent_block' = block /\ last_seen_block' = block
    /\ last_offset' = offset
    /\ UNCHANGED <<guestVars, phase, xbzrle, bitmapVars, version_changed,
                   max_num_items, localVars>>

\* RAM_SAVE_FLAG_COMPRESS: the first byte, read again; the cache is left alone.
SendDup ==
    /\ pc = "dup"
    /\ Put("compress", ram[Here][1])
    /\ Sent /\ UNCHANGED cache

\* RAM_SAVE_FLAG_PAGE, without XBZRLE.
SendNormal ==
    /\ pc = "normal"
    /\ Put("page", ram[Here])
    /\ Sent /\ UNCHANGED cache

\* save_xbzrle_page, page not cached: it is copied to the cache, and that copy
\* is sent; in the last stage the page itself is.
SendMiss ==
    /\ pc = "xbzrle" /\ Here \notin DOMAIN cache
    /\ cache' = IF LastStage THEN cache ELSE CacheInsert(Here, ram[Here])
    /\ Put("page", ram[Here])
    /\ Sent

\* save_xbzrle_page, page cached and unchanged: nothing is sent and the search
\* goes on.
SkipUnmodified ==
    /\ pc = "xbzrle" /\ pc' = "scan"
    /\ Here \in DOMAIN cache /\ ram[Here] = cache[Here]
    /\ UNCHANGED <<guestVars, phase, xbzrle, bitmapVars, lastVars, cacheVars,
                   localVars, dst>>

\* save_xbzrle_page, page cached: the difference is sent.
SendDelta ==
    /\ pc = "xbzrle"
    /\ Here \in DOMAIN cache /\ ram[Here] # cache[Here]
    /\ cache' = IF LastStage THEN cache ELSE [cache EXCEPT ![Here] = ram[Here]]
    /\ Put("xbzrle", XbzrleEncode(cache[Here], ram[Here]))
    /\ Sent

\* The difference is too long ...
DeltaOverflow ==
    /\ pc = "xbzrle" /\ pc' = "overflow"
    /\ Here \in DOMAIN cache /\ ram[Here] # cache[Here]
    /\ UNCHANGED <<guestVars, phase, xbzrle, bitmapVars, lastVars, cacheVars,
                   localVars, dst>>

\* Mutant of SendOverflow: the cache is not updated.
SendOverflowStale ==
    /\ pc = "overflow"
    /\ Put("page", ram[Here])
    /\ Sent /\ UNCHANGED cache

\* ... and the page, read again, is cached and sent as a whole.
SendOverflow ==
    /\ pc = "overflow"
    /\ cache' = [cache EXCEPT ![Here] = ram[Here]]
    /\ Put("page", ram[Here])
    /\ Sent

-----------------------------------------------------------------------------
(* The handlers.                                                           *)

\* Mutant of ResetRamGlobals: the last block sent is not forgotten.
ResetRamGlobalsPartly ==
    /\ last_seen_block' = NoBlock /\ last_offset' = 0 /\ UNCHANGED last_sent_block
    /\ version_changed' = FALSE

\* reset_ram_globals
ResetRamGlobals ==
    /\ last_seen_block' = NoBlock /\ last_offset' = 0 /\ last_sent_block' = NoBlock
    /\ version_changed' = FALSE

\* migration_end: bitmap and cache are freed.
MigrationEnd ==
    /\ migration_bitmap' = {}
    /\ cache' = NoCache
    /\ UNCHANGED <<migration_dirty_pages, max_num_items>>

\* ram_save_setup, towards a new destination.  Every page is dirty.
RamSaveSetup ==
    /\ phase = "idle" /\ phase' = "active"
    /\ migration_bitmap' = RamPages
    /\ migration_dirty_pages' = Cardinality(RamPages)
    /\ log' = {}
    /\ ResetRamGlobals
    /\ cache' = NoCache
    /\ dst' = FreshDst
    /\ UNCHANGED <<ram, running, writes, xbzrle, max_num_items, pc, localVars>>

\* ram_save_pending: with little left to send the bitmap is synchronised.
RamSavePending ==
    /\ pc = "handler" /\ phase = "active"
    /\ MigrationBitmapSync
    /\ UNCHANGED <<ram, running, writes, phase, xbzrle, lastVars, cacheVars, pc,
                   localVars, dst>>

\* A memory block came and went (a device was plugged and unplugged): the list
\* is as before, its version is not.
RamListChange ==
    /\ pc = "handler" /\ phase = "active"
    /\ ~ version_changed /\ version_changed' = TRUE
    /\ UNCHANGED <<guestVars, phase, xbzrle, bitmapVars, last_seen_block,
                   last_offset, last_sent_block, cacheVars, pc, localVars, dst>>

\* With memory left to send ram_save_iterate begins.
RamSaveIterate ==
    /\ pc = "handler" /\ pc' = "next"
    /\ phase = "active" /\ migration_dirty_pages > 0
    /\ \/ version_changed /\ ResetRamGlobals
       \/ ~ version_changed /\ UNCHANGED lastVars
    /\ UNCHANGED <<guestVars, phase, xbzrle, bitmapVars, cacheVars, localVars, dst>>

\* ram_save_block is called: it starts where it stopped the last time, or at the
\* first block.
StartBlock ==
    /\ pc = "next" /\ pc' = "scan"
    /\ block' = IF last_seen_block = NoBlock THEN 1 ELSE last_seen_block
    /\ offset' = last_offset
    /\ complete_round' = FALSE
    /\ UNCHANGED <<guestVars, phase, xbzrle, bitmapVars, lastVars, cacheVars, dst>>

\* ram_save_iterate returns: nothing left, rate limit or time limit reached.
IterateEnd ==
    /\ phase = "active"
    /\ pc \in {"next", "zero"} /\ pc' = "handler"
    /\ UNCHANGED <<guestVars, phase, xbzrle, bitmapVars, lastVars, cacheVars,
                   localVars, dst>>

\* qemu_file_rate_limit reports an error: the migration fails, and nobody calls
\* migration_end.
IterateFail ==
    /\ phase = "active" /\ phase' = "idle"
    /\ pc = "next" /\ pc' = "handler"
    /\ UNCHANGED <<guestVars, xbzrle, bitmapVars, lastVars, cacheVars, localVars, dst>>

\* Mutant of RamSaveComplete: the bitmap is not synchronised.
RamSaveCompleteUnsynced ==
    /\ pc = "handler" /\ pc' = "next"
    /\ phase = "active" /\ phase' = "complete"
    /\ running' = FALSE
    /\ UNCHANGED <<ram, log, writes, bitmapVars, xbzrle, lastVars, cacheVars,
                   localVars, dst>>

\* The guest is stopped and ram_save_complete begins with a last look at the log.
RamSaveComplete ==
    /\ pc = "handler" /\ pc' = "next"
    /\ phase = "active" /\ phase' = "complete"
    /\ running' = FALSE
    /\ MigrationBitmapSync
    /\ UNCHANGED <<ram, writes, xbzrle, lastVars, cacheVars, localVars, dst>>

\* ram_save_complete has sent everything.
CompleteEnd ==
    /\ phase = "complete" /\ phase' = "done"
    /\ pc = "zero" /\ pc' = "handler"
    /\ MigrationEnd
    /\ UNCHANGED <<guestVars, xbzrle, lastVars, localVars, dst>>

\* ram_migration_cancel
RamMigrationCancel ==
    /\ pc = "handler" /\ phase = "active" /\ phase' = "idle"
    /\ MigrationEnd
    /\ UNCHANGED <<guestVars, xbzrle, lastVars, pc, localVars, dst>>

SaveBlock ==
    \/ ScanStop \/ ScanAdvance \/ ScanFound \/ ChooseFormat
    \/ SendDup \/ SendNormal \/ SendMiss \/ SkipUnmodified \/ SendDelta
    \/ DeltaOverflow \/ SendOverflow

Handlers ==
    \/ RamSaveSetup \/ RamSavePending \/ RamSaveIterate \/ StartBlock
    \/ IterateEnd \/ IterateFail \/ RamSaveComplete \/ CompleteEnd
    \/ RamMigrationCancel
    \/ RamListChange
    \/ \E n \in CacheSizes : CacheResize(n)

Next ==
    \/ \E p \in BlockPages, c \in GuestWrites[xbzrle] : GuestWrite(p, c)
    \/ SaveBlock \/ Handlers

Spec == Init /\ [][Next]_vars

\* Fairness: ram_save_block runs; nothing else has to happen.
FairSpec == Spec /\ WF_vars(SaveBlock)

-----------------------------------------------------------------------------
(* Properties.                                                             *)

\* The types of the variables; the count of dirty pages does not wrap.
TypeOK ==
    /\ ram \in [RamPages -> Contents] /\ log \subseteq RamPages
    /\ running \in BOOLEAN /\ writes \in 0 .. MaxWrites
    /\ phase \in {"idle", "active", "complete", "done"} /\ xbzrle \in BOOLEAN
    /\ migration_bitmap \subseteq RamPages /\ migration_dirty_pages \in Nat
    /\ last_seen_block \in BlockIds \cup {NoBlock}
    /\ last_sent_block \in BlockIds \cup {NoBlock}
    /\ last_offset \in Nat /\ offset \in Nat /\ version_changed \in BOOLEAN
    /\ DOMAIN cache \subseteq RamPages /\ cache \in [DOMAIN cache -> Contents]
    /\ max_num_items \in CacheSizes
    /\ pc \in {"handler", "scan", "found", "dup", "normal", "xbzrle", "overflow",
               "next", "zero"}
    /\ block \in BlockIds \cup {NoBlock} /\ complete_round \in BOOLEAN
    /\ dst \in [ram : [RamPages -> Contents], block : BlockIds \cup {NoBlock},
                bad : BOOLEAN]

InHand == pc \in {"found", "dup", "normal", "xbzrle", "overflow"}

\* migration_dirty_pages, from which ram_save_pending computes what is left,
\* counts the bits of the bitmap through all searches and synchronisations.
DirtyCount ==
    phase \in {"active", "complete"} =>
        migration_dirty_pages = Cardinality(migration_bitmap)

\* A page the destination does not have as it is now will be sent again: it is
\* in the bitmap, in the log, or the page being sent; however the guest's
\* writes fall between the reset of its bit and the reads of its contents.
NoPageForgotten ==
    phase \in {"active", "complete"} =>
        \A p \in BlockPages :
            dst.ram[p] # ram[p] =>
                p \in migration_bitmap \cup log \/ (InHand /\ p = Here)

\* The cache holds what the destination has, so that a delta against the cache
\* is a delta against the destination ("in order to get the same data").
CacheCoherent ==
    phase = "active" => \A p \in DOMAIN cache : cache[p] = dst.ram[p]

\* When the migration is done the destination has the memory of the guest.
MemoryMigrated ==
    phase = "done" => \A p \in BlockPages : dst.ram[p] = ram[p]

\* No attempt, the first or one after a failure, sends a record that continues
\* a block the destination has not been told of.
StreamWellFormed == ~ dst.bad

Returned == pc \in {"next", "zero"}

\* The search of ram_save_block ends when it has a block to come back to, even
\* if every page it finds turns out to be unmodified.
SaveBlockReturns == (pc = "scan" /\ last_seen_block # NoBlock) ~> Returned

\* "Returns: The number of bytes written.  0 means no dirty pages": the search
\* of ram_save_block always ends.
SaveBlockAlwaysReturns == (pc = "scan") ~> Returned
=============================================================================
