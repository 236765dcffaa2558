--------------------------- MODULE MCRamMigration ---------------------------
(* Instances of RamMigration for TLC.                                       *)
EXTENDS RamMigration

\* Two blocks with a hole between them: pages 0 and 1, and page 3, which shares
\* a slot of a cache of two pages with page 1.
TwoBlocks == <<<<0, 2>>, <<3, 1>>>>
OneBlock == <<<<0, 2>>>>
NoHole == <<<<0, 2>>, <<2, 1>>>>

\* With XBZRLE the guest only writes pages that are not of one byte value;
\* without it also the page it started with.
TamePages ==
    [x \in BOOLEAN |-> IF x THEN {c \in Contents : ~ IsDupPage(c)}
                       ELSE {<<0, 0>>, <<1, 0>>}]
AnyPage == [x \in BOOLEAN |-> Contents]
=============================================================================
