------------------------------ MODULE MCQcow2 ------------------------------
(* Two adjacent guest clusters, the first one shared with a snapshot.      *)
EXTENDS Qcow2, TLC

CONSTANTS r1, r2

MCRequests == {r1, r2}
MCShared == {1}
MCGuests == {1, 2}
MCHosts == 1 .. 6

\* The refcount cache has one entry.
MCRbPick(st) == 0

Symmetry == Permutations(Requests)
=============================================================================
