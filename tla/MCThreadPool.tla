---------------------------- MODULE MCThreadPool ----------------------------
(* Instances of ThreadPool for TLC.                                         *)
EXTENDS ThreadPool

\* Threads and elements are interchangeable (for invariants only).
Symmetry == Permutations(Threads) \cup Permutations(Reqs)
=============================================================================
