------------------------------ MODULE MCMirror ------------------------------
(* Four chunks in two target clusters and two words of the dirty bitmap.   *)
EXTENDS Mirror

Setup(alloc, cow, onSource, onTarget) ==
    [alloc |-> alloc, cow |-> cow, onSource |-> onSource, onTarget |-> onTarget]

\* Every error policy; with and without copies of whole clusters.
MCSetups ==
    {Setup(alloc, cow, p, p) : alloc \in {{1, 2}, {0, 1, 3}}, cow \in BOOLEAN, p \in Policies}

\* A target that needs no copies of whole clusters, and errors that stop.
PlainSetups == {Setup({0, 3}, FALSE, "stop", "stop")}
=============================================================================
