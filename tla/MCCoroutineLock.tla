-------------------------- MODULE MCCoroutineLock --------------------------
(* Instance of CoroutineLock for TLC: requests and a job are not           *)
(* interchangeable and the runs check liveness, so there is no symmetry.   *)
EXTENDS CoroutineLock
=============================================================================
