----------------------------- MODULE AioRequest -----------------------------
(***************************************************************************)
(* What the block layer may rely on when it hands a function to the thread *)
(* pool (include/block/thread-pool.h): the function of a request runs at   *)
(* most once, its callback, if it has one, is called exactly once, after   *)
(* the function and with the function's result, and a request that was     *)
(* cancelled before it ran neither runs nor calls back.                    *)
(***************************************************************************)
CONSTANTS Reqs, Results, Garbage

VARIABLES
    phase,    \* phase[r]: where request r is in its life
    result,   \* result[r]: what the function returned
    wanted    \* wanted[r]: the submitter gave a callback

vars == <<phase, result, wanted>>

Init ==
    /\ phase = [r \in Reqs |-> "idle"]
    /\ result = [r \in Reqs |-> Garbage]
    /\ wanted = [r \in Reqs |-> FALSE]

Move(r, from, to) ==
    /\ phase[r] = from
    /\ phase' = [phase EXCEPT ![r] = to]

Submit(r) ==
    /\ Move(r, "idle", "submitted")
    /\ \E w \in BOOLEAN : wanted' = [wanted EXCEPT ![r] = w]
    /\ UNCHANGED result

Start(r) == Move(r, "submitted", "running") /\ UNCHANGED <<result, wanted>>

Finish(r) ==
    /\ Move(r, "running", "finished")
    /\ \E v \in Results : result' = [result EXCEPT ![r] = v]
    /\ UNCHANGED wanted

Cancel(r) == Move(r, "submitted", "cancelled") /\ UNCHANGED <<result, wanted>>

\* The callback is called with result[r].
Deliver(r) ==
    /\ wanted[r]
    /\ Move(r, "finished", "callback")
    /\ UNCHANGED <<result, wanted>>

Release(r) ==
    /\ \/ Move(r, "callback", "idle")
       \/ Move(r, "cancelled", "idle")
       \/ ~ wanted[r] /\ Move(r, "finished", "idle")
    /\ result' = [result EXCEPT ![r] = Garbage]
    /\ wanted' = [wanted EXCEPT ![r] = FALSE]

Next ==
    \E r \in Reqs :
        \/ Submit(r) \/ Start(r) \/ Finish(r) \/ Cancel(r)
        \/ Deliver(r) \/ Release(r)

Spec == Init /\ [][Next]_vars
=============================================================================
