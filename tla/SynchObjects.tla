---------------------------- MODULE SynchObjects ----------------------------
(***************************************************************************)
(* Threads that use a semaphore (module Semaphore), and a lock with its    *)
(* condition variable (module Synch), in any order but one call at a time. *)
(***************************************************************************)
EXTENDS Semaphore, Synch

allvars == <<vars, lvars>>

OneCall == \A t \in Thread : pc'[t] = "out" \/ where'[t] = "out"

ObjectsNext ==
    \/ Next /\ UNCHANGED lvars /\ OneCall
    \/ LNext /\ UNCHANGED vars /\ OneCall

(* A thread in P that is not asleep gets to run, and gets the spinlock. *)
ObjectsSpec ==
    /\ Init /\ LInit
    /\ [][ObjectsNext]_allvars
    /\ \A t \in Thread : WF_allvars(P(t) /\ UNCHANGED lvars)
=============================================================================
