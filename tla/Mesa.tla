-------------------------------- MODULE Mesa --------------------------------
(***************************************************************************)
(* What users of a sleep lock and a condition variable rely on: a lock     *)
(* that one thread holds, and a queue of threads that wait.  Waiting gives *)
(* the lock up and joins the queue in one step, so a thread that takes the *)
(* lock afterwards finds the waiter in the queue; a thread that has been   *)
(* signalled competes for the lock like any other.                         *)
(***************************************************************************)
EXTENDS Sequences

CONSTANTS Thread, None

VARIABLES
    owner,   \* the thread that holds the lock, or None
    queue    \* the threads waiting on the condition variable

mvars == <<owner, queue>>

MInit == owner = None /\ queue = <<>>

Acquire(t) == owner = None /\ owner' = t /\ UNCHANGED queue
Release(t) == owner = t /\ owner' = None /\ UNCHANGED queue
Wait(t) == owner = t /\ owner' = None /\ queue' = Append(queue, t)
Signal == queue # <<>> /\ queue' = Tail(queue) /\ UNCHANGED owner
Broadcast == queue' = <<>> /\ UNCHANGED owner

MNext ==
    \/ \E t \in Thread : Acquire(t) \/ Release(t) \/ Wait(t)
    \/ Signal \/ Broadcast

MSpec == MInit /\ [][MNext]_mvars
=============================================================================
