------------------------- MODULE CountingSemaphore --------------------------
(***************************************************************************)
(* What users of a semaphore rely on: a P takes one unit when there is     *)
(* one, in one step, and a thread in P for which there are units from some *)
(* point on gets one.                                                      *)
(***************************************************************************)
EXTENDS Naturals

CONSTANTS Thread, Initial

VARIABLES
    value,
    waiting   \* the threads in P

cvars == <<value, waiting>>

CInit == value = Initial /\ waiting = {}

Arrive(t) == t \notin waiting /\ waiting' = waiting \cup {t} /\ UNCHANGED value
Take(t) ==
    /\ t \in waiting
    /\ value > 0
    /\ value' = value - 1
    /\ waiting' = waiting \ {t}
Give == value' = value + 1 /\ UNCHANGED waiting

CNext == Give \/ \E t \in Thread : Arrive(t) \/ Take(t)

CSpec == CInit /\ [][CNext]_cvars
CFairSpec == CSpec /\ \A t \in Thread : WF_cvars(Take(t))
=============================================================================
