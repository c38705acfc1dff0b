------------------------------ MODULE TwoLocks ------------------------------
(***************************************************************************)
(* asst1/twolocks.c: two threads that take two locks over and over.        *)
(***************************************************************************)
EXTENDS Naturals, Sequences, FiniteSets

CONSTANTS
    NUM_LOOPS,
    Nobody

Person == {"bill", "ben"}

VARIABLES
    holder,         \* of each of the two locks, a person or Nobody
    loops,          \* rounds each person has left
    step,           \* the statements of the round that are done
    signals,        \* the semaphore "finished"
    awaited         \* how often twolocks still waits on it

tvars == <<holder, loops, step, signals, awaited>>

TInit ==
    /\ holder = [k \in {"a", "b"} |-> Nobody]
    /\ loops = [p \in Person |-> NUM_LOOPS]
    /\ step = [p \in Person |-> 0]
    /\ signals = 0
    /\ awaited = 2

(* Ben takes the locks the other way round. *)
Order_opposite(p) == IF p = "ben" THEN <<"b", "a">> ELSE <<"a", "b">>

(* The order in which bill and ben take the locks. *)
Order(p) == <<"a", "b">>

take(p) ==
    LET k == Order(p)[step[p] + 1] IN
    /\ loops[p] > 0 /\ step[p] < 2
    /\ holder[k] = Nobody
    /\ holder' = [holder EXCEPT ![k] = p]
    /\ step' = [step EXCEPT ![p] = @ + 1]
    /\ UNCHANGED <<loops, signals, awaited>>

(* The lock taken last is released first; after the last round comes       *)
(* V(finished).                                                            *)
give(p) ==
    /\ step[p] \in {2, 3}
    /\ holder' = [holder EXCEPT ![Order(p)[4 - step[p]]] = Nobody]
    /\ step' = [step EXCEPT ![p] = (@ + 1) % 4]
    /\ loops' = [loops EXCEPT ![p] = IF step[p] = 3 THEN @ - 1 ELSE @]
    /\ UNCHANGED <<signals, awaited>>

say_bye(p) ==
    /\ loops[p] = 0 /\ step[p] = 0
    /\ step' = [step EXCEPT ![p] = 4]
    /\ signals' = signals + 1
    /\ UNCHANGED <<holder, loops, awaited>>

twolocks ==
    /\ signals > 0 /\ awaited > 0
    /\ signals' = signals - 1
    /\ awaited' = awaited - 1
    /\ UNCHANGED <<holder, loops, step>>

TNext == twolocks \/ \E p \in Person : take(p) \/ give(p) \/ say_bye(p)

TDone == awaited = 0
=============================================================================
