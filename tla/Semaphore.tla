----------------------------- MODULE Semaphore ------------------------------
(***************************************************************************)
(* The semaphore of kern/thread/synch.c over its wait channel.  A stretch  *)
(* under sem_lock is one step.                                             *)
(***************************************************************************)
EXTENDS KernelThreads, Integers, Sequences, FiniteSets

CONSTANTS
    initial_count,
    MaxCount         \* V is not called beyond this: sem_count is unsigned

ASSUME CountAssumption == initial_count \in Nat /\ MaxCount \in Nat
ASSUME ThreadAssumption == IsFiniteSet(Thread)

VARIABLES
    sem_count,
    sem_wchan,   \* the sleeping threads
    pc           \* "out", "P" (called), "asleep" or "woken" (from the sleep in P)

vars == <<sem_count, sem_wchan, pc>>

Init ==
    /\ sem_count = initial_count
    /\ sem_wchan = <<>>
    /\ pc = [t \in Thread |-> "out"]

call_P(t) ==
    /\ pc[t] = "out"
    /\ pc' = [pc EXCEPT ![t] = "P"]
    /\ UNCHANGED <<sem_count, sem_wchan>>

(* One turn of the loop, or what follows it. *)
P(t) ==
    /\ pc[t] \in {"P", "woken"}
    /\ IF sem_count = 0
         THEN /\ sem_wchan' = Append(sem_wchan, t)
              /\ pc' = [pc EXCEPT ![t] = "asleep"]
              /\ UNCHANGED sem_count
         ELSE /\ sem_count' = sem_count - 1
              /\ pc' = [pc EXCEPT ![t] = "out"]
              /\ UNCHANGED sem_wchan

(* A waiter is woken only when the count was zero. *)
V_first ==
    /\ sem_count < MaxCount
    /\ sem_count' = sem_count + 1
    /\ IF sem_wchan = <<>> \/ sem_count > 0 THEN UNCHANGED <<sem_wchan, pc>>
         ELSE /\ sem_wchan' = Tail(sem_wchan)
              /\ pc' = [pc EXCEPT ![Head(sem_wchan)] = "woken"]

(* V, by a thread or an interrupt handler. *)
V ==
    /\ sem_count < MaxCount
    /\ sem_count' = sem_count + 1
    /\ IF sem_wchan = <<>> THEN UNCHANGED <<sem_wchan, pc>>
         ELSE /\ sem_wchan' = Tail(sem_wchan)
              /\ pc' = [pc EXCEPT ![Head(sem_wchan)] = "woken"]

Next == V \/ \E t \in Thread : call_P(t) \/ P(t)

Spec == Init /\ [][Next]_vars

-----------------------------------------------------------------------------
TypeOK ==
    /\ sem_count \in Nat
    /\ sem_wchan \in Seq(Thread)
    /\ pc \in [Thread -> {"out", "P", "asleep", "woken"}]

(* The wait channel holds exactly the threads that sleep in P, once each. *)
ChannelExact ==
    /\ \A t \in Thread : pc[t] = "asleep" <=> \E k \in 1 .. Len(sem_wchan) : sem_wchan[k] = t
    /\ \A j, k \in 1 .. Len(sem_wchan) : sem_wchan[j] = sem_wchan[k] => j = k

Awake == {t \in Thread : pc[t] = "woken"}

(* No wakeup is lost: while a thread sleeps in P, every unit of the count  *)
(* is matched by a thread that V has woken and that has not tried again.   *)
(* The woken thread competes with callers of P that did not sleep, which   *)
(* may take the unit first and send it back to sleep.                      *)
NoLostWakeup == sem_wchan # <<>> => sem_count <= Cardinality(Awake)

(* P and V are the atomic operations of CountingSemaphore. *)
Counting == INSTANCE CountingSemaphore
    WITH value <- sem_count, waiting <- {t \in Thread : pc[t] # "out"},
         Initial <- initial_count

RefinesCounting == Counting!CSpec

(* And with their fairness: a thread is not kept in P while the count is   *)
(* positive from some point on.                                            *)
RefinesFairCounting == Counting!CFairSpec
=============================================================================
