-------------------------------- MODULE Synch -------------------------------
(***************************************************************************)
(* Sleep locks and condition variables (kern/thread/synch.c) on top of     *)
(* wait channels (kern/thread/thread.c): one lock, one condition variable, *)
(* and threads that use them the way the kernel does, which is to hold the *)
(* lock when they wait, signal or broadcast.                               *)
(*                                                                         *)
(* lock_acquire and lock_release hold the spinlock lk_lock from the first  *)
(* statement to the last or until they sleep, and are one step for each    *)
(* such stretch.  cv_wait holds cv_wchanlock while it calls lock_release,  *)
(* and threads act in between: cv_wchanlock is a variable.                 *)
(***************************************************************************)
EXTENDS KernelThreads, Naturals, Sequences, SequencesExt

CONSTANT NULL

VARIABLES
    lk_holder,     \* the thread that holds the lock, or NULL
    lk_wchan,      \* the threads asleep in lock_acquire
    cv_wchan,      \* the threads asleep in cv_wait
    cv_wchanlock,  \* the thread that holds this spinlock, or NULL
    where,         \* what each thread does
    status         \* "ok", or "panic" when a KASSERT has failed

lvars == <<lk_holder, lk_wchan, cv_wchan, cv_wchanlock, where, status>>

(* "out": not using the lock.  "acquire": in lock_acquire, awake.          *)
(* "lock_sleep": asleep in it.  "in": holds the lock.  "cv_wait": holds    *)
(* cv_wchanlock, about to release the lock.  "released": has released it,  *)
(* about to sleep.  "cv_sleep": asleep in cv_wait.  "cv_woken": awake,     *)
(* about to take cv_wchanlock back and release it.                         *)
Location == {"out", "acquire", "lock_sleep", "in", "cv_wait", "released",
             "cv_sleep", "cv_woken"}

Goto(t, label) == where' = [where EXCEPT ![t] = label]

(* wchan_wakeone: the first sleeper is taken off the channel and made      *)
(* runnable; "label" is where it goes on, "pcs" are the other moves.       *)
Woken(pcs, wchan, label) ==
    IF wchan = <<>> THEN pcs ELSE [pcs EXCEPT ![Head(wchan)] = label]

wchan_wakeone(wchan) == IF wchan = <<>> THEN wchan ELSE Tail(wchan)
-----------------------------------------------------------------------------
call_acquire(t) ==
    /\ status = "ok"
    /\ where[t] = "out"
    /\ Goto(t, "acquire")
    /\ UNCHANGED <<lk_holder, lk_wchan, cv_wchan, cv_wchanlock, status>>

(* One round of the loop in lock_acquire. *)
lock_acquire(t) ==
    /\ status = "ok"
    /\ where[t] = "acquire"
    /\ IF lk_holder = t
         THEN /\ status' = "panic"
              /\ UNCHANGED <<lk_holder, lk_wchan, where>>
         ELSE /\ IF lk_holder = NULL
                   THEN /\ lk_holder' = t
                        /\ Goto(t, "in")
                        /\ UNCHANGED lk_wchan
                   ELSE /\ lk_wchan' = Append(lk_wchan, t)
                        /\ Goto(t, "lock_sleep")
                        /\ UNCHANGED lk_holder
              /\ UNCHANGED status
    /\ UNCHANGED <<cv_wchan, cv_wchanlock>>

(* Mutant: nobody is woken. *)
LockRelease_silent(t, from, to) ==
    /\ status = "ok"
    /\ where[t] = from
    /\ lk_holder' = NULL
    /\ Goto(t, to)
    /\ UNCHANGED <<lk_wchan, cv_wchan, cv_wchanlock, status>>

(* lock_release, called at "from", continues at "to". *)
LockRelease(t, from, to) ==
    /\ status = "ok"
    /\ where[t] = from
    /\ IF lk_holder = t
         THEN /\ lk_holder' = NULL
              /\ lk_wchan' = wchan_wakeone(lk_wchan)
              /\ where' = Woken([where EXCEPT ![t] = to], lk_wchan, "acquire")
              /\ UNCHANGED status
         ELSE /\ status' = "panic"
              /\ UNCHANGED <<lk_holder, lk_wchan, where>>
    /\ UNCHANGED <<cv_wchan, cv_wchanlock>>

lock_release(t) == LockRelease(t, "in", "out")

(* Mutant: cv_wait does not take cv_wchanlock before it gives up the lock. *)
cv_wait_unlocked(t) ==
    /\ status = "ok"
    /\ where[t] = "in"
    /\ Goto(t, "cv_wait")
    /\ UNCHANGED <<lk_holder, lk_wchan, cv_wchan, cv_wchanlock, status>>

(* cv_wait takes cv_wchanlock, ... *)
cv_wait(t) ==
    /\ status = "ok"
    /\ where[t] = "in"
    /\ cv_wchanlock = NULL
    /\ cv_wchanlock' = t
    /\ Goto(t, "cv_wait")
    /\ UNCHANGED <<lk_holder, lk_wchan, cv_wchan, status>>

(* ... gives up the lock, ... *)
cv_wait_release(t) == LockRelease(t, "cv_wait", "released")

(* ... goes to sleep, which releases cv_wchanlock once the thread is on    *)
(* the channel, ...                                                        *)
cv_wait_sleep(t) ==
    /\ status = "ok"
    /\ where[t] = "released"
    /\ cv_wchan' = Append(cv_wchan, t)
    /\ cv_wchanlock' = NULL
    /\ Goto(t, "cv_sleep")
    /\ UNCHANGED <<lk_holder, lk_wchan, status>>

(* ... and when it has been woken takes cv_wchanlock for a moment before   *)
(* it asks for the lock again.                                             *)
cv_wait_return(t) ==
    /\ status = "ok"
    /\ where[t] = "cv_woken"
    /\ cv_wchanlock = NULL
    /\ Goto(t, "acquire")
    /\ UNCHANGED <<lk_holder, lk_wchan, cv_wchan, cv_wchanlock, status>>

cv_signal(t) ==
    /\ status = "ok"
    /\ where[t] = "in"
    /\ cv_wchanlock = NULL
    /\ cv_wchan' = wchan_wakeone(cv_wchan)
    /\ where' = Woken(where, cv_wchan, "cv_woken")
    /\ UNCHANGED <<lk_holder, lk_wchan, cv_wchanlock, status>>

cv_broadcast(t) ==
    /\ status = "ok"
    /\ where[t] = "in"
    /\ cv_wchanlock = NULL
    /\ cv_wchan' = <<>>
    /\ where' = [u \in Thread |-> IF u \in Range(cv_wchan) THEN "cv_woken" ELSE where[u]]
    /\ UNCHANGED <<lk_holder, lk_wchan, cv_wchanlock, status>>

LInit ==
    /\ lk_holder = NULL
    /\ lk_wchan = <<>>
    /\ cv_wchan = <<>>
    /\ cv_wchanlock = NULL
    /\ where = [t \in Thread |-> "out"]
    /\ status = "ok"

LNext == \E t \in Thread :
    \/ call_acquire(t) \/ lock_acquire(t) \/ lock_release(t)
    \/ cv_wait(t) \/ cv_wait_release(t) \/ cv_wait_sleep(t) \/ cv_wait_return(t)
    \/ cv_signal(t) \/ cv_broadcast(t)

LSpec == LInit /\ [][LNext]_lvars
-----------------------------------------------------------------------------
LTypeOK ==
    /\ lk_holder \in Thread \union {NULL}
    /\ lk_wchan \in Seq(Thread)
    /\ cv_wchan \in Seq(Thread)
    /\ cv_wchanlock \in Thread \union {NULL}
    /\ where \in [Thread -> Location]
    /\ status \in {"ok", "panic"}

(* No wakeup of the lock is lost: when it is free and threads sleep in     *)
(* lock_acquire, a thread is on its way to take it.                        *)
LockNotForgotten ==
    lk_holder = NULL /\ lk_wchan # <<>> => \E t \in Thread : where[t] = "acquire"

(* The channel w holds the threads of S, once each. *)
Lists(w, S) ==
    /\ \A t \in Thread : t \in S <=> \E k \in 1 .. Len(w) : w[k] = t
    /\ \A j, k \in 1 .. Len(w) : w[j] = w[k] => j = k

LockSleepers == {t \in Thread : where[t] = "lock_sleep"}
CvSleepers == {t \in Thread : where[t] = "cv_sleep"}

(* A thread is on a wait channel exactly while it sleeps there in          *)
(* lock_acquire or cv_wait, and only once.                                 *)
ChannelsExact == Lists(lk_wchan, LockSleepers) /\ Lists(cv_wchan, CvSleepers)

(* A thread that has given up the lock in cv_wait counts as waiting from   *)
(* that moment on, although it reaches the channel only later: nobody can  *)
(* signal in between, because it still holds cv_wchanlock.                 *)
Waiting ==
    IF cv_wchanlock # NULL /\ where[cv_wchanlock] = "released"
      THEN Append(cv_wchan, cv_wchanlock) ELSE cv_wchan

Monitor == INSTANCE Mesa WITH None <- NULL, owner <- lk_holder,
                              queue <- Waiting

(* The implementation gives its users the atomic wait of Mesa. *)
RefinesMesa == Monitor!MSpec
=============================================================================
