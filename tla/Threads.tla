------------------------------ MODULE Threads -------------------------------
(***************************************************************************)
(* Threads, run queues, sleeping and waking, and migration between CPUs    *)
(* (kern/thread/thread.c).  A stretch of code under a run queue lock is    *)
(* one step.  Migration takes the locks of the run queues one after the    *)
(* other and is several steps, all in a timer interrupt of its CPU, which  *)
(* may be idle at the time.                                                *)
(***************************************************************************)
EXTENDS Naturals, FiniteSets, SequencesExt

CONSTANTS
    NCPU,
    Thread,
    Boot     \* the thread each CPU boots with: a function on CPU

CPU == 1 .. NCPU

VARIABLES
    c_curthread,  \* the thread on whose stack each CPU runs, or idles
    c_isidle,     \* whether the CPU is in the idle loop of thread_switch
    c_runqueue,
    c_zombies,
    irq,          \* an idle CPU has got an interrupt: cpu_idle will return
    t_state,      \* "none", "new", "run", "ready", "sleep" or "zombie"
    t_cpu,        \* 1 for a thread that does not exist
    newthread,    \* the thread a thread in thread_fork creates, or itself
    wc_threads,   \* the threads on a wait channel
    mig,          \* where each CPU is in thread_consider_migration
    status

sched == <<c_curthread, c_isidle, c_runqueue, c_zombies, irq>>
vars == <<sched, t_state, t_cpu, newthread, wc_threads, mig, status>>

(* ph: what comes next.  i: the CPU to look at.  my, total: the counts.    *)
(* share, send: one_share and to_send.  victims: the threads to migrate.   *)
NoMigration == [ph |-> "none", i |-> 1, my |-> 0, total |-> 0,
                share |-> 0, send |-> 0, victims |-> <<>>]

(* The thread that runs on c can act; it is in thread_fork or not. *)
Acts(c) == status = "ok" /\ ~c_isidle[c] /\ mig[c].ph = "none"
InFork(c) == newthread[c_curthread[c]] # c_curthread[c]

(* The end of thread_switch with run queue rq: the next thread runs, and   *)
(* cleans up the zombies, or the CPU idles on the stack it has.            *)
Dispatch(c, rq, states, zombies) ==
    IF rq = <<>>
      THEN /\ c_isidle' = [c_isidle EXCEPT ![c] = TRUE]
           /\ c_runqueue' = [c_runqueue EXCEPT ![c] = rq]
           /\ c_zombies' = [c_zombies EXCEPT ![c] = zombies]
           /\ t_state' = states
           /\ UNCHANGED <<c_curthread, t_cpu, status>>
      ELSE /\ c_isidle' = [c_isidle EXCEPT ![c] = FALSE]
           /\ c_runqueue' = [c_runqueue EXCEPT ![c] = Tail(rq)]
           /\ c_curthread' = [c_curthread EXCEPT ![c] = Head(rq)]
           /\ c_zombies' = [c_zombies EXCEPT ![c] = <<>>]
           /\ t_state' = [t \in Thread |->
                CASE t \in Range(zombies) -> "none"
                  [] t = Head(rq) -> "run"
                  [] OTHER -> states[t]]
           /\ t_cpu' = [t \in Thread |->
                IF t \in Range(zombies) THEN 1 ELSE t_cpu[t]]
           /\ status' = IF Head(rq) \in Range(zombies) THEN "panic" ELSE status

(* No other CPU is interrupted. *)
thread_make_runnable_noipi(c, t, cpu) ==
    /\ c_runqueue' = [c_runqueue EXCEPT ![cpu] = Append(@, t)]
    /\ t_state' = [t_state EXCEPT ![t] = "ready"]
    /\ irq' = [irq EXCEPT ![c] = @ \/ c_isidle[c]]

(* thread_make_runnable of a thread of cpu, called on CPU c.  Another CPU  *)
(* that idles is sent an IPI; if c itself idles, this is an interrupt that *)
(* will unidle it.                                                         *)
thread_make_runnable(c, t, cpu) ==
    /\ c_runqueue' = [c_runqueue EXCEPT ![cpu] = Append(@, t)]
    /\ t_state' = [t_state EXCEPT ![t] = "ready"]
    /\ irq' = [d \in CPU |-> irq[d] \/ (c_isidle[d] /\ d \in {c, cpu})]
-----------------------------------------------------------------------------
(* The first half of thread_fork: the new thread gets the CPU its creator  *)
(* is on.  Threads that do not exist are all alike; one of them is taken.  *)
thread_fork(c) ==
    LET free == {t \in Thread : t_state[t] = "none"}
        t == CHOOSE u \in free : TRUE
    IN
    /\ Acts(c) /\ ~InFork(c)
    /\ free # {}
    /\ t_cpu' = [t_cpu EXCEPT ![t] = c]
    /\ t_state' = [t_state EXCEPT ![t] = "new"]
    /\ newthread' = [newthread EXCEPT ![c_curthread[c]] = t]
    /\ UNCHANGED <<sched, wc_threads, mig, status>>

(* The second half, after proc_addthread: the new thread is made runnable, *)
(* on the CPU it got, although its creator may be on another by now.       *)
thread_fork_end(c) ==
    LET cur == c_curthread[c]
        t == newthread[cur]
    IN
    /\ Acts(c) /\ InFork(c)
    /\ newthread' = [newthread EXCEPT ![cur] = cur]
    /\ thread_make_runnable(c, t, t_cpu[t])
    /\ UNCHANGED <<c_curthread, c_isidle, c_zombies, t_cpu, wc_threads, mig,
                   status>>

(* thread_yield, which the timer also calls.  With an empty run queue      *)
(* nothing happens.                                                        *)
thread_yield(c) ==
    LET cur == c_curthread[c] IN
    /\ Acts(c)
    /\ c_runqueue[c] # <<>>
    /\ Dispatch(c, Append(c_runqueue[c], cur), [t_state EXCEPT ![cur] = "ready"],
                c_zombies[c])
    /\ UNCHANGED <<irq, newthread, wc_threads, mig>>

wchan_sleep(c) ==
    LET cur == c_curthread[c] IN
    /\ Acts(c) /\ ~InFork(c)
    /\ wc_threads' = Append(wc_threads, cur)
    /\ Dispatch(c, c_runqueue[c], [t_state EXCEPT ![cur] = "sleep"], c_zombies[c])
    /\ UNCHANGED <<irq, newthread, mig>>

(* The first boot thread becomes the menu and does not exit. *)
thread_exit(c) ==
    LET cur == c_curthread[c] IN
    /\ Acts(c) /\ ~InFork(c)
    /\ cur # Boot[1]
    /\ Dispatch(c, c_runqueue[c], [t_state EXCEPT ![cur] = "zombie"],
                Append(c_zombies[c], cur))
    /\ UNCHANGED <<irq, newthread, wc_threads, mig>>

(* wchan_wakeone, by the thread that runs on c, or by an interrupt handler *)
(* there while c is idle.                                                  *)
wchan_wakeone(c) ==
    /\ status = "ok" /\ mig[c].ph = "none"
    /\ wc_threads # <<>>
    /\ wc_threads' = Tail(wc_threads)
    /\ thread_make_runnable(c, Head(wc_threads), t_cpu[Head(wc_threads)])
    /\ UNCHANGED <<c_curthread, c_isidle, c_zombies, t_cpu, newthread, mig,
                   status>>

(* cpu_idle returns after an interrupt, and the loop looks at the run      *)
(* queue again.                                                            *)
cpu_idle(c) ==
    /\ status = "ok"
    /\ c_isidle[c] /\ irq[c] /\ mig[c].ph = "none"
    /\ irq' = [irq EXCEPT ![c] = FALSE]
    /\ Dispatch(c, c_runqueue[c], t_state, c_zombies[c])
    /\ UNCHANGED <<newthread, wc_threads, mig>>
-----------------------------------------------------------------------------
(* The timer interrupt of c calls thread_consider_migration, which first   *)
(* counts the run queue of one CPU after the other.                        *)
count_threads(c) ==
    LET m == mig[c]
        n == Len(c_runqueue[m.i])
    IN
    /\ status = "ok"
    /\ m.ph \in {"none", "count"}
    /\ mig' = [mig EXCEPT ![c].total = @ + n,
                          ![c].my = IF m.i = c THEN n ELSE @,
                          ![c].i = IF m.i = NCPU THEN 1 ELSE m.i + 1,
                          ![c].ph = IF m.i = NCPU THEN "take" ELSE "count"]
    /\ UNCHANGED <<sched, t_state, t_cpu, newthread, wc_threads, status>>

(* After migration hardclock calls thread_yield. *)
Ending == [NoMigration EXCEPT !.ph = "yield"]

(* The share is computed, and the excess taken off the own run queue. *)
take_victims(c) ==
    LET m == mig[c]
        share == (m.total + NCPU - 1) \div NCPU
        send == m.my - share
        rq == c_runqueue[c]
    IN
    /\ status = "ok"
    /\ m.ph = "take"
    /\ IF m.my <= share
         THEN mig' = [mig EXCEPT ![c] = Ending] /\ UNCHANGED <<c_runqueue, status>>
         ELSE IF send > Len(rq)
         THEN status' = "panic" /\ UNCHANGED <<c_runqueue, mig>>
         ELSE /\ c_runqueue' = [c_runqueue EXCEPT ![c] =
                   SubSeq(rq, 1, Len(rq) - send)]
              /\ mig' = [mig EXCEPT ![c] =
                   [NoMigration EXCEPT !.ph = "move", !.share = share, !.send = send,
                      !.victims = SubSeq(rq, Len(rq) - send + 1, Len(rq))]]
              /\ UNCHANGED status
    /\ UNCHANGED <<c_curthread, c_isidle, c_zombies, irq, t_state, t_cpu,
                   newthread, wc_threads>>

(* The current thread is migrated like any other. *)
RECURSIVE Migrate_any(_, _, _)
Migrate_any(rq, m, cur) ==
    IF Len(rq) >= m.share \/ m.send = 0 THEN [rq |-> rq, m |-> m]
    ELSE Migrate_any(Append(rq, Head(m.victims)),
                     [m EXCEPT !.send = @ - 1, !.victims = Tail(@)], cur)

(* The inner loop for one CPU's run queue rq: victims go to its end while  *)
(* it has less than its share; the thread whose stack the migrating CPU is *)
(* on, cur, is skipped.                                                    *)
RECURSIVE Migrate(_, _, _)
Migrate(rq, m, cur) ==
    IF Len(rq) >= m.share \/ m.send = 0 THEN [rq |-> rq, m |-> m]
    ELSE LET t == Head(m.victims)
             rest == Tail(m.victims)
             next == [m EXCEPT !.send = @ - 1,
                        !.victims = IF t = cur THEN Append(rest, t) ELSE rest]
         IN Migrate(IF t = cur THEN rq ELSE Append(rq, t), next, cur)

move_victims(c) ==
    LET d == mig[c].i
        moved == IF d = c THEN [rq |-> c_runqueue[c], m |-> mig[c]]
                 ELSE Migrate(c_runqueue[d], mig[c], c_curthread[c])
        new == Range(moved.rq) \ Range(c_runqueue[d])
    IN
    /\ status = "ok"
    /\ mig[c].ph = "move"
    /\ c_runqueue' = [c_runqueue EXCEPT ![d] = moved.rq]
    /\ t_cpu' = [t \in Thread |-> IF t \in new THEN d ELSE t_cpu[t]]
    /\ irq' = [irq EXCEPT ![d] = @ \/ (new # {} /\ c_isidle[d])]
    /\ mig' = [mig EXCEPT ![c] =
         IF d = NCPU \/ moved.m.send = 0
           THEN [NoMigration EXCEPT !.ph = "rest", !.victims = moved.m.victims]
           ELSE [moved.m EXCEPT !.i = d + 1]]
    /\ UNCHANGED <<c_curthread, c_isidle, c_zombies, t_state, newthread,
                   wc_threads, status>>

(* The leftovers are dropped. *)
put_back_none(c) ==
    /\ status = "ok"
    /\ mig[c].ph = "rest"
    /\ mig' = [mig EXCEPT ![c] = Ending]
    /\ UNCHANGED <<sched, t_state, t_cpu, newthread, wc_threads, status>>

(* What is left goes back to the own run queue. *)
put_back(c) ==
    /\ status = "ok"
    /\ mig[c].ph = "rest"
    /\ c_runqueue' = [c_runqueue EXCEPT ![c] = @ \o mig[c].victims]
    /\ mig' = [mig EXCEPT ![c] = Ending]
    /\ UNCHANGED <<c_curthread, c_isidle, c_zombies, irq, t_state, t_cpu,
                   newthread, wc_threads, status>>

(* The end of hardclock: thread_yield, which does nothing on an idle CPU;  *)
(* there cpu_idle returns after the interrupt.                             *)
hardclock(c) ==
    LET cur == c_curthread[c] IN
    /\ status = "ok"
    /\ mig[c].ph = "yield"
    /\ mig' = [mig EXCEPT ![c] = NoMigration]
    /\ irq' = [irq EXCEPT ![c] = @ \/ c_isidle[c]]
    /\ IF c_isidle[c] \/ c_runqueue[c] = <<>>
         THEN UNCHANGED <<c_curthread, c_isidle, c_runqueue, c_zombies, t_state,
                          t_cpu, status>>
         ELSE Dispatch(c, Append(c_runqueue[c], cur),
                       [t_state EXCEPT ![cur] = "ready"], c_zombies[c])
    /\ UNCHANGED <<newthread, wc_threads>>

Init ==
    /\ c_curthread = Boot
    /\ c_isidle = [c \in CPU |-> FALSE]
    /\ c_runqueue = [c \in CPU |-> <<>>]
    /\ c_zombies = [c \in CPU |-> <<>>]
    /\ irq = [c \in CPU |-> FALSE]
    /\ t_state = [t \in Thread |-> IF t \in Range(Boot) THEN "run" ELSE "none"]
    /\ t_cpu = [t \in Thread |-> IF t \in Range(Boot)
                  THEN CHOOSE c \in CPU : Boot[c] = t ELSE 1]
    /\ newthread = [t \in Thread |-> t]
    /\ wc_threads = <<>>
    /\ mig = [c \in CPU |-> NoMigration]
    /\ status = "ok"

Next == \E c \in CPU :
    \/ thread_fork(c) \/ thread_fork_end(c)
    \/ thread_yield(c) \/ wchan_sleep(c) \/ thread_exit(c)
    \/ wchan_wakeone(c) \/ cpu_idle(c)
    \/ count_threads(c) \/ take_victims(c) \/ move_victims(c)
    \/ put_back(c) \/ hardclock(c)

Spec == Init /\ [][Next]_vars
-----------------------------------------------------------------------------
(* No two CPUs are ever on the same stack, and none is on the stack of a   *)
(* thread that has been destroyed.  A CPU that idles is still on the stack *)
(* of the thread that went to sleep or exited there; that thread may have  *)
(* been woken in the meantime, and is in the run queue.                    *)
StacksExclusive ==
    /\ \A c, d \in CPU : c_curthread[c] = c_curthread[d] => c = d
    /\ \A c \in CPU : t_state[c_curthread[c]] # "none"

Lists == [c \in CPU |-> c_runqueue[c] \o mig[c].victims]
Times(t, s) == Cardinality({k \in 1 .. Len(s) : s[k] = t})

(* A thread is on exactly the list its state says, once, and a ready       *)
(* thread is queued at its own CPU: threads are neither lost nor           *)
(* duplicated when sleeping, waking, yielding, exiting and migrating       *)
(* interleave.  And no assertion fails: a thread that is cleaned up as a   *)
(* zombie is not the one that runs, and migration, which counts its run    *)
(* queue and takes threads off it under different holds of the lock, finds *)
(* them there.                                                             *)
ThreadsPlaced ==
    /\ status = "ok"
    /\ \A t \in Thread :
         /\ \A c \in CPU : Times(t, Lists[c]) =
              IF t_state[t] = "ready" /\ t_cpu[t] = c THEN 1 ELSE 0
         /\ Times(t, wc_threads) = IF t_state[t] = "sleep" THEN 1 ELSE 0
         /\ \A c \in CPU : Times(t, c_zombies[c]) =
              IF t_state[t] = "zombie" /\ t_cpu[t] = c THEN 1 ELSE 0
         /\ t_state[t] = "run" <=>
              \E c \in CPU : c_curthread[c] = t /\ ~c_isidle[c] /\ t_cpu[t] = c

(* A CPU does not sleep over a ready thread: when one is in the run queue  *)
(* of an idle CPU, the CPU has got an interrupt, or is in one.             *)
IdleIsWoken ==
    \A c \in CPU : c_isidle[c] /\ c_runqueue[c] # <<>> =>
      irq[c] \/ mig[c].ph # "none"
=============================================================================
