----------------------------- MODULE Processes ------------------------------
(***************************************************************************)
(* Processes and their threads: process ids, exit and wait (module Pid),   *)
(* and the run queues of the CPUs (Threads).  pidlock is taken by threads  *)
(* in any order the scheduler gives, and the scheduler knows nothing of    *)
(* pids: the two share no state, so a behaviour has one of them at work.   *)
(***************************************************************************)
EXTENDS Pid, Sequences

CONSTANTS NCPU, b1, b2, Forked

VARIABLES
    part,       \* what is at work
    c_curthread, c_isidle, c_runqueue, c_zombies, irq, t_state, t_cpu,
    newthread, wc_threads, mig, thr_status

(* The boot threads of two CPUs, and the threads that are created. *)
Thr == INSTANCE Threads WITH
    Thread <- {b1, b2} \cup Forked, Boot <- <<b1, b2>>, status <- thr_status

thrvars == <<c_curthread, c_isidle, c_runqueue, c_zombies, irq, t_state, t_cpu,
             newthread, wc_threads, mig, thr_status>>
all == <<part, vars, thrvars>>

Boot == part \in {"pid", "threads"} /\ Init /\ Thr!Init

ProcessesNext ==
    /\ \/ part = "pid" /\ Next /\ UNCHANGED thrvars
       \/ part = "threads" /\ Thr!Next /\ UNCHANGED vars
    /\ UNCHANGED part

(* The fairness of Pid. *)
ProcessesSpec ==
    /\ Boot
    /\ [][ProcessesNext]_all
    /\ \A p \in Proc :
         WF_all(part = "pid" /\ pid_wait_return(p) /\ UNCHANGED <<part, thrvars>>)
-----------------------------------------------------------------------------
(* No two CPUs are ever on the same stack, and none is on the stack of a   *)
(* thread that exorcise has destroyed, although an idle CPU stays on the   *)
(* stack of the thread that went to sleep or exited in thread_switch.      *)
StacksExclusive == Thr!StacksExclusive

(* A thread is on exactly the list its state says, once, and no assertion  *)
(* of thread.c fails, although thread_fork, thread_switch, wchan_wakeone   *)
(* and thread_consider_migration interleave on two CPUs.                   *)
ThreadsPlaced == Thr!ThreadsPlaced

(* A CPU does not sleep in cpu_idle over a thread that is ready there. *)
IdleIsWoken == Thr!IdleIsWoken
=============================================================================
