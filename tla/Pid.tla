-------------------------------- MODULE Pid ---------------------------------
(***************************************************************************)
(* Process ids, exit and wait: kern/proc/pid.c, as proc_fork, proc_exit,   *)
(* sys_waitpid, the menu (main/menu.c) and waittest use it.  Each function *)
(* runs under pidlock from beginning to end and is one step, except        *)
(* pid_wait, which gives pidlock up in cv_wait.                            *)
(*                                                                         *)
(* A failed KASSERT is recorded in status, and the system stops.           *)
(***************************************************************************)
EXTENDS Naturals, FiniteSets

CONSTANTS
    Proc,       \* struct procs; one is reused when its process is gone
    kproc,      \* the kernel's process, whose thread runs the menu
    PROCS_MAX,  \* slots of the process table
    PID_MAX,    \* the largest pid
    Status,     \* exit statuses
    NULL

PID_MIN == 2
KERNEL_PID == 1
INVALID_PID == 0
Beef == 48879   \* 0xbeef: the exit status of a process that has not exited
Pids == PID_MIN .. PID_MAX

ASSUME ConstantsAssumption ==
    /\ kproc \in Proc /\ NULL \notin Proc
    /\ Status \subseteq Nat \ {Beef}
    /\ PROCS_MAX \in Nat /\ PROCS_MAX > PID_MIN
    /\ PID_MAX \in Nat /\ PID_MAX >= 2 * PROCS_MAX - 1

VARIABLES
    pidinfo,  \* the process table: a struct pidinfo in each slot, NoInfo
              \* in the slots that are NULL
    nextpid,
    nprocs,
    p_pid,    \* the pid of each process, or INVALID_PID
    st,       \* "none", "new": not started yet, "run", "fork": in sys_fork
              \* or common_prog, "wait": in cv_wait, "woken"
    with,     \* the child a process in "fork" creates (itself otherwise)
    waitpid,  \* the pid a process waits for (INVALID_PID otherwise)
    forker,   \* ghost: who will ask for a process's exit status, or NULL
    owed,     \* ghost: the statuses of children a process has not asked for
    status    \* "ok", or the assertion that failed

vars == <<pidinfo, nextpid, nprocs, p_pid, st, with, waitpid, forker, owed,
          status>>

Slot == 0 .. PROCS_MAX - 1

pidinfo_create(pid, ppid) ==
    [pi_pid |-> pid, pi_ppid |-> ppid, pi_exited |-> 0, pi_exitstatus |-> Beef]
NoInfo == pidinfo_create(INVALID_PID, INVALID_PID)

SlotOf(pid) == pid % PROCS_MAX

(* pi_get finds an entry for the pid. *)
pi_get(pid) == pidinfo[SlotOf(pid)].pi_pid = pid
Info(pid) == pidinfo[SlotOf(pid)]

(* nextpid after inc_nextpid has been called k times. *)
inc_nextpid(k) ==
    PID_MIN + ((nextpid - PID_MIN + k) % (PID_MAX - PID_MIN + 1))

Used == {i \in Slot : pidinfo[i] # NoInfo}
Occupied(k) == SlotOf(inc_nextpid(k)) \in Used

(* The loop of pid_alloc ends after k rounds. *)
ScanEnds(k) == ~Occupied(k) /\ \A j \in 0 .. k - 1 : Occupied(j)
ScanLimit == 2 * PROCS_MAX + 5

Panic(why) ==
    /\ status' = why
    /\ UNCHANGED <<pidinfo, nextpid, nprocs, p_pid, st, with, waitpid, forker,
                   owed>>
-----------------------------------------------------------------------------
(* Mutant: a full table is not noticed. *)
pid_alloc_full(p, q) ==
    /\ status = "ok"
    /\ st[p] = "run" /\ st[q] = "none"
    /\ IF \A k \in 0 .. ScanLimit : Occupied(k)
         THEN Panic("assert")
         ELSE \E k \in 0 .. ScanLimit :
            LET pid == inc_nextpid(k) IN
            /\ ScanEnds(k)
            /\ pidinfo' = [pidinfo EXCEPT ![SlotOf(pid)] =
                              pidinfo_create(pid, p_pid[p])]
            /\ nprocs' = nprocs + 1
            /\ nextpid' = inc_nextpid(k + 1)
            /\ p_pid' = [p_pid EXCEPT ![q] = pid]
            /\ st' = [st EXCEPT ![p] = "fork", ![q] = "new"]
            /\ with' = [with EXCEPT ![p] = q]
            /\ forker' = [forker EXCEPT ![q] = p]
            /\ UNCHANGED <<waitpid, owed, status>>

(* A process p that forks, or the menu starting a program, gets a pid for  *)
(* the new process q.                                                      *)
pid_alloc(p, q) ==
    /\ status = "ok"
    /\ st[p] = "run" /\ st[q] = "none"
    /\ nprocs # PROCS_MAX
    /\ IF \A k \in 0 .. ScanLimit : Occupied(k)
         THEN Panic("assert")
         ELSE \E k \in 0 .. ScanLimit :
            LET pid == inc_nextpid(k) IN
            /\ ScanEnds(k)
            /\ pidinfo' = [pidinfo EXCEPT ![SlotOf(pid)] =
                              pidinfo_create(pid, p_pid[p])]
            /\ nprocs' = nprocs + 1
            /\ nextpid' = inc_nextpid(k + 1)
            /\ p_pid' = [p_pid EXCEPT ![q] = pid]
            /\ st' = [st EXCEPT ![p] = "fork", ![q] = "new"]
            /\ with' = [with EXCEPT ![p] = q]
            /\ forker' = [forker EXCEPT ![q] = p]
            /\ UNCHANGED <<waitpid, owed, status>>

(* pidinfo_create fails: the loop has moved nextpid. *)
pid_alloc_nomem(p) ==
    /\ status = "ok"
    /\ st[p] = "run"
    /\ nprocs # PROCS_MAX
    /\ \E k \in 0 .. ScanLimit :
         ScanEnds(k) /\ nextpid' = inc_nextpid(k)
    /\ UNCHANGED <<pidinfo, nprocs, p_pid, st, with, waitpid, forker, owed,
                   status>>

(* thread_fork succeeds: the child runs. *)
thread_fork(p) ==
    /\ status = "ok"
    /\ st[p] = "fork"
    /\ st' = [st EXCEPT ![p] = "run", ![with[p]] = "run"]
    /\ with' = [with EXCEPT ![p] = p]
    /\ UNCHANGED <<pidinfo, nextpid, nprocs, p_pid, waitpid, forker, owed,
                   status>>

(* The fork fails after pid_alloc: proc_fork's error paths, proc_unfork.   *)
(* In the kernel's process that is waittest's dofork, and waittest panics. *)
pid_unalloc(p) ==
    LET q == with[p]
        them == p_pid[q]
    IN
    /\ status = "ok"
    /\ st[p] = "fork"
    /\ IF /\ pi_get(them)
          /\ Info(them).pi_exited = 0
          /\ Info(them).pi_ppid = p_pid[p]
         THEN /\ pidinfo' = [pidinfo EXCEPT ![SlotOf(them)] = NoInfo]
              /\ nprocs' = nprocs - 1
              /\ p_pid' = [p_pid EXCEPT ![q] = INVALID_PID]
              /\ st' = [st EXCEPT ![p] = "run", ![q] = "none"]
              /\ with' = [with EXCEPT ![p] = p]
              /\ forker' = [forker EXCEPT ![q] = NULL]
              /\ status' = IF p = kproc THEN "waittest" ELSE status
              /\ UNCHANGED <<nextpid, waitpid, owed>>
         ELSE Panic("assert")

(* thread_fork fails in the menu's common_prog: proc_destroy is called     *)
(* with the pid still allocated.                                           *)
common_prog_fail ==
    /\ status = "ok"
    /\ st[kproc] = "fork"
    /\ Panic("proc_destroy")

(* Mutant: children that have exited are disowned but not dropped. *)
pid_setexitstatus_zombies(p, s) ==
    LET me == p_pid[p]
        kids == {i \in Used : pidinfo[i].pi_ppid = me}
        orphan == pidinfo[SlotOf(me)].pi_ppid = INVALID_PID
        dropped == IF orphan THEN {SlotOf(me)} ELSE {}
    IN
    /\ status = "ok"
    /\ st[p] = "run" /\ p # kproc
    /\ pidinfo' = [i \in Slot |->
         CASE i \in dropped -> NoInfo
           [] i \in kids -> [pidinfo[i] EXCEPT !.pi_ppid = INVALID_PID]
           [] i = SlotOf(me) /\ ~orphan ->
                [pidinfo[i] EXCEPT !.pi_exited = 1, !.pi_exitstatus = s]
           [] OTHER -> pidinfo[i]]
    /\ nprocs' = nprocs - Cardinality(dropped)
    /\ p_pid' = [p_pid EXCEPT ![p] = INVALID_PID]
    /\ st' = [q \in Proc |->
         IF q = p THEN "none"
         ELSE IF st[q] = "wait" /\ waitpid[q] = me /\ ~orphan
           THEN "woken" ELSE st[q]]
    /\ owed' = [q \in Proc |-> IF q = p THEN {} ELSE owed[q]
                  \union IF forker[p] = q THEN {<<me, s>>} ELSE {}]
    /\ forker' = [q \in Proc |->
         IF q = p \/ forker[q] = p THEN NULL ELSE forker[q]]
    /\ UNCHANGED <<nextpid, with, waitpid, status>>

(* pid_setexitstatus disowns the children, drops the ones that have        *)
(* exited, and wakes up the parent or drops the own entry.                 *)
pid_setexitstatus(p, s) ==
    LET me == p_pid[p]
        kids == {i \in Used : pidinfo[i].pi_ppid = me}
        orphan == pidinfo[SlotOf(me)].pi_ppid = INVALID_PID
        dropped == {i \in kids : pidinfo[i].pi_exited = 1}
                     \union IF orphan THEN {SlotOf(me)} ELSE {}
    IN
    /\ status = "ok"
    /\ st[p] = "run" /\ p # kproc
    /\ IF pi_get(me)
         THEN /\ pidinfo' = [i \in Slot |->
                   CASE i \in dropped -> NoInfo
                     [] i \in kids \ dropped ->
                          [pidinfo[i] EXCEPT !.pi_ppid = INVALID_PID]
                     [] i = SlotOf(me) /\ ~orphan ->
                          [pidinfo[i] EXCEPT !.pi_exited = 1,
                                             !.pi_exitstatus = s]
                     [] OTHER -> pidinfo[i]]
              /\ nprocs' = nprocs - Cardinality(dropped)
              /\ p_pid' = [p_pid EXCEPT ![p] = INVALID_PID]
              /\ st' = [q \in Proc |->
                   IF q = p THEN "none"
                   ELSE IF st[q] = "wait" /\ waitpid[q] = me /\ ~orphan
                     THEN "woken" ELSE st[q]]
              /\ owed' = [q \in Proc |->
                   IF q = p THEN {}
                   ELSE owed[q] \union IF forker[p] = q THEN {<<me, s>>} ELSE {}]
              /\ forker' = [q \in Proc |->
                   IF q = p \/ forker[q] = p THEN NULL ELSE forker[q]]
              /\ UNCHANGED <<nextpid, with, waitpid, status>>
         ELSE Panic("assert")

(* The end of pid_wait: the status is handed over and the entry dropped. *)
Reap(p, pid) ==
    /\ pidinfo' = [pidinfo EXCEPT ![SlotOf(pid)] = NoInfo]
    /\ nprocs' = nprocs - 1
    /\ st' = [st EXCEPT ![p] = "run"]
    /\ waitpid' = [waitpid EXCEPT ![p] = INVALID_PID]
    /\ owed' = [owed EXCEPT ![p] = {o \in @ : o[1] # pid}]
    /\ UNCHANGED <<nextpid, p_pid, with, forker, status>>

(* Mutant: a process can wait for another's child. *)
pid_wait_anyone(p, pid) ==
    /\ status = "ok"
    /\ st[p] = "run"
    /\ pid # p_pid[p]
    /\ pi_get(pid)
    /\ IF Info(pid).pi_exited = 1
         THEN Reap(p, pid)
         ELSE /\ st' = [st EXCEPT ![p] = "wait"]
              /\ waitpid' = [waitpid EXCEPT ![p] = pid]
              /\ UNCHANGED <<pidinfo, nextpid, nprocs, p_pid, with, forker,
                             owed, status>>

(* Mutant: the caller sleeps although the child has exited. *)
pid_wait_asleep(p, pid) ==
    /\ status = "ok"
    /\ st[p] = "run"
    /\ pid # p_pid[p]
    /\ pi_get(pid) /\ Info(pid).pi_ppid = p_pid[p]
    /\ st' = [st EXCEPT ![p] = "wait"]
    /\ waitpid' = [waitpid EXCEPT ![p] = pid]
    /\ UNCHANGED <<pidinfo, nextpid, nprocs, p_pid, with, forker, owed, status>>

(* pid_wait for a child: one that has exited is reaped, and the caller     *)
(* sleeps for one that has not.  Every other call returns at once and      *)
(* changes nothing.                                                        *)
pid_wait(p, pid) ==
    /\ status = "ok"
    /\ st[p] = "run"
    /\ pid # p_pid[p]
    /\ pi_get(pid) /\ Info(pid).pi_ppid = p_pid[p]
    /\ IF Info(pid).pi_exited = 1
         THEN Reap(p, pid)
         ELSE /\ st' = [st EXCEPT ![p] = "wait"]
              /\ waitpid' = [waitpid EXCEPT ![p] = pid]
              /\ UNCHANGED <<pidinfo, nextpid, nprocs, p_pid, with, forker,
                             owed, status>>

(* cv_wait returns with pidlock held; the condition is not tested again. *)
pid_wait_return(p) ==
    /\ status = "ok"
    /\ st[p] = "woken"
    /\ IF pi_get(waitpid[p]) /\ Info(waitpid[p]).pi_exited = 1
         THEN Reap(p, waitpid[p])
         ELSE Panic("assert")

(* Mutant: the entry is dropped although the child still runs. *)
pid_disown_early(pid) ==
    /\ status = "ok"
    /\ st[kproc] = "run"
    /\ pi_get(pid) /\ Info(pid).pi_ppid = p_pid[kproc]
    /\ pidinfo' = [pidinfo EXCEPT ![SlotOf(pid)] = NoInfo]
    /\ nprocs' = nprocs - 1
    /\ forker' = [q \in Proc |-> IF p_pid[q] = pid THEN NULL ELSE forker[q]]
    /\ owed' = [owed EXCEPT ![kproc] = {o \in @ : o[1] # pid}]
    /\ UNCHANGED <<nextpid, p_pid, st, with, waitpid, status>>

(* The kernel's waittest gives up interest in a child. *)
pid_disown(pid) ==
    /\ status = "ok"
    /\ st[kproc] = "run"
    /\ pi_get(pid) /\ Info(pid).pi_ppid = p_pid[kproc]
    /\ IF Info(pid).pi_exited = 1
         THEN /\ pidinfo' = [pidinfo EXCEPT ![SlotOf(pid)] = NoInfo]
              /\ nprocs' = nprocs - 1
         ELSE /\ pidinfo' = [pidinfo EXCEPT ![SlotOf(pid)].pi_ppid = INVALID_PID]
              /\ UNCHANGED nprocs
    /\ forker' = [q \in Proc |-> IF p_pid[q] = pid THEN NULL ELSE forker[q]]
    /\ owed' = [owed EXCEPT ![kproc] = {o \in @ : o[1] # pid}]
    /\ UNCHANGED <<nextpid, p_pid, st, with, waitpid, status>>

(* pid_bootstrap *)
Init ==
    /\ pidinfo = [i \in Slot |-> IF i = KERNEL_PID
         THEN pidinfo_create(KERNEL_PID, INVALID_PID) ELSE NoInfo]
    /\ nextpid = PID_MIN
    /\ nprocs = 1
    /\ p_pid = [p \in Proc |-> IF p = kproc THEN KERNEL_PID ELSE INVALID_PID]
    /\ st = [p \in Proc |-> IF p = kproc THEN "run" ELSE "none"]
    /\ with = [p \in Proc |-> p]
    /\ waitpid = [p \in Proc |-> INVALID_PID]
    /\ forker = [p \in Proc |-> NULL]
    /\ owed = [p \in Proc |-> {}]
    /\ status = "ok"

Next ==
    \/ \E p \in Proc :
         \/ \E q \in Proc : pid_alloc(p, q)
         \/ pid_alloc_nomem(p) \/ thread_fork(p) \/ pid_unalloc(p)
         \/ \E s \in Status : pid_setexitstatus(p, s)
         \/ \E pid \in Pids : pid_wait(p, pid)
         \/ pid_wait_return(p)
    \/ common_prog_fail
    \/ \E pid \in Pids : pid_disown(pid)

Spec == Init /\ [][Next]_vars
-----------------------------------------------------------------------------
Alive(p) == p_pid[p] # INVALID_PID

(* Every living process has its own entry, in the slot of its pid, that    *)
(* says it has not exited: a pid is not given to a second process while    *)
(* the first lives, and nobody reaps a process that has not exited.        *)
LivingHaveEntries ==
    \A p \in Proc : Alive(p) =>
      /\ pi_get(p_pid[p]) /\ Info(p_pid[p]).pi_exited = 0
      /\ \A q \in Proc : p_pid[q] = p_pid[p] => q = p

(* An entry in use belongs to a living process, or to one that has exited  *)
(* and whose parent is alive to ask for its status.  So no slot is lost    *)
(* for good, although parents and children exit in any order.  nprocs      *)
(* counts the entries in use: pid_alloc relies on it to say EAGAIN, and to *)
(* be sure that its loop ends.                                             *)
NoZombieForever ==
    /\ nprocs = Cardinality(Used)
    /\ \A i \in Used :
         \/ pidinfo[i].pi_exited = 0 /\ \E p \in Proc : p_pid[p] = pidinfo[i].pi_pid
         \/ /\ pidinfo[i].pi_exited = 1
            /\ \E p \in Proc : Alive(p) /\ p_pid[p] = pidinfo[i].pi_ppid

(* What a process is owed is in the table under the pid it was given for   *)
(* the child, with the status the child exited with; so a wait delivers    *)
(* that status, although the pids of disowned processes are used again.    *)
StatusKept ==
    \A p \in Proc : \A o \in owed[p] :
      /\ pi_get(o[1])
      /\ Info(o[1]).pi_ppid = p_pid[p]
      /\ Info(o[1]).pi_exited = 1 /\ Info(o[1]).pi_exitstatus = o[2]

(* No KASSERT of pid.c fails: the loop of pid_alloc ends within the limit  *)
(* it asserts, also when nextpid wraps around and when only the slots      *)
(* below PID_MIN are free; pid_wait finds its child exited when cv_wait    *)
(* returns, without a loop; and pid_unalloc finds the child it created.    *)
AssertionsHold == status # "assert"

(* A waiting parent is woken and gets to run. *)
Fairness == \A p \in Proc : WF_vars(pid_wait_return(p))
FairSpec == Spec /\ Fairness

(* A process that waits for a child returns once the child has exited.     *)
(* cv_broadcast is not lost, and pidlock is free again and again.          *)
WaitReturns ==
    \A p \in Proc :
      (st[p] \in {"wait", "woken"} /\ \A q \in Proc : p_pid[q] # waitpid[p])
        ~> (st[p] = "run" \/ status # "ok")
=============================================================================
