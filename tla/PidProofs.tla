----------------------------- MODULE PidProofs ------------------------------
(***************************************************************************)
(* The invariants of module Pid hold for every number of processes, slots  *)
(* and pids.                                                               *)
(***************************************************************************)
EXTENDS PidExit, PidDrop

USE ConstantsAssumption

LEMMA WaitStep ==
    ASSUME IInv, NEW p \in Proc, NEW pid \in Pids, pid_wait(p, pid)
    PROVE  IInv'
<1> USE DEF IInv
<1>0. /\ st[p] = "run" /\ pid \in 1 .. PID_MAX /\ pi_get(pid)
      /\ Info(pid).pi_ppid = p_pid[p]
  BY DEF pid_wait, Pids, PID_MIN
<1>1. CASE Info(pid).pi_exited = 1
  BY <1>0, <1>1, ReapStep DEF pid_wait
<1>2. CASE Info(pid).pi_exited # 1
  <2>1. /\ st' = [st EXCEPT ![p] = "wait"]
        /\ waitpid' = [waitpid EXCEPT ![p] = pid]
        /\ UNCHANGED <<pidinfo, nextpid, nprocs, p_pid, with, forker, owed, status>>
    BY <1>2 DEF pid_wait
  <2>2. /\ st'[p] = "wait" /\ waitpid'[p] = pid
        /\ \A r \in Proc : r # p => st'[r] = st[r] /\ waitpid'[r] = waitpid[r]
    BY <2>1 DEF TypeOK
  <2>3. Used' = Used
    BY <2>1 DEF Used
  <2>4. TypeOK'
    BY <1>0, <2>1 DEF TypeOK
  <2>5. (EntriesPlaced /\ EntriesOwned /\ Counted)'
    BY <2>1, <2>3 DEF EntriesPlaced, EntriesOwned, Counted
  <2>6. ParentsLive'
    <3> SUFFICES ASSUME NEW i \in Used, pidinfo[i].pi_ppid # INVALID_PID
                 PROVE  \E r \in Proc : p_pid[r] = pidinfo[i].pi_ppid /\ st'[r] # "new"
      BY <2>1, <2>3 DEF ParentsLive
    <3> PICK r \in Proc : p_pid[r] = pidinfo[i].pi_ppid /\ st[r] # "new"
      BY DEF ParentsLive
    <3> QED
      BY <2>2
  <2>7. StatesAgree'
    <3> SUFFICES ASSUME NEW r \in Proc
                 PROVE  /\ st'[r] = "none" <=> p_pid'[r] = INVALID_PID
                        /\ st'[r] = "fork" => st'[with'[r]] = "new" /\ forker'[with'[r]] = r
      BY DEF StatesAgree
    <3>1. with[r] \in Proc
      BY DEF TypeOK
    <3> QED
      BY <1>0, <2>1, <2>2, <3>1 DEF StatesAgree
  <2>8. WaitsForChild'
    <3> SUFFICES ASSUME NEW r \in Proc, st'[r] \in {"wait", "woken"}
                 PROVE  /\ waitpid'[r] # INVALID_PID
                        /\ pidinfo[SlotOf(waitpid'[r])].pi_pid = waitpid'[r]
                        /\ pidinfo[SlotOf(waitpid'[r])].pi_ppid = p_pid[r]
                        /\ st'[r] = "woken" => pidinfo[SlotOf(waitpid'[r])].pi_exited = 1
      BY <2>1 DEF WaitsForChild, pi_get, Info, SlotOf
    <3>1. CASE r = p
      BY <1>0, <2>2, <3>1 DEF pi_get, Info, INVALID_PID
    <3>2. CASE r # p
      BY <2>2, <3>2 DEF WaitsForChild, pi_get, Info
    <3> QED
      BY <3>1, <3>2
  <2>9. (ForkersAreParents /\ OwedAlive)'
    BY <2>1 DEF ForkersAreParents, OwedAlive, Alive, Info
  <2>10. (LivingHaveEntries /\ StatusKept /\ AssertionsHold)'
    BY <2>1 DEF LivingHaveEntries, StatusKept, AssertionsHold, Alive, Info, pi_get
  <2> QED
    BY <2>4, <2>5, <2>6, <2>7, <2>8, <2>9, <2>10
<1> QED
  BY <1>1, <1>2

(* The child that a woken process waited for is there, and has exited. *)
LEMMA WaitReturnStep ==
    ASSUME IInv, NEW p \in Proc, pid_wait_return(p)
    PROVE  IInv'
<1>1. /\ st[p] = "woken" /\ waitpid[p] \in 1 .. PID_MAX
      /\ pi_get(waitpid[p]) /\ Info(waitpid[p]).pi_ppid = p_pid[p]
      /\ Info(waitpid[p]).pi_exited = 1
  BY DEF IInv, pid_wait_return, WaitsForChild, TypeOK, INVALID_PID
<1> QED
  BY <1>1, ReapStep DEF pid_wait_return

LEMMA DisownStep ==
    ASSUME IInv, NEW pid \in Pids, pid_disown(pid)
    PROVE  IInv'
<1> USE DEF IInv
<1> DEFINE s == SlotOf(pid)
<1>1. /\ st[kproc] = "run" /\ pid \in 1 .. PID_MAX /\ pi_get(pid)
      /\ Info(pid).pi_ppid = p_pid[kproc] /\ kproc \in Proc
      /\ UNCHANGED <<nextpid, p_pid, st, with, waitpid, status>>
  BY DEF pid_disown, Pids, PID_MIN
<1>2. /\ forker' = [q \in Proc |-> IF p_pid[q] = pid THEN NULL ELSE forker[q]]
      /\ owed' = [owed EXCEPT ![kproc] = {o \in @ : o[1] # pid}]
  BY DEF pid_disown
<1>3. Alive(kproc) /\ \A r \in Proc : r # kproc => p_pid[r] # p_pid[kproc]
  BY <1>1 DEF StatesAgree, Alive, LivingHaveEntries
<1>4. s \in Used /\ s \in Slot /\ pidinfo[s] \in Entry /\ pidinfo[s].pi_pid = pid
  BY <1>1, FoundIsUsed DEF pi_get, Used, TypeOK, INVALID_PID
(* The table loses the entry, or the entry loses its parent. *)
<1>5. /\ Used' \subseteq Used
      /\ \A i \in Used' : i # s => pidinfo'[i] = pidinfo[i]
      /\ s \in Used' =>
           /\ pidinfo'[s] = [pidinfo[s] EXCEPT !.pi_ppid = INVALID_PID]
           /\ pidinfo[s].pi_exited = 0
      /\ s \notin Used' => pidinfo[s].pi_exited = 1
      /\ pidinfo' \in [Slot -> Entry] /\ nprocs' \in Nat /\ Counted'
      /\ \A x \in 1 .. PID_MAX : pi_get(x) /\ x # pid =>
           pidinfo'[SlotOf(x)] = pidinfo[SlotOf(x)]
  <2>1. CASE Info(pid).pi_exited = 1
    <3>1. /\ pidinfo' = [pidinfo EXCEPT ![SlotOf(pid)] = NoInfo]
          /\ nprocs' = nprocs - 1
      BY <2>1 DEF pid_disown
    <3>2. /\ Used' = Used \ {SlotOf(pid)}
          /\ \A i \in Used' : pidinfo'[i] = pidinfo[i]
          /\ pidinfo' \in [Slot -> Entry] /\ nprocs' \in Nat /\ Counted'
          /\ \A x \in 1 .. PID_MAX : pi_get(x) /\ x # pid => Info(x)' = Info(x)
      BY <1>1, <3>1, DropEntry
    <3> QED
      BY <1>4, <2>1, <3>2 DEF Info
  <2>2. CASE Info(pid).pi_exited # 1
    <3>1. pidinfo' = [pidinfo EXCEPT ![s].pi_ppid = INVALID_PID] /\ nprocs' = nprocs
      BY <2>2 DEF pid_disown
    <3>2. pidinfo[s].pi_exited = 0
      BY <1>4, <2>2 DEF Info, Entry
    <3> HIDE DEF s
    <3>3. /\ pidinfo'[s] = [pidinfo[s] EXCEPT !.pi_ppid = INVALID_PID]
          /\ \A i \in Slot : i # s => pidinfo'[i] = pidinfo[i]
          /\ pidinfo' \in [Slot -> Entry]
      BY <1>4, <3>1 DEF TypeOK, Entry, INVALID_PID
    <3>4. pidinfo'[s] # NoInfo
      <4>1. pidinfo'[s].pi_pid = pid
        BY <1>4, <3>3 DEF Entry
      <4> QED
        BY <1>1, <4>1 DEF NoInfo, pidinfo_create, INVALID_PID
    <3>5. Used' = Used
      BY <1>4, <3>3, <3>4 DEF Used
    <3>6. \A x \in 1 .. PID_MAX : pi_get(x) /\ x # pid =>
            pidinfo'[SlotOf(x)] = pidinfo[SlotOf(x)]
      BY <1>4, <3>3, SlotOfType DEF pi_get
    <3> QED
      BY <1>4, <3>1, <3>2, <3>3, <3>5, <3>6 DEF Counted, Used, TypeOK
  <2> QED
    BY <2>1, <2>2
<1> HIDE DEF s
<1>6. \A i \in Used' : /\ pidinfo'[i].pi_pid = pidinfo[i].pi_pid
                       /\ pidinfo'[i].pi_exited = pidinfo[i].pi_exited
                       /\ pidinfo'[i].pi_ppid \in {pidinfo[i].pi_ppid, INVALID_PID}
                       /\ i = s => pidinfo[i].pi_exited = 0
  BY <1>4, <1>5 DEF Entry
<1>7. TypeOK'
  <2>1. owed' \in [Proc -> SUBSET ((1 .. PID_MAX) \X Status)]
    BY <1>2 DEF TypeOK
  <2> QED
    BY <1>1, <1>2, <1>5, <2>1 DEF TypeOK
<1>8. EntriesPlaced'
  BY <1>5, <1>6 DEF EntriesPlaced, INVALID_PID
<1>9. ParentsLive'
  BY <1>1, <1>5, <1>6 DEF ParentsLive
<1>10. EntriesOwned'
  BY <1>1, <1>5, <1>6 DEF EntriesOwned
<1>11. \A q \in Proc :
         /\ forker'[q] = IF p_pid[q] = pid THEN NULL ELSE forker[q]
         /\ q # kproc => owed'[q] = owed[q]
         /\ q = kproc => owed'[q] = {o \in owed[q] : o[1] # pid}
  BY <1>2 DEF TypeOK
<1>12. StatesAgree'
  <2> SUFFICES ASSUME NEW r \in Proc, st[r] = "fork"
               PROVE  forker'[with[r]] = r
    BY <1>1 DEF StatesAgree
  <2>1. st[with[r]] = "new" /\ forker[with[r]] = r /\ with[r] \in Proc
    BY DEF StatesAgree, TypeOK
  <2>2. p_pid[with[r]] # pid
    <3>1. Info(p_pid[with[r]]).pi_ppid = p_pid[r]
      BY <2>1, NULL \notin Proc DEF ForkersAreParents
    <3> QED
      BY <1>1, <1>3, <3>1
  <2> QED
    BY <1>11, <2>1, <2>2
<1>13. ForkersAreParents'
  <2> SUFFICES ASSUME NEW r \in Proc, forker'[r] # NULL
               PROVE  /\ p_pid[r] # INVALID_PID /\ p_pid[forker'[r]] # INVALID_PID
                      /\ pidinfo'[SlotOf(p_pid[r])].pi_ppid = p_pid[forker'[r]]
    BY <1>1 DEF ForkersAreParents, Alive, Info
  <2>1. p_pid[r] # pid /\ forker'[r] = forker[r]
    BY <1>11
  <2>2. /\ Alive(r) /\ Alive(forker[r])
        /\ pidinfo[SlotOf(p_pid[r])].pi_ppid = p_pid[forker[r]]
    BY <2>1 DEF ForkersAreParents, Info
  <2>3. p_pid[r] \in 1 .. PID_MAX /\ pi_get(p_pid[r])
    BY <2>2 DEF LivingHaveEntries, Alive, TypeOK, INVALID_PID
  <2> QED
    BY <1>5, <2>1, <2>2, <2>3 DEF Alive
<1>14. OwedAlive'
  BY <1>1, <1>3, <1>11 DEF OwedAlive, Alive
<1>15. StatusKept'
  <2> SUFFICES ASSUME NEW r \in Proc, NEW o \in owed'[r]
               PROVE  /\ pidinfo'[SlotOf(o[1])].pi_pid = o[1]
                      /\ pidinfo'[SlotOf(o[1])].pi_ppid = p_pid[r]
                      /\ pidinfo'[SlotOf(o[1])].pi_exited = 1
                      /\ pidinfo'[SlotOf(o[1])].pi_exitstatus = o[2]
    BY <1>1 DEF StatusKept, Info, pi_get
  <2>1. o \in owed[r] /\ (r = kproc => o[1] # pid)
    BY <1>11
  <2>2. o[1] \in 1 .. PID_MAX /\ o[1] # pid
    BY <1>1, <1>3, <2>1 DEF StatusKept, TypeOK
  <2>3. pidinfo'[SlotOf(o[1])] = pidinfo[SlotOf(o[1])]
    BY <1>5, <2>1, <2>2 DEF StatusKept
  <2> QED
    BY <2>1, <2>3 DEF StatusKept, Info, pi_get
<1>16. WaitsForChild'
  <2> SUFFICES ASSUME NEW r \in Proc, st[r] \in {"wait", "woken"}
               PROVE  /\ waitpid[r] # INVALID_PID
                      /\ pi_get(waitpid[r])
                      /\ Info(waitpid[r]).pi_ppid = p_pid[r]
                      /\ st[r] = "woken" => Info(waitpid[r]).pi_exited = 1
                      /\ pidinfo'[SlotOf(waitpid[r])] = pidinfo[SlotOf(waitpid[r])]
    BY <1>1 DEF WaitsForChild, pi_get, Info
  <2>1. /\ waitpid[r] \in 1 .. PID_MAX /\ pi_get(waitpid[r]) /\ r # kproc
        /\ Info(waitpid[r]).pi_ppid = p_pid[r]
    BY <1>1 DEF WaitsForChild, TypeOK, INVALID_PID
  <2>2. waitpid[r] # pid
    BY <1>1, <1>3, <2>1
  <2> QED
    BY <1>5, <2>1, <2>2 DEF WaitsForChild
<1>17. LivingHaveEntries'
  <2> SUFFICES ASSUME NEW r \in Proc, Alive(r)
               PROVE  /\ pidinfo'[SlotOf(p_pid[r])].pi_pid = p_pid[r]
                      /\ pidinfo'[SlotOf(p_pid[r])].pi_exited = 0
    BY <1>1 DEF LivingHaveEntries, Alive, pi_get, Info
  <2>1. /\ p_pid[r] \in 1 .. PID_MAX /\ pi_get(p_pid[r])
        /\ pidinfo[SlotOf(p_pid[r])].pi_exited = 0
    BY DEF LivingHaveEntries, Alive, TypeOK, INVALID_PID, Info
  <2>2. CASE p_pid[r] = pid
    BY <1>4, <1>5, <1>6, <2>1, <2>2 DEF s
  <2>3. CASE p_pid[r] # pid
    BY <1>5, <2>1, <2>3 DEF pi_get
  <2> QED
    BY <2>2, <2>3
<1> QED
  BY <1>1, <1>5, <1>7, <1>8, <1>9, <1>10, <1>12, <1>13, <1>14, <1>15, <1>16, <1>17
     DEF AssertionsHold
-----------------------------------------------------------------------------
LEMMA NextIInv == IInv /\ [Next]_vars => IInv'
<1> SUFFICES ASSUME IInv, [Next]_vars PROVE IInv'
  OBVIOUS
<1>1. ASSUME NEW p \in Proc, NEW q \in Proc, pid_alloc(p, q) PROVE IInv'
  BY <1>1, AllocStep
<1>2. ASSUME NEW p \in Proc, pid_alloc_nomem(p) PROVE IInv'
  BY <1>2, NomemStep
<1>3. ASSUME NEW p \in Proc, thread_fork(p) PROVE IInv'
  BY <1>3, ThreadForkStep
<1>4. ASSUME NEW p \in Proc, pid_unalloc(p) PROVE IInv'
  BY <1>4, UnallocStep
<1>5. ASSUME NEW p \in Proc, NEW s \in Status, pid_setexitstatus(p, s) PROVE IInv'
  BY <1>5, SetexitstatusStep
<1>6. ASSUME NEW p \in Proc, NEW pid \in Pids, pid_wait(p, pid) PROVE IInv'
  BY <1>6, WaitStep
<1>7. ASSUME NEW p \in Proc, pid_wait_return(p) PROVE IInv'
  BY <1>7, WaitReturnStep
<1>8. CASE common_prog_fail
  BY <1>8, PanicStep DEF common_prog_fail
<1>9. ASSUME NEW pid \in Pids, pid_disown(pid) PROVE IInv'
  BY <1>9, DisownStep
<1>10. CASE UNCHANGED vars
  <2> USE <1>10 DEF IInv, vars
  <2>1. Used' = Used
    BY DEF Used
  <2>2. (TypeOK /\ EntriesPlaced /\ ParentsLive /\ EntriesOwned /\ Counted)'
    BY <2>1 DEF TypeOK, EntriesPlaced, ParentsLive, EntriesOwned, Counted
  <2>3. (StatesAgree /\ ForkersAreParents /\ OwedAlive /\ WaitsForChild)'
    BY DEF StatesAgree, ForkersAreParents, OwedAlive, WaitsForChild, Alive, Info, pi_get
  <2>4. (LivingHaveEntries /\ StatusKept /\ AssertionsHold)'
    BY DEF LivingHaveEntries, StatusKept, AssertionsHold, Alive, Info, pi_get
  <2> QED
    BY <2>2, <2>3, <2>4
<1> QED
  BY <1>1, <1>2, <1>3, <1>4, <1>5, <1>6, <1>7, <1>8, <1>9, <1>10 DEF Next

LEMMA Invariance == Spec => []IInv
  BY InitIInv, NextIInv, PTL DEF Spec

(* For every number of slots and pids: a pid is not given to a second      *)
(* process while the first lives (pid_alloc), and nobody drops the entry   *)
(* of a process that has not exited (pid_wait, pid_disown, pid_unalloc and *)
(* pid_setexitstatus).                                                     *)
THEOREM LivingHaveEntriesCorrect == Spec => []LivingHaveEntries
<1>1. IInv => LivingHaveEntries
  BY DEF IInv
<1> QED
  BY <1>1, Invariance, PTL

(* Whatever the order in which parents and children exit, an entry that    *)
(* pid_setexitstatus leaves behind has a living parent to ask for it, and  *)
(* nprocs counts the entries.                                              *)
THEOREM NoZombieForeverCorrect == Spec => []NoZombieForever
<1>1. IInv => NoZombieForever
  BY DEF IInv, NoZombieForever, Counted, EntriesOwned, ParentsLive, Alive
<1> QED
  BY <1>1, Invariance, PTL

(* The status a child exited with (pid_setexitstatus) is in the table      *)
(* until its parent waits for it, gives it up or exits, although pids and  *)
(* slots are used again.                                                   *)
THEOREM StatusKeptCorrect == Spec => []StatusKept
<1>1. IInv => StatusKept
  BY DEF IInv
<1> QED
  BY <1>1, Invariance, PTL

(* No KASSERT of pid.c that the model has fails; the loop of pid_alloc     *)
(* ends within the limit it asserts for every PROCS_MAX, and every PID_MAX *)
(* that leaves each slot a pid.                                            *)
THEOREM AssertionsHoldCorrect == Spec => []AssertionsHold
<1>1. IInv => AssertionsHold
  BY DEF IInv
<1> QED
  BY <1>1, Invariance, PTL
=============================================================================
