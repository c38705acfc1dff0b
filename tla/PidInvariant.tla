---------------------------- MODULE PidInvariant ----------------------------
(***************************************************************************)
(* The inductive invariant of module Pid, for every number of processes,   *)
(* slots and pids; that it holds at first, and that the steps of a fork    *)
(* that succeeds keep it.  PidExit has the step in which a process exits,  *)
(* PidDrop those that drop one entry, and PidProofs the theorems.          *)
(***************************************************************************)
EXTENDS Pid, FiniteSetTheorems, TLAPS

Entry == [pi_pid : Nat, pi_ppid : Nat, pi_exited : {0, 1}, pi_exitstatus : Nat]

TypeOK ==
    /\ pidinfo \in [Slot -> Entry]
    /\ nextpid \in Pids
    /\ nprocs \in Nat
    /\ p_pid \in [Proc -> 0 .. PID_MAX]
    /\ st \in [Proc -> {"none", "new", "run", "fork", "wait", "woken"}]
    /\ with \in [Proc -> Proc]
    /\ waitpid \in [Proc -> 0 .. PID_MAX]
    /\ forker \in [Proc -> Proc \cup {NULL}]
    /\ owed \in [Proc -> SUBSET ((1 .. PID_MAX) \X Status)]
    /\ status \in {"ok", "assert", "proc_destroy", "waittest"}

(* An entry is in the slot of its pid, and no process is its own parent. *)
EntriesPlaced ==
    \A i \in Used :
      /\ pidinfo[i].pi_pid \in 1 .. PID_MAX /\ SlotOf(pidinfo[i].pi_pid) = i
      /\ pidinfo[i].pi_ppid # pidinfo[i].pi_pid

(* A parent lives and has run; so no process inherits, with a pid that was *)
(* used before, the children of another.                                   *)
ParentsLive ==
    \A i \in Used : pidinfo[i].pi_ppid # INVALID_PID =>
      \E p \in Proc : p_pid[p] = pidinfo[i].pi_ppid /\ st[p] # "new"

(* An entry is of a living process, or of one whose parent has not asked.  *)
EntriesOwned ==
    \A i \in Used :
      \/ pidinfo[i].pi_exited = 0 /\ \E p \in Proc : p_pid[p] = pidinfo[i].pi_pid
      \/ pidinfo[i].pi_exited = 1 /\ pidinfo[i].pi_ppid # INVALID_PID

Counted == nprocs = Cardinality(Used)

StatesAgree ==
    \A p \in Proc :
      /\ st[p] = "none" <=> p_pid[p] = INVALID_PID
      /\ st[p] = "fork" => st[with[p]] = "new" /\ forker[with[p]] = p

(* The process that will ask for a status is the parent in the table. *)
ForkersAreParents ==
    \A q \in Proc : forker[q] # NULL =>
      Alive(q) /\ Alive(forker[q]) /\ Info(p_pid[q]).pi_ppid = p_pid[forker[q]]

OwedAlive == \A p \in Proc : owed[p] # {} => Alive(p)

(* What a process waits for is a child that is still in the table. *)
WaitsForChild ==
    \A p \in Proc : st[p] \in {"wait", "woken"} =>
      /\ waitpid[p] # INVALID_PID
      /\ pi_get(waitpid[p]) /\ Info(waitpid[p]).pi_ppid = p_pid[p]
      /\ st[p] = "woken" => Info(waitpid[p]).pi_exited = 1

IInv ==
    /\ TypeOK /\ EntriesPlaced /\ ParentsLive /\ EntriesOwned /\ Counted
    /\ StatesAgree /\ ForkersAreParents /\ OwedAlive /\ WaitsForChild
    /\ LivingHaveEntries /\ StatusKept /\ AssertionsHold
-----------------------------------------------------------------------------
USE ConstantsAssumption

(* The remainder is the one number below the divisor that fits. *)
LEMMA ModUnique ==
    ASSUME NEW n \in Nat, n > 0, NEW a \in Nat, NEW i \in 0 .. n - 1
    PROVE  (n * a + i) % n = i
<1> DEFINE x == n * a + i
<1> DEFINE q == x \div n
<1> DEFINE r == x % n
<1>1. x \in Nat
  OBVIOUS
<1>2. q \in Nat /\ r \in 0 .. n - 1 /\ x = n * q + r
  BY <1>1
<1> HIDE DEF q, r
<1>3. n * (q - a) = i - r
  BY <1>2
<1>4. q - a = 0
  <2>1. CASE q - a >= 1
    <3>1. n * (q - a) >= n
      BY <1>2, <2>1
    <3> QED
      BY <1>2, <1>3, <3>1
  <2>2. CASE q - a <= -1
    <3>1. n * (q - a) <= -n
      BY <1>2, <2>2
    <3> QED
      BY <1>2, <1>3, <3>1
  <2> QED
    BY <1>2, <2>1, <2>2
<1>5. r = i
  BY <1>2, <1>3, <1>4
<1> QED
  BY <1>5 DEF r

LEMMA SlotOfType == \A pid \in Nat : SlotOf(pid) \in Slot
  BY DEF SlotOf, Slot, PID_MIN

LEMMA IncType ==
    ASSUME nextpid \in Pids, NEW k \in Nat
    PROVE  inc_nextpid(k) \in Pids
  BY DEF inc_nextpid, Pids, PID_MIN

LEMMA UsedFinite == /\ IsFiniteSet(Slot) /\ Cardinality(Slot) = PROCS_MAX
                    /\ IsFiniteSet(Used) /\ Cardinality(Used) \in Nat
<1>1. IsFiniteSet(Slot) /\ Cardinality(Slot) = PROCS_MAX
  BY FS_Interval DEF Slot, PID_MIN
<1>2. Used \subseteq Slot
  BY DEF Used
<1> QED
  BY <1>1, <1>2, FS_Subset, FS_CardinalityType

(* A table that is not full has a slot that the loop of pid_alloc comes to *)
(* within the limit.                                                       *)
LEMMA ScanFinds ==
    ASSUME nextpid \in Pids, Counted, nprocs # PROCS_MAX
    PROVE  \E k \in 0 .. ScanLimit : ~Occupied(k)
<1> DEFINE N == PROCS_MAX
<1> DEFINE M == PID_MAX - PID_MIN + 1
<1>0. N \in Nat /\ N > 2 /\ M \in Nat /\ M >= 2 * N - 2 /\ PID_MAX = M + 1
  BY DEF PID_MIN
<1>1. PICK i \in Slot : i \notin Used
  <2>1. Used # Slot
    BY UsedFinite DEF Counted
  <2> QED
    BY <2>1 DEF Used
<1>2. i \in 0 .. N - 1 /\ nextpid \in Nat /\ nextpid >= 2 /\ nextpid <= M + 1
  BY <1>0 DEF Slot, Pids, PID_MIN
<1>3. SUFFICES \E k \in 0 .. ScanLimit : SlotOf(inc_nextpid(k)) = i
  BY <1>1 DEF Occupied
<1>4. CASE nextpid + N - 1 <= PID_MAX
  <2> DEFINE a == nextpid \div N
  <2> DEFINE r == nextpid % N
  <2>1. a \in Nat /\ r \in 0 .. N - 1 /\ nextpid = N * a + r
    BY <1>0, <1>2
  <2> HIDE DEF a, r, N, M
  <2>2. PICK k \in 0 .. N - 1 : \E b \in Nat : nextpid + k = N * b + i
    <3>1. CASE i >= r
      <4>1. i - r \in 0 .. N - 1 /\ nextpid + (i - r) = N * a + i
        BY <1>0, <1>2, <2>1, <3>1
      <4> QED
        BY <2>1, <4>1
    <3>2. CASE i < r
      <4>1. N + i - r \in 0 .. N - 1 /\ nextpid + (N + i - r) = N * (a + 1) + i
        BY <1>0, <1>2, <2>1, <3>2
      <4> QED
        BY <2>1, <4>1
    <3> QED
      BY <1>2, <2>1, <3>1, <3>2
  <2>3. (M * 0 + (nextpid - 2 + k)) % M = nextpid - 2 + k
    <3>1. nextpid - 2 + k \in 0 .. M - 1 /\ M > 0
      BY <1>0, <1>2, <1>4, <2>2 DEF N
    <3> QED
      BY <1>0, <3>1, ModUnique
  <2>4. inc_nextpid(k) = nextpid + k
    BY <1>0, <1>2, <2>2, <2>3 DEF inc_nextpid, PID_MIN, M
  <2>5. SlotOf(nextpid + k) = i
    <3>1. PICK b \in Nat : nextpid + k = N * b + i
      BY <2>2
    <3>2. (N * b + i) % N = i
      BY <1>0, <1>2, ModUnique
    <3> QED
      BY <3>1, <3>2 DEF SlotOf, N
  <2> QED
    BY <1>0, <2>2, <2>4, <2>5 DEF ScanLimit, N
<1>5. CASE nextpid + N - 1 > PID_MAX
  <2> HIDE DEF N, M
  <2>1. PICK pid \in 2 .. N + 1 : SlotOf(pid) = i
    <3>1. CASE i >= 2
      <4>1. (N * 0 + i) % N = i
        BY <1>0, <1>2, ModUnique
      <4> QED
        BY <1>0, <1>2, <3>1, <4>1 DEF SlotOf, N
    <3>2. CASE i < 2
      <4>1. (N * 1 + i) % N = i
        BY <1>0, <1>2, ModUnique
      <4> QED
        BY <1>0, <1>2, <3>2, <4>1 DEF SlotOf, N
    <3> QED
      BY <1>2, <3>1, <3>2
  <2>2. PICK k \in Nat : k = M + pid - nextpid
    BY <1>0, <1>2, <2>1
  <2>3. k <= ScanLimit
    BY <1>0, <1>2, <1>5, <2>1, <2>2 DEF ScanLimit, N
  <2>4. (M * 1 + (pid - 2)) % M = pid - 2
    BY <1>0, <2>1, ModUnique
  <2>5. inc_nextpid(k) = pid
    BY <1>0, <1>2, <2>1, <2>2, <2>4 DEF inc_nextpid, PID_MIN, M
  <2> QED
    BY <2>1, <2>2, <2>3, <2>5
<1> QED
  BY <1>0, <1>2, <1>4, <1>5
-----------------------------------------------------------------------------
LEMMA InitIInv == Init => IInv
<1> SUFFICES ASSUME Init PROVE IInv
  OBVIOUS
<1> USE DEF Init, KERNEL_PID, INVALID_PID, NoInfo, pidinfo_create
<1>0. SlotOf(KERNEL_PID) = KERNEL_PID /\ KERNEL_PID \in Slot
  <2>1. (PROCS_MAX * 0 + 1) % PROCS_MAX = 1
    BY ModUnique DEF PID_MIN
  <2> QED
    BY <2>1 DEF SlotOf, Slot, PID_MIN
<1>1. Used = {KERNEL_PID}
  BY <1>0 DEF Used
<1>2. TypeOK
  BY DEF TypeOK, Entry, Pids, PID_MIN, Beef
<1>3. EntriesPlaced /\ ParentsLive /\ EntriesOwned
  BY <1>0, <1>1, <1>2 DEF EntriesPlaced, ParentsLive, EntriesOwned, TypeOK, PID_MIN
<1>4. Counted
  BY <1>1, FS_Singleton DEF Counted
<1>5. StatesAgree /\ ForkersAreParents /\ OwedAlive /\ WaitsForChild
  BY DEF StatesAgree, ForkersAreParents, OwedAlive, WaitsForChild
<1>6. LivingHaveEntries /\ StatusKept /\ AssertionsHold
  BY <1>0 DEF LivingHaveEntries, StatusKept, AssertionsHold, Alive, pi_get, Info
<1> QED
  BY <1>2, <1>3, <1>4, <1>5, <1>6 DEF IInv

(* An entry that is found for a pid is in use. *)
LEMMA FoundIsUsed ==
    ASSUME NEW pid \in Nat, pid # INVALID_PID, pi_get(pid)
    PROVE  SlotOf(pid) \in Used
  BY SlotOfType DEF pi_get, Used, NoInfo, pidinfo_create

(* A process that has a pid has an entry in use. *)
LEMMA AliveIsUsed ==
    ASSUME IInv, NEW p \in Proc, Alive(p)
    PROVE  SlotOf(p_pid[p]) \in Used /\ Info(p_pid[p]).pi_pid = p_pid[p]
  BY FoundIsUsed DEF IInv, TypeOK, LivingHaveEntries, Alive, pi_get, Info

(* A step that only changes status to something other than "assert". *)
LEMMA PanicStep ==
    ASSUME IInv, NEW why, why = "proc_destroy", Panic(why)
    PROVE  IInv'
<1> USE DEF IInv, Panic
<1>1. Used' = Used
  BY DEF Used
<1>2. TypeOK'
  BY DEF TypeOK
<1>3. (EntriesPlaced /\ ParentsLive /\ EntriesOwned /\ Counted)'
  BY <1>1 DEF EntriesPlaced, ParentsLive, EntriesOwned, Counted
<1>4. (StatesAgree /\ ForkersAreParents /\ OwedAlive /\ WaitsForChild)'
  BY DEF StatesAgree, ForkersAreParents, OwedAlive, WaitsForChild, Alive, Info, pi_get
<1>5. (LivingHaveEntries /\ StatusKept /\ AssertionsHold)'
  BY DEF LivingHaveEntries, StatusKept, AssertionsHold, Alive, Info, pi_get
<1> QED
  BY <1>2, <1>3, <1>4, <1>5

LEMMA AllocStep ==
    ASSUME IInv, NEW p \in Proc, NEW q \in Proc, pid_alloc(p, q)
    PROVE  IInv'
<1> USE DEF IInv
<1>1. \E k \in 0 .. ScanLimit : ~Occupied(k)
  BY ScanFinds DEF pid_alloc, TypeOK
<1>2. PICK k \in 0 .. ScanLimit :
        /\ ~Occupied(k)
        /\ pidinfo' = [pidinfo EXCEPT ![SlotOf(inc_nextpid(k))] =
                          pidinfo_create(inc_nextpid(k), p_pid[p])]
        /\ nextpid' = inc_nextpid(k + 1)
        /\ p_pid' = [p_pid EXCEPT ![q] = inc_nextpid(k)]
  BY <1>1 DEF pid_alloc, ScanEnds
<1> PICK pid \in Pids : pid = inc_nextpid(k) /\ nextpid' \in Pids
  BY <1>2, IncType DEF TypeOK, ScanLimit
<1> PICK s \in Slot : s = SlotOf(pid)
  BY SlotOfType DEF Pids, PID_MIN
<1>3. /\ st[p] = "run" /\ st[q] = "none" /\ status = "ok"
      /\ nprocs' = nprocs + 1
      /\ st' = [st EXCEPT ![p] = "fork", ![q] = "new"]
      /\ with' = [with EXCEPT ![p] = q]
      /\ forker' = [forker EXCEPT ![q] = p]
      /\ UNCHANGED <<waitpid, owed, status>>
  BY <1>1 DEF pid_alloc
<1>4. /\ pidinfo' = [pidinfo EXCEPT ![s] = pidinfo_create(pid, p_pid[p])]
      /\ p_pid' = [p_pid EXCEPT ![q] = pid]
      /\ s \notin Used /\ pid \in 2 .. PID_MAX
  BY <1>2 DEF Occupied, Pids, PID_MIN
<1>5. p # q /\ Alive(p) /\ ~Alive(q)
  BY <1>3 DEF StatesAgree, Alive
<1>6. \A r \in Proc : Alive(r) => SlotOf(p_pid[r]) # s /\ p_pid[r] # pid
  BY <1>4, AliveIsUsed
<1>7. Used' = Used \cup {s}
  BY <1>4 DEF Used, TypeOK, NoInfo, pidinfo_create, INVALID_PID
<1>8. \A i \in Used : pidinfo'[i] = pidinfo[i] /\ i # s /\ i \in Slot
  BY <1>4 DEF TypeOK, Used
<1>9. pidinfo'[s] = pidinfo_create(pid, p_pid[p])
  BY <1>4 DEF TypeOK
<1>10. TypeOK'
  BY <1>3, <1>4 DEF TypeOK, Entry, pidinfo_create, Beef
<1>11. EntriesPlaced'
  BY <1>4, <1>5, <1>6, <1>7, <1>8, <1>9 DEF EntriesPlaced, pidinfo_create
<1>12. ParentsLive'
  BY <1>3, <1>4, <1>5, <1>7, <1>8, <1>9
     DEF ParentsLive, pidinfo_create, TypeOK, Alive, INVALID_PID
<1>13. EntriesOwned'
  BY <1>4, <1>5, <1>7, <1>8, <1>9
     DEF EntriesOwned, EntriesPlaced, pidinfo_create, TypeOK, Alive, INVALID_PID
<1>14. Counted'
  BY <1>3, <1>4, <1>7, UsedFinite, FS_AddElement DEF Counted
<1>15. StatesAgree'
  BY <1>3, <1>4, <1>5 DEF StatesAgree, TypeOK, INVALID_PID
<1>16. \A r \in Proc : Alive(r) =>
         Info(p_pid[r])' = Info(p_pid[r]) /\ p_pid'[r] = p_pid[r] /\ r # q
  BY <1>4, <1>5, <1>6, <1>8, AliveIsUsed DEF Info, TypeOK
<1>17. ForkersAreParents'
  BY <1>3, <1>4, <1>5, <1>9, <1>16
     DEF ForkersAreParents, TypeOK, Alive, Info, INVALID_PID, pidinfo_create
<1>18. \A x \in 1 .. PID_MAX : pi_get(x) => pi_get(x)' /\ Info(x)' = Info(x)
  BY <1>8, FoundIsUsed DEF pi_get, Info, INVALID_PID
<1>19. OwedAlive' /\ StatusKept'
  BY <1>3, <1>16, <1>18 DEF OwedAlive, StatusKept, TypeOK, Alive
<1>20. WaitsForChild'
  BY <1>3, <1>5, <1>16, <1>18 DEF WaitsForChild, StatesAgree, TypeOK, Alive, INVALID_PID
<1>21. LivingHaveEntries'
  BY <1>4, <1>5, <1>6, <1>9, <1>16
     DEF LivingHaveEntries, TypeOK, Alive, Info, pi_get, pidinfo_create, INVALID_PID
<1> QED
  BY <1>3, <1>10, <1>11, <1>12, <1>13, <1>14, <1>15, <1>17, <1>19, <1>20, <1>21
     DEF AssertionsHold

LEMMA NomemStep ==
    ASSUME IInv, NEW p \in Proc, pid_alloc_nomem(p)
    PROVE  IInv'
<1> USE DEF IInv
<1>1. /\ UNCHANGED <<pidinfo, nprocs, p_pid, st, with, waitpid, forker, owed, status>>
      /\ nextpid' \in Pids
  BY IncType DEF pid_alloc_nomem, TypeOK, ScanLimit
<1>2. Used' = Used
  BY <1>1 DEF Used
<1>3. TypeOK'
  BY <1>1 DEF TypeOK
<1>4. (EntriesPlaced /\ ParentsLive /\ EntriesOwned /\ Counted)'
  BY <1>1, <1>2 DEF EntriesPlaced, ParentsLive, EntriesOwned, Counted
<1>5. (StatesAgree /\ ForkersAreParents /\ OwedAlive /\ WaitsForChild)'
  BY <1>1 DEF StatesAgree, ForkersAreParents, OwedAlive, WaitsForChild, Alive, Info, pi_get
<1>6. (LivingHaveEntries /\ StatusKept /\ AssertionsHold)'
  BY <1>1 DEF LivingHaveEntries, StatusKept, AssertionsHold, Alive, Info, pi_get
<1> QED
  BY <1>3, <1>4, <1>5, <1>6

LEMMA ThreadForkStep ==
    ASSUME IInv, NEW p \in Proc, thread_fork(p)
    PROVE  IInv'
<1> USE DEF IInv
<1> PICK q \in Proc : q = with[p]
  BY DEF TypeOK
<1>1. /\ UNCHANGED <<pidinfo, nextpid, nprocs, p_pid, waitpid, forker, owed, status>>
      /\ st' = [st EXCEPT ![p] = "run", ![q] = "run"]
      /\ with' = [with EXCEPT ![p] = p]
      /\ st[p] = "fork" /\ st[q] = "new" /\ forker[q] = p
  BY DEF thread_fork, StatesAgree
<1>2. Used' = Used
  BY <1>1 DEF Used
<1>3. TypeOK'
  BY <1>1 DEF TypeOK
<1>4. \A r \in Proc :
        /\ r \notin {p, q} => st'[r] = st[r] /\ with'[r] = with[r]
        /\ r \in {p, q} => st'[r] = "run"
  BY <1>1 DEF TypeOK
<1>5. (EntriesPlaced /\ EntriesOwned /\ Counted)'
  BY <1>1, <1>2 DEF EntriesPlaced, EntriesOwned, Counted
<1>6. ParentsLive'
  <2> SUFFICES ASSUME NEW i \in Used, pidinfo[i].pi_ppid # INVALID_PID
               PROVE  \E r \in Proc : p_pid[r] = pidinfo[i].pi_ppid /\ st'[r] # "new"
    BY <1>1, <1>2 DEF ParentsLive
  <2> PICK r \in Proc : p_pid[r] = pidinfo[i].pi_ppid /\ st[r] # "new"
    BY DEF ParentsLive
  <2> QED
    BY <1>4
<1>7. StatesAgree'
  <2> SUFFICES ASSUME NEW r \in Proc
               PROVE  /\ st'[r] = "none" <=> p_pid[r] = INVALID_PID
                      /\ st'[r] = "fork" => st'[with'[r]] = "new" /\ forker[with'[r]] = r
    BY <1>1 DEF StatesAgree
  <2> QED
    BY <1>1, <1>4 DEF StatesAgree, TypeOK
<1>8. (ForkersAreParents /\ OwedAlive)'
  BY <1>1 DEF ForkersAreParents, OwedAlive, Alive, Info
<1>9. WaitsForChild'
  <2> SUFFICES ASSUME NEW r \in Proc, st'[r] \in {"wait", "woken"}
               PROVE  /\ waitpid[r] # INVALID_PID
                      /\ pi_get(waitpid[r]) /\ Info(waitpid[r]).pi_ppid = p_pid[r]
                      /\ st'[r] = "woken" => Info(waitpid[r]).pi_exited = 1
    BY <1>1 DEF WaitsForChild, Info, pi_get
  <2>1. st[r] = st'[r]
    BY <1>4
  <2> QED
    BY <2>1 DEF WaitsForChild
<1>10. (LivingHaveEntries /\ StatusKept /\ AssertionsHold)'
  BY <1>1 DEF LivingHaveEntries, StatusKept, AssertionsHold, Alive, Info, pi_get
<1> QED
  BY <1>3, <1>5, <1>6, <1>7, <1>8, <1>9, <1>10
=============================================================================
