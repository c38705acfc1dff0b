------------------------------ MODULE PidDrop -------------------------------
(***************************************************************************)
(* Dropping one entry of the process table, when a fork is taken back      *)
(* (pid_unalloc) or a status has been handed over (the end of pid_wait),   *)
(* keeps the invariant of module PidInvariant.                             *)
(***************************************************************************)
EXTENDS PidInvariant

USE ConstantsAssumption

(* What dropping one entry does to the table. *)
LEMMA DropEntry ==
    ASSUME IInv, NEW pid \in 1 .. PID_MAX, pi_get(pid),
           pidinfo' = [pidinfo EXCEPT ![SlotOf(pid)] = NoInfo],
           nprocs' = nprocs - 1
    PROVE  /\ Used' = Used \ {SlotOf(pid)}
           /\ \A i \in Used' : pidinfo'[i] = pidinfo[i] /\ pidinfo[i].pi_pid # pid
           /\ pidinfo' \in [Slot -> Entry] /\ nprocs' \in Nat /\ Counted'
           /\ EntriesPlaced'
           /\ \A x \in 1 .. PID_MAX : pi_get(x) /\ x # pid =>
                pi_get(x)' /\ Info(x)' = Info(x)
<1> USE DEF IInv
<1> PICK s \in Slot : s = SlotOf(pid)
  BY SlotOfType
<1>1. s \in Used
  BY FoundIsUsed DEF INVALID_PID
<1>2. Used' = Used \ {s}
  BY DEF Used, TypeOK
<1>3. \A i \in Used' : pidinfo'[i] = pidinfo[i] /\ pidinfo[i].pi_pid # pid
  BY <1>2 DEF EntriesPlaced, TypeOK, Used
<1>4. nprocs' \in Nat /\ Counted'
  <2>1. Cardinality(Used \ {s}) = Cardinality(Used) - 1
    BY <1>1, UsedFinite, FS_RemoveElement
  <2>2. Cardinality(Used) # 0
    BY <1>1, UsedFinite, FS_EmptySet
  <2> QED
    BY <1>2, <2>1, <2>2, UsedFinite DEF Counted
<1>5. EntriesPlaced'
  BY <1>2, <1>3 DEF EntriesPlaced
<1>6. pidinfo' \in [Slot -> Entry]
  BY DEF TypeOK, Entry, NoInfo, pidinfo_create, INVALID_PID, Beef
<1>7. \A x \in 1 .. PID_MAX : pi_get(x) /\ x # pid => pi_get(x)' /\ Info(x)' = Info(x)
  <2> SUFFICES ASSUME NEW x \in 1 .. PID_MAX, pi_get(x), x # pid
               PROVE  pidinfo'[SlotOf(x)] = pidinfo[SlotOf(x)]
    BY DEF pi_get, Info
  <2>1. SlotOf(x) \in Slot /\ SlotOf(x) # s
    BY SlotOfType DEF pi_get
  <2> QED
    BY <2>1 DEF TypeOK
<1> QED
  BY <1>2, <1>3, <1>4, <1>5, <1>6, <1>7

LEMMA UnallocStep ==
    ASSUME IInv, NEW p \in Proc, pid_unalloc(p)
    PROVE  IInv'
<1> USE DEF IInv
<1> PICK q \in Proc : q = with[p]
  BY DEF TypeOK
<1>1. st[p] = "fork" /\ st[q] = "new" /\ forker[q] = p /\ p # q
  BY DEF pid_unalloc, StatesAgree
<1>2. Alive(q) /\ Alive(p) /\ Info(p_pid[q]).pi_ppid = p_pid[p]
  BY <1>1, NULL \notin Proc DEF ForkersAreParents
<1> PICK them \in 1 .. PID_MAX : them = p_pid[q]
  BY <1>2 DEF Alive, TypeOK, INVALID_PID
<1>3. pi_get(them) /\ Info(them).pi_exited = 0
  BY <1>2 DEF LivingHaveEntries
<1>4. /\ pidinfo' = [pidinfo EXCEPT ![SlotOf(them)] = NoInfo]
      /\ nprocs' = nprocs - 1
      /\ p_pid' = [p_pid EXCEPT ![q] = INVALID_PID]
      /\ st' = [st EXCEPT ![p] = "run", ![q] = "none"]
      /\ with' = [with EXCEPT ![p] = p]
      /\ forker' = [forker EXCEPT ![q] = NULL]
      /\ status' \in {"ok", "waittest"}
      /\ UNCHANGED <<nextpid, waitpid, owed>>
  BY <1>2, <1>3 DEF pid_unalloc
<1>5. /\ Used' = Used \ {SlotOf(them)}
      /\ \A i \in Used' : pidinfo'[i] = pidinfo[i] /\ pidinfo[i].pi_pid # them
      /\ pidinfo' \in [Slot -> Entry] /\ nprocs' \in Nat /\ Counted'
      /\ EntriesPlaced'
      /\ \A x \in 1 .. PID_MAX : pi_get(x) /\ x # them =>
           pi_get(x)' /\ Info(x)' = Info(x)
  BY <1>3, <1>4, DropEntry
<1>6. \A i \in Used : pidinfo[i].pi_ppid # them   \* the child has no children
  BY <1>1, <1>2 DEF ParentsLive, LivingHaveEntries, INVALID_PID
<1>7. TypeOK'
  BY <1>4, <1>5 DEF TypeOK, INVALID_PID
<1>8. \A r \in Proc : r # q => p_pid'[r] = p_pid[r] /\ forker'[r] = forker[r]
                                /\ (r # p => st'[r] = st[r] /\ with'[r] = with[r])
  BY <1>4 DEF TypeOK
<1>9. /\ p_pid'[q] = INVALID_PID /\ forker'[q] = NULL /\ st'[q] = "none"
      /\ st'[p] = "run"
  BY <1>1, <1>4 DEF TypeOK
<1>10. ParentsLive'
  <2> SUFFICES ASSUME NEW i \in Used', pidinfo'[i].pi_ppid # INVALID_PID
               PROVE  \E r \in Proc : p_pid'[r] = pidinfo'[i].pi_ppid /\ st'[r] # "new"
    BY DEF ParentsLive
  <2>1. PICK r \in Proc : p_pid[r] = pidinfo[i].pi_ppid /\ st[r] # "new"
    BY <1>5 DEF ParentsLive
  <2> QED
    BY <1>1, <1>5, <1>8, <1>9, <2>1
<1>11. EntriesOwned'
  BY <1>5, <1>8 DEF EntriesOwned
<1>12. StatesAgree'
  BY <1>1, <1>8, <1>9 DEF StatesAgree, TypeOK, INVALID_PID
<1>13. \A r \in Proc : r # q /\ Alive(r) =>
         /\ p_pid[r] \in 1 .. PID_MAX /\ p_pid[r] # them /\ pi_get(p_pid[r])
         /\ Info(p_pid[r])' = Info(p_pid[r]) /\ pi_get(p_pid[r])' /\ Alive(r)'
  BY <1>2, <1>5, <1>8 DEF LivingHaveEntries, Alive, TypeOK, INVALID_PID, Info, pi_get
<1>14. \A r \in Proc : r # q /\ Alive(r) => SlotOf(p_pid[r]) \in Used
  BY AliveIsUsed
<1>15. ForkersAreParents'
  <2> SUFFICES ASSUME NEW r \in Proc, forker'[r] # NULL
               PROVE  /\ Alive(r)' /\ p_pid'[forker'[r]] # INVALID_PID
                      /\ Info(p_pid[r])'.pi_ppid = p_pid'[forker'[r]]
    BY DEF ForkersAreParents, Alive
  <2>1. r # q /\ forker[r] = forker'[r]
    BY <1>8, <1>9
  <2>2. /\ Alive(r) /\ Alive(forker[r]) /\ forker[r] \in Proc
        /\ Info(p_pid[r]).pi_ppid = p_pid[forker[r]]
    BY <2>1 DEF ForkersAreParents, TypeOK
  <2>3. forker[r] # q
    BY <1>6, <1>14, <2>1, <2>2 DEF Info
  <2> QED
    BY <1>8, <1>13, <2>1, <2>2, <2>3 DEF Alive
<1>16. \A r \in Proc : \A o \in owed[r] :
         o[1] \in 1 .. PID_MAX /\ o[1] # them /\ SlotOf(o[1]) \in Used /\ r # q
  <2> SUFFICES ASSUME NEW r \in Proc, NEW o \in owed[r]
               PROVE  o[1] \in 1 .. PID_MAX /\ o[1] # them /\ SlotOf(o[1]) \in Used /\ r # q
    OBVIOUS
  <2>1. o[1] \in 1 .. PID_MAX
    BY DEF TypeOK
  <2>2. o[1] # them /\ SlotOf(o[1]) \in Used
    BY <1>3, <2>1, FoundIsUsed DEF StatusKept, INVALID_PID
  <2> QED
    BY <1>6, <2>1, <2>2 DEF StatusKept, Info
<1>17. OwedAlive' /\ StatusKept'
  BY <1>4, <1>5, <1>8, <1>13, <1>16 DEF OwedAlive, StatusKept, Alive
<1>18. WaitsForChild'
  <2> SUFFICES ASSUME NEW r \in Proc, st'[r] \in {"wait", "woken"}
               PROVE  /\ waitpid[r] # INVALID_PID
                      /\ pi_get(waitpid[r])' /\ Info(waitpid[r])'.pi_ppid = p_pid'[r]
                      /\ st'[r] = "woken" => Info(waitpid[r])'.pi_exited = 1
    BY <1>4 DEF WaitsForChild, pi_get, Info
  <2>1. r # q /\ r # p /\ st[r] = st'[r] /\ p_pid'[r] = p_pid[r]
    BY <1>8, <1>9
  <2>2. waitpid[r] # them /\ waitpid[r] \in 1 .. PID_MAX
    BY <1>2, <2>1 DEF WaitsForChild, LivingHaveEntries, TypeOK, INVALID_PID
  <2> QED
    BY <1>4, <1>5, <2>1, <2>2 DEF WaitsForChild, pi_get, Info
<1>19. LivingHaveEntries'
  BY <1>8, <1>9, <1>13 DEF LivingHaveEntries, Alive, Info, pi_get
<1> QED
  BY <1>4, <1>5, <1>7, <1>10, <1>11, <1>12, <1>15, <1>17, <1>18, <1>19
     DEF AssertionsHold

LEMMA ReapStep ==
    ASSUME IInv, NEW p \in Proc, NEW pid \in 1 .. PID_MAX, Reap(p, pid),
           st[p] \in {"run", "woken"}, pi_get(pid),
           Info(pid).pi_ppid = p_pid[p], Info(pid).pi_exited = 1
    PROVE  IInv'
<1> USE DEF IInv
<1>1. /\ pidinfo' = [pidinfo EXCEPT ![SlotOf(pid)] = NoInfo]
      /\ nprocs' = nprocs - 1
      /\ st' = [st EXCEPT ![p] = "run"]
      /\ waitpid' = [waitpid EXCEPT ![p] = INVALID_PID]
      /\ owed' = [owed EXCEPT ![p] = {o \in @ : o[1] # pid}]
      /\ UNCHANGED <<nextpid, p_pid, with, forker, status>>
  BY DEF Reap
<1>2. /\ Used' = Used \ {SlotOf(pid)}
      /\ \A i \in Used' : pidinfo'[i] = pidinfo[i] /\ pidinfo[i].pi_pid # pid
      /\ pidinfo' \in [Slot -> Entry] /\ nprocs' \in Nat /\ Counted'
      /\ EntriesPlaced'
      /\ \A x \in 1 .. PID_MAX : pi_get(x) /\ x # pid =>
           pi_get(x)' /\ Info(x)' = Info(x)
  BY <1>1, DropEntry
<1>3. Alive(p)
  BY DEF StatesAgree, Alive
<1>4. \A r \in Proc : r # p => p_pid[r] # p_pid[p] /\ st'[r] = st[r]
                                /\ waitpid'[r] = waitpid[r] /\ owed'[r] = owed[r]
  BY <1>1, <1>3 DEF LivingHaveEntries, TypeOK
<1>5. st'[p] = "run" /\ owed'[p] = {o \in owed[p] : o[1] # pid}
  BY <1>1 DEF TypeOK
<1>6. TypeOK'
  <2>1. owed' \in [Proc -> SUBSET ((1 .. PID_MAX) \X Status)]
    BY <1>1, <1>5 DEF TypeOK
  <2> QED
    BY <1>1, <1>2, <2>1 DEF TypeOK, INVALID_PID
<1>7. ParentsLive'
  <2> SUFFICES ASSUME NEW i \in Used', pidinfo'[i].pi_ppid # INVALID_PID
               PROVE  \E r \in Proc : p_pid'[r] = pidinfo'[i].pi_ppid /\ st'[r] # "new"
    BY DEF ParentsLive
  <2>1. PICK r \in Proc : p_pid[r] = pidinfo[i].pi_ppid /\ st[r] # "new"
    BY <1>2 DEF ParentsLive
  <2> QED
    BY <1>1, <1>2, <1>4, <1>5, <2>1
<1>8. EntriesOwned'
  BY <1>1, <1>2 DEF EntriesOwned
<1>9. StatesAgree'
  <2> SUFFICES ASSUME NEW r \in Proc
               PROVE  /\ st'[r] = "none" <=> p_pid'[r] = INVALID_PID
                      /\ st'[r] = "fork" => st'[with'[r]] = "new" /\ forker'[with'[r]] = r
    BY DEF StatesAgree
  <2>1. with[r] \in Proc
    BY DEF TypeOK
  <2> QED
    BY <1>1, <1>3, <1>4, <1>5, <2>1 DEF StatesAgree, Alive
<1>10. \A r \in Proc : Alive(r) =>
         /\ pi_get(p_pid[r]) /\ pi_get(p_pid[r])' /\ Info(p_pid[r])' = Info(p_pid[r])
  <2> SUFFICES ASSUME NEW r \in Proc, Alive(r)
               PROVE  /\ pi_get(p_pid[r])
                      /\ pidinfo'[SlotOf(p_pid[r])] = pidinfo[SlotOf(p_pid[r])]
    BY <1>1 DEF Info, pi_get
  <2>1. p_pid[r] \in 1 .. PID_MAX /\ p_pid[r] # pid /\ pi_get(p_pid[r])
    BY DEF LivingHaveEntries, Alive, TypeOK, INVALID_PID
  <2> QED
    BY <1>1, <1>2, <2>1 DEF Info
<1>11. ForkersAreParents' /\ LivingHaveEntries'
  BY <1>1, <1>10 DEF ForkersAreParents, LivingHaveEntries, Alive, Info, pi_get
<1>12. OwedAlive'
  BY <1>1, <1>3, <1>4 DEF OwedAlive, Alive
<1>13. StatusKept'
  <2> SUFFICES ASSUME NEW r \in Proc, NEW o \in owed'[r]
               PROVE  /\ pi_get(o[1])' /\ pidinfo'[SlotOf(o[1])].pi_ppid = p_pid[r]
                      /\ pidinfo'[SlotOf(o[1])].pi_exited = 1
                      /\ pidinfo'[SlotOf(o[1])].pi_exitstatus = o[2]
    BY <1>1 DEF StatusKept, Info, pi_get
  <2>1. o \in owed[r] /\ (r = p => o[1] # pid)
    BY <1>4, <1>5
  <2>2. o[1] \in 1 .. PID_MAX /\ o[1] # pid
    BY <1>4, <2>1 DEF StatusKept, TypeOK
  <2>3. pi_get(o[1])' /\ pidinfo'[SlotOf(o[1])] = pidinfo[SlotOf(o[1])]
    BY <1>2, <2>1, <2>2 DEF StatusKept, Info, pi_get
  <2> QED
    BY <2>1, <2>3 DEF StatusKept, Info
<1>14. WaitsForChild'
  <2> SUFFICES ASSUME NEW r \in Proc, st'[r] \in {"wait", "woken"}
               PROVE  /\ waitpid'[r] # INVALID_PID
                      /\ pidinfo'[SlotOf(waitpid'[r])].pi_pid = waitpid'[r]
                      /\ pidinfo'[SlotOf(waitpid'[r])].pi_ppid = p_pid[r]
                      /\ st'[r] = "woken" => pidinfo'[SlotOf(waitpid'[r])].pi_exited = 1
    BY <1>1 DEF WaitsForChild, pi_get, Info, SlotOf
  <2>1. r # p /\ st[r] = st'[r] /\ waitpid'[r] = waitpid[r]
    BY <1>4, <1>5
  <2>2. waitpid[r] \in 1 .. PID_MAX /\ waitpid[r] # pid /\ pi_get(waitpid[r])
    BY <1>4, <2>1 DEF WaitsForChild, TypeOK, INVALID_PID
  <2>3. pidinfo'[SlotOf(waitpid[r])] = pidinfo[SlotOf(waitpid[r])]
    BY <1>2, <2>2 DEF Info
  <2> QED
    BY <2>1, <2>2, <2>3 DEF WaitsForChild, Info, pi_get
<1> QED
  BY <1>1, <1>2, <1>6, <1>7, <1>8, <1>9, <1>11, <1>12, <1>13, <1>14 DEF AssertionsHold
=============================================================================
