------------------------------ MODULE PidExit -------------------------------
(***************************************************************************)
(* The exit of a process (pid_setexitstatus), which changes its own entry, *)
(* the entries of all its children and what its parent is owed in one      *)
(* step, keeps the invariant of module PidInvariant.                       *)
(***************************************************************************)
EXTENDS PidInvariant

USE ConstantsAssumption

LEMMA SetexitstatusStep ==
    ASSUME IInv, NEW p \in Proc, NEW s \in Status, pid_setexitstatus(p, s)
    PROVE  IInv'
<1> USE DEF IInv
<1> DEFINE kids == {i \in Used : pidinfo[i].pi_ppid = p_pid[p]}
<1> DEFINE m == SlotOf(p_pid[p])
<1> DEFINE orphan == pidinfo[m].pi_ppid = INVALID_PID
<1> DEFINE dropped == {i \in kids : pidinfo[i].pi_exited = 1}
                        \union IF orphan THEN {m} ELSE {}
<1>1. st[p] = "run" /\ status = "ok" /\ Alive(p) /\ p_pid[p] \in 1 .. PID_MAX
  <2>1. st[p] = "run" /\ status = "ok"
    BY Zenon DEF pid_setexitstatus
  <2> QED
    BY <2>1 DEF StatesAgree, Alive, TypeOK, INVALID_PID
<1>2. /\ pi_get(p_pid[p]) /\ pidinfo[m].pi_pid = p_pid[p] /\ pidinfo[m].pi_exited = 0
      /\ m \in Used /\ m \in Slot
  BY <1>1, AliveIsUsed DEF LivingHaveEntries, Info, Used
<1>3. m \notin kids /\ dropped \subseteq Used
  BY <1>2 DEF EntriesPlaced
<1>4. pidinfo' = [i \in Slot |->
         CASE i \in dropped -> NoInfo
           [] i \in kids \ dropped -> [pidinfo[i] EXCEPT !.pi_ppid = INVALID_PID]
           [] i = m /\ ~orphan ->
                [pidinfo[i] EXCEPT !.pi_exited = 1, !.pi_exitstatus = s]
           [] OTHER -> pidinfo[i]]
  BY <1>2, Zenon DEF pid_setexitstatus
<1>5. /\ nprocs' = nprocs - Cardinality(dropped)
      /\ p_pid' = [p_pid EXCEPT ![p] = INVALID_PID]
      /\ st' = [q \in Proc |-> IF q = p THEN "none"
                 ELSE IF st[q] = "wait" /\ waitpid[q] = p_pid[p] /\ ~orphan
                 THEN "woken" ELSE st[q]]
      /\ owed' = [q \in Proc |-> IF q = p THEN {}
           ELSE owed[q] \union IF forker[p] = q THEN {<<p_pid[p], s>>} ELSE {}]
      /\ forker' = [q \in Proc |-> IF q = p \/ forker[q] = p THEN NULL ELSE forker[q]]
      /\ UNCHANGED <<nextpid, with, waitpid, status>>
  BY <1>2, Zenon DEF pid_setexitstatus
<1>6. \A q \in Proc :
        /\ p_pid'[q] = IF q = p THEN INVALID_PID ELSE p_pid[q]
        /\ st'[q] = IF q = p THEN "none"
                    ELSE IF st[q] = "wait" /\ waitpid[q] = p_pid[p] /\ ~orphan
                    THEN "woken" ELSE st[q]
        /\ owed'[q] = IF q = p THEN {}
             ELSE owed[q] \union IF forker[p] = q THEN {<<p_pid[p], s>>} ELSE {}
        /\ forker'[q] = IF q = p \/ forker[q] = p THEN NULL ELSE forker[q]
  <2> HIDE DEF orphan, m, dropped
  <2> QED
    BY <1>5 DEF TypeOK
<1>7. \A i \in Slot : pidinfo[i] \in Entry
  BY DEF TypeOK
<1>8. /\ \A i \in dropped : pidinfo'[i] = NoInfo
      /\ \A i \in kids \ dropped :
           /\ pidinfo'[i] = [pidinfo[i] EXCEPT !.pi_ppid = INVALID_PID]
           /\ pidinfo[i].pi_exited = 0
      /\ ~orphan => pidinfo'[m] = [pidinfo[m] EXCEPT !.pi_exited = 1, !.pi_exitstatus = s]
      /\ \A i \in Slot : i \notin kids /\ i # m => pidinfo'[i] = pidinfo[i]
  <2>1. dropped \subseteq Slot /\ kids \subseteq Slot
    BY <1>3 DEF Used
  <2>2. \A i \in kids \ dropped : pidinfo[i].pi_exited = 0
    BY <1>7, <2>1 DEF Entry
  <2>3. m \notin kids /\ (m \in dropped <=> orphan)
    BY <1>3
  <2>4. \A i \in dropped : i \in kids \/ i = m
    OBVIOUS
  <2> HIDE DEF kids, dropped, orphan, m
  <2> QED
    BY <1>2, <1>4, <2>1, <2>2, <2>3, <2>4, Zenon
<1>9. Used' = Used \ dropped
  <2>1. \A i \in kids \ dropped : pidinfo'[i] # NoInfo
    <3> SUFFICES ASSUME NEW i \in kids \ dropped
                 PROVE  pidinfo'[i].pi_pid # 0
      BY DEF NoInfo, pidinfo_create, INVALID_PID
    <3>1. pidinfo'[i] = [pidinfo[i] EXCEPT !.pi_ppid = INVALID_PID]
      BY <1>8
    <3>2. i \in Used /\ pidinfo[i] \in Entry
      BY <1>7 DEF Used
    <3>3. pidinfo'[i].pi_pid = pidinfo[i].pi_pid
      BY <3>1, <3>2 DEF Entry
    <3> QED
      BY <3>2, <3>3 DEF EntriesPlaced
  <2>2. ~orphan => pidinfo'[m] # NoInfo
    <3> SUFFICES ASSUME ~orphan PROVE pidinfo'[m].pi_pid # 0
      BY DEF NoInfo, pidinfo_create, INVALID_PID
    <3>1. pidinfo'[m] = [pidinfo[m] EXCEPT !.pi_exited = 1, !.pi_exitstatus = s]
      BY <1>8
    <3>2. pidinfo[m] \in Entry
      BY <1>2, <1>7
    <3> HIDE DEF m
    <3>3. pidinfo'[m].pi_pid = pidinfo[m].pi_pid
      BY <3>1, <3>2 DEF Entry
    <3> QED
      BY <1>1, <1>2, <3>3
  <2>3. orphan <=> m \in dropped
    BY <1>3
  <2>4. kids \subseteq Used
    OBVIOUS
  <2>5. \A i \in dropped : i \in kids \/ i = m
    OBVIOUS
  <2> HIDE DEF kids, dropped, orphan, m
  <2> QED
    BY <1>2, <1>8, <2>1, <2>2, <2>3, <2>4, <2>5 DEF Used
<1>10. \A i \in Used' :
         /\ i \in Used /\ i \in Slot
         /\ pidinfo'[i].pi_pid = pidinfo[i].pi_pid
         /\ \/ i \in kids /\ pidinfo'[i].pi_ppid = INVALID_PID
               /\ pidinfo[i].pi_exited = 0 /\ pidinfo'[i].pi_exited = 0 /\ i # m
            \/ /\ i = m /\ ~orphan /\ pidinfo'[i].pi_ppid = pidinfo[i].pi_ppid
               /\ pidinfo'[i].pi_exited = 1 /\ pidinfo'[i].pi_exitstatus = s
            \/ i \notin kids /\ i # m /\ pidinfo'[i] = pidinfo[i]
  <2> SUFFICES ASSUME NEW i \in Used'
               PROVE  /\ i \in Used /\ i \in Slot
                      /\ pidinfo'[i].pi_pid = pidinfo[i].pi_pid
                      /\ \/ i \in kids /\ pidinfo'[i].pi_ppid = INVALID_PID
                            /\ pidinfo[i].pi_exited = 0 /\ pidinfo'[i].pi_exited = 0 /\ i # m
                         \/ /\ i = m /\ ~orphan /\ pidinfo'[i].pi_ppid = pidinfo[i].pi_ppid
                            /\ pidinfo'[i].pi_exited = 1 /\ pidinfo'[i].pi_exitstatus = s
                         \/ i \notin kids /\ i # m /\ pidinfo'[i] = pidinfo[i]
    OBVIOUS
  <2>1. i \in Used /\ i \notin dropped /\ i \in Slot /\ pidinfo[i] \in Entry
    BY <1>7, <1>9 DEF Used
  <2>2. CASE i \in kids
    <3>1. /\ pidinfo'[i] = [pidinfo[i] EXCEPT !.pi_ppid = INVALID_PID]
          /\ pidinfo[i].pi_exited = 0 /\ i # m
      BY <1>3, <1>8, <2>1, <2>2
    <3> QED
      BY <2>1, <2>2, <3>1 DEF Entry
  <2>3. CASE i = m
    <3>1. ~orphan
      BY <2>1, <2>3
    <3>2. pidinfo'[i] = [pidinfo[i] EXCEPT !.pi_exited = 1, !.pi_exitstatus = s]
      BY <1>8, <2>3, <3>1
    <3> HIDE DEF m, kids, orphan
    <3> QED
      BY <2>1, <2>3, <3>1, <3>2 DEF Entry
  <2>4. CASE i \notin kids /\ i # m
    BY <1>8, <2>1, <2>4
  <2> QED
    BY <2>2, <2>3, <2>4
<1>11. \A i \in Used : i \notin kids /\ i # m => i \in Used' /\ pidinfo'[i] = pidinfo[i]
  BY <1>8, <1>9 DEF Used
<1>12. TypeOK'
  <2>1. \A i \in Slot : pidinfo'[i] \in Entry
    <3> SUFFICES ASSUME NEW i \in Slot PROVE pidinfo'[i] \in Entry
      OBVIOUS
    <3>1. pidinfo[i] \in Entry /\ NoInfo \in Entry /\ s \in Nat
      BY <1>7 DEF Entry, NoInfo, pidinfo_create, INVALID_PID, Beef
    <3>2. [pidinfo[i] EXCEPT !.pi_ppid = INVALID_PID] \in Entry
      BY <3>1 DEF Entry, INVALID_PID
    <3>3. [pidinfo[i] EXCEPT !.pi_exited = 1, !.pi_exitstatus = s] \in Entry
      BY <3>1 DEF Entry
    <3>4. i = m => (orphan /\ i \in dropped) \/ ~orphan
      OBVIOUS
    <3>5. i \in kids \/ i = m \/ (i \notin kids /\ i # m)
      OBVIOUS
    <3> HIDE DEF kids, dropped, orphan, m
    <3> QED
      BY <1>8, <3>1, <3>2, <3>3, <3>4, <3>5
  <2>2. pidinfo' \in [Slot -> Entry]
    BY <1>4, <2>1, Zenon
  <2>3. nprocs' \in Nat
    <3>1. IsFiniteSet(dropped) /\ Cardinality(dropped) <= Cardinality(Used)
      BY <1>3, UsedFinite, FS_Subset
    <3> HIDE DEF dropped
    <3> QED
      BY <1>5, <3>1, UsedFinite, FS_CardinalityType DEF Counted
  <2>4. /\ p_pid' \in [Proc -> 0 .. PID_MAX]
        /\ st' \in [Proc -> {"none", "new", "run", "fork", "wait", "woken"}]
        /\ forker' \in [Proc -> Proc \cup {NULL}]
    <3> HIDE DEF orphan, m, dropped
    <3> QED
      BY <1>5 DEF TypeOK, INVALID_PID
  <2>5. owed' \in [Proc -> SUBSET ((1 .. PID_MAX) \X Status)]
    <3>1. \A q \in Proc : owed[q] \in SUBSET ((1 .. PID_MAX) \X Status)
      BY DEF TypeOK
    <3> QED
      BY <1>1, <1>5, <3>1
  <2> QED
    BY <1>5, <2>2, <2>3, <2>4, <2>5 DEF TypeOK
<1>13. Counted'
  <2>1. Cardinality(Used \ dropped) = Cardinality(Used) - Cardinality(Used \cap dropped)
    BY UsedFinite, FS_Difference
  <2>2. Used \cap dropped = dropped
    BY <1>3
  <2> HIDE DEF dropped
  <2> QED
    BY <1>5, <1>9, <2>1, <2>2 DEF Counted
<1>14. \A q \in Proc : q # p => p_pid'[q] = p_pid[q] /\ p_pid[q] # p_pid[p]
  BY <1>1, <1>6 DEF LivingHaveEntries
<1> HIDE DEF dropped
<1>15. EntriesPlaced'
  BY <1>10, INVALID_PID \notin 1 .. PID_MAX DEF EntriesPlaced, INVALID_PID
<1>16. ParentsLive'
  <2> SUFFICES ASSUME NEW i \in Used', pidinfo'[i].pi_ppid # INVALID_PID
               PROVE  \E r \in Proc : p_pid'[r] = pidinfo'[i].pi_ppid /\ st'[r] # "new"
    BY DEF ParentsLive
  <2>1. i \in Used /\ i \notin kids /\ pidinfo'[i].pi_ppid = pidinfo[i].pi_ppid
    BY <1>3, <1>10
  <2>2. PICK r \in Proc : p_pid[r] = pidinfo[i].pi_ppid /\ st[r] # "new"
    BY <2>1 DEF ParentsLive
  <2>3. r # p
    BY <2>1, <2>2
  <2> QED
    BY <1>6, <2>1, <2>2, <2>3
<1>17. EntriesOwned'
  <2> SUFFICES ASSUME NEW i \in Used'
               PROVE  \/ /\ pidinfo'[i].pi_exited = 0
                         /\ \E r \in Proc : p_pid'[r] = pidinfo'[i].pi_pid
                      \/ pidinfo'[i].pi_exited = 1 /\ pidinfo'[i].pi_ppid # INVALID_PID
    BY DEF EntriesOwned
  <2>1. CASE i = m
    BY <1>3, <1>10, <2>1
  <2>2. CASE i # m
    <3>1. /\ i \in Used /\ pidinfo'[i].pi_pid = pidinfo[i].pi_pid
          /\ pidinfo'[i].pi_exited = pidinfo[i].pi_exited
          /\ pidinfo[i].pi_exited = 0 \/ pidinfo'[i] = pidinfo[i]
      BY <1>10, <2>2
    <3>2. pidinfo[i].pi_pid # p_pid[p]
      BY <2>2, <3>1 DEF EntriesPlaced
    <3> QED
      BY <1>14, <3>1, <3>2 DEF EntriesOwned
  <2> QED
    BY <2>1, <2>2
<1>18. StatesAgree'
  <2> SUFFICES ASSUME NEW r \in Proc
               PROVE  /\ st'[r] = "none" <=> p_pid'[r] = INVALID_PID
                      /\ st'[r] = "fork" => st'[with'[r]] = "new" /\ forker'[with'[r]] = r
    BY DEF StatesAgree
  <2>1. with[r] \in Proc /\ with'[r] = with[r]
    BY <1>5 DEF TypeOK
  <2> HIDE DEF orphan, m, kids
  <2>2. st'[r] = "none" <=> p_pid'[r] = INVALID_PID
    BY <1>6, Zenon DEF StatesAgree
  <2>3. ASSUME st'[r] = "fork" PROVE st'[with'[r]] = "new" /\ forker'[with'[r]] = r
    <3>1. st[r] = "fork" /\ r # p
      BY <1>6, <2>3
    <3>2. st[with[r]] = "new" /\ forker[with[r]] = r
      BY <3>1 DEF StatesAgree
    <3> QED
      BY <1>1, <1>6, <2>1, <3>1, <3>2
  <2> QED
    BY <2>2, <2>3
<1>19. \A r \in Proc : Alive(r) /\ r # p =>
         LET i == SlotOf(p_pid[r]) IN
         /\ i \in Used /\ i # m /\ pidinfo'[i].pi_pid = p_pid[r]
         /\ pidinfo'[i].pi_exited = 0
         /\ pidinfo[i].pi_ppid # p_pid[p] => pidinfo'[i] = pidinfo[i]
  <2> SUFFICES ASSUME NEW r \in Proc, Alive(r), r # p, NEW i, i = SlotOf(p_pid[r])
               PROVE  /\ i \in Used /\ i # m /\ pidinfo'[i].pi_pid = p_pid[r]
                      /\ pidinfo'[i].pi_exited = 0
                      /\ pidinfo[i].pi_ppid # p_pid[p] => pidinfo'[i] = pidinfo[i]
    OBVIOUS
  <2>1. i \in Used /\ pidinfo[i].pi_pid = p_pid[r] /\ pidinfo[i].pi_exited = 0
    BY AliveIsUsed DEF LivingHaveEntries, Info
  <2>2. i # m
    BY <1>2, <1>14, <2>1
  <2>3. i \notin dropped
    BY <2>1, <2>2 DEF dropped
  <2>4. i \in Used'
    BY <1>9, <2>1, <2>3
  <2> QED
    BY <1>10, <1>11, <2>1, <2>2, <2>4
<1>20. ForkersAreParents'
  <2> SUFFICES ASSUME NEW r \in Proc, forker'[r] # NULL
               PROVE  /\ Alive(r)' /\ p_pid'[forker'[r]] # INVALID_PID
                      /\ pidinfo'[SlotOf(p_pid'[r])].pi_ppid = p_pid'[forker'[r]]
    BY DEF ForkersAreParents, Alive, Info, SlotOf
  <2>1. r # p /\ forker[r] = forker'[r] /\ forker[r] # p
    BY <1>6
  <2>2. /\ Alive(r) /\ Alive(forker[r]) /\ forker[r] \in Proc
        /\ pidinfo[SlotOf(p_pid[r])].pi_ppid = p_pid[forker[r]]
    BY <2>1 DEF ForkersAreParents, TypeOK, Info
  <2>3. pidinfo'[SlotOf(p_pid[r])] = pidinfo[SlotOf(p_pid[r])]
    BY <1>14, <1>19, <2>1, <2>2
  <2> QED
    BY <1>14, <2>1, <2>2, <2>3 DEF Alive
<1>21. OwedAlive'
  <2> SUFFICES ASSUME NEW r \in Proc, owed'[r] # {} PROVE p_pid'[r] # INVALID_PID
    BY DEF OwedAlive, Alive
  <2>1. r # p /\ (owed[r] # {} \/ forker[p] = r)
    BY <1>6
  <2>2. Alive(r)
    BY <2>1, NULL \notin Proc DEF OwedAlive, ForkersAreParents
  <2> QED
    BY <1>14, <2>1, <2>2 DEF Alive
<1>22. \A x \in 1 .. PID_MAX : pi_get(x) /\ Info(x).pi_ppid # p_pid[p] /\ x # p_pid[p] =>
         pi_get(x)' /\ Info(x)' = Info(x)
  <2> SUFFICES ASSUME NEW x \in 1 .. PID_MAX, pi_get(x), Info(x).pi_ppid # p_pid[p],
                      x # p_pid[p]
               PROVE  pidinfo'[SlotOf(x)] = pidinfo[SlotOf(x)]
    BY DEF pi_get, Info
  <2>1. SlotOf(x) \in Used /\ SlotOf(x) # m
    BY <1>2, FoundIsUsed DEF pi_get, INVALID_PID
  <2> QED
    BY <1>11, <2>1 DEF Info
<1>23. pidinfo[m].pi_ppid # INVALID_PID =>
         /\ m \in Used' /\ pidinfo'[m].pi_pid = p_pid[p]
         /\ pidinfo'[m].pi_ppid = pidinfo[m].pi_ppid
         /\ pidinfo'[m].pi_exited = 1 /\ pidinfo'[m].pi_exitstatus = s
  <2> SUFFICES ASSUME ~orphan PROVE m \in Used'
    BY <1>2, <1>3, <1>10
  <2> QED
    BY <1>2, <1>3, <1>9 DEF dropped
<1>24. StatusKept'
  <2> SUFFICES ASSUME NEW r \in Proc, NEW o \in owed'[r]
               PROVE  /\ pi_get(o[1])'
                      /\ pidinfo'[SlotOf(o[1])].pi_ppid = p_pid'[r]
                      /\ pidinfo'[SlotOf(o[1])].pi_exited = 1
                      /\ pidinfo'[SlotOf(o[1])].pi_exitstatus = o[2]
    BY DEF StatusKept, Info, pi_get
  <2>1. r # p /\ (o \in owed[r] \/ (forker[p] = r /\ o = <<p_pid[p], s>>))
    <3>1. owed'[r] = IF r = p THEN {}
            ELSE owed[r] \union IF forker[p] = r THEN {<<p_pid[p], s>>} ELSE {}
      BY <1>6, SMTT(20)
    <3> QED
      BY <3>1
  <2>2. CASE o \in owed[r]
    <3>1. o[1] \in 1 .. PID_MAX
      BY <2>2 DEF TypeOK
    <3>2. /\ pi_get(o[1]) /\ Info(o[1]).pi_ppid = p_pid[r]
          /\ Info(o[1]).pi_exited = 1 /\ Info(o[1]).pi_exitstatus = o[2]
      BY <2>2 DEF StatusKept
    <3>3. o[1] # p_pid[p] /\ Info(o[1]).pi_ppid # p_pid[p]
      BY <1>2, <1>14, <2>1, <3>2 DEF Info
    <3>4. pi_get(o[1])' /\ Info(o[1])' = Info(o[1])
      BY <1>22, <3>1, <3>2, <3>3 DEF Info, pi_get
    <3> QED
      BY <1>14, <2>1, <3>2, <3>4 DEF Info
  <2>3. CASE forker[p] = r /\ o = <<p_pid[p], s>>
    <3>1. pidinfo[m].pi_ppid = p_pid[r] /\ p_pid[r] # INVALID_PID
      BY <2>3, NULL \notin Proc DEF ForkersAreParents, Info, Alive
    <3> QED
      BY <1>14, <1>23, <2>1, <2>3, <3>1 DEF pi_get
  <2> QED
    BY <2>1, <2>2, <2>3
<1>25. WaitsForChild'
  <2> SUFFICES ASSUME NEW r \in Proc, st'[r] \in {"wait", "woken"}
               PROVE  /\ waitpid[r] # INVALID_PID
                      /\ pidinfo'[SlotOf(waitpid[r])].pi_pid = waitpid[r]
                      /\ pidinfo'[SlotOf(waitpid[r])].pi_ppid = p_pid'[r]
                      /\ st'[r] = "woken" => pidinfo'[SlotOf(waitpid[r])].pi_exited = 1
    <3>1. waitpid' = waitpid
      BY <1>5
    <3> QED
      BY <3>1 DEF WaitsForChild, pi_get, Info
  <2>1. /\ r # p /\ st[r] \in {"wait", "woken"}
        /\ st[r] = st'[r] \/ waitpid[r] = p_pid[p]
    BY <1>6
  <2>2. /\ waitpid[r] # INVALID_PID /\ pi_get(waitpid[r])
        /\ Info(waitpid[r]).pi_ppid = p_pid[r] /\ p_pid[r] # p_pid[p]
        /\ st[r] = "woken" => Info(waitpid[r]).pi_exited = 1
        /\ waitpid[r] \in 1 .. PID_MAX
    BY <1>14, <2>1 DEF WaitsForChild, TypeOK, INVALID_PID
  <2>3. p_pid[r] # INVALID_PID /\ p_pid'[r] = p_pid[r]
    BY <1>14, <2>1 DEF StatesAgree
  <2>4. CASE waitpid[r] = p_pid[p]
    BY <1>23, <2>2, <2>3, <2>4 DEF Info
  <2>5. CASE waitpid[r] # p_pid[p]
    <3>1. pidinfo'[SlotOf(waitpid[r])] = pidinfo[SlotOf(waitpid[r])]
      BY <1>11, <1>22, <2>2, <2>5 DEF Info
    <3> QED
      BY <2>1, <2>2, <2>3, <2>5, <3>1 DEF Info, pi_get
  <2> QED
    BY <2>4, <2>5
<1>26. LivingHaveEntries'
  <2> SUFFICES ASSUME NEW r \in Proc, p_pid'[r] # INVALID_PID
               PROVE  /\ pidinfo'[SlotOf(p_pid'[r])].pi_pid = p_pid'[r]
                      /\ pidinfo'[SlotOf(p_pid'[r])].pi_exited = 0
                      /\ \A q \in Proc : p_pid'[q] = p_pid'[r] => q = r
    BY DEF LivingHaveEntries, Alive, pi_get, Info, SlotOf
  <2>1. r # p /\ p_pid'[r] = p_pid[r] /\ Alive(r)
    BY <1>6 DEF Alive
  <2>2. \A q \in Proc : p_pid'[q] = p_pid'[r] => q = r
    <3>1. p_pid'[p] = INVALID_PID
      BY <1>6
    <3> QED
      BY <1>14, <2>1, <3>1 DEF LivingHaveEntries, Alive
  <2> QED
    BY <1>19, <2>1, <2>2
<1>27. AssertionsHold'
  BY <1>5 DEF AssertionsHold
<1> QED
  BY <1>12, <1>13, <1>15, <1>16, <1>17, <1>18, <1>20, <1>21, <1>24, <1>25, <1>26, <1>27
=============================================================================
