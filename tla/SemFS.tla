------------------------------- MODULE SemFS --------------------------------
(***************************************************************************)
(* The semaphore file system (kern/fs/semfs): semaphores that processes    *)
(* open by name, P by reading and V by writing.  semfs_dirlock protects    *)
(* the directory, semfs_tablelock the tables of vnodes and of semaphores,  *)
(* sems_lock the count of a semaphore.  What is done under one hold of a   *)
(* lock is one step; semfs_remove and semfs_reclaim, which read each       *)
(* other's flags under different locks, are several.                       *)
(***************************************************************************)
EXTENDS Naturals, FiniteSets, SequencesExt

CONSTANTS
    Proc,       \* processes, of one thread each
    Name,       \* names of semaphores
    MaxSems,    \* room in the tables: SEMFS_ROOTDIR, or what memory allows
    MaxCount,   \* the largest value of an unsigned count
    NULL

Num == 1 .. MaxSems
ROOTDIR == 0            \* SEMFS_ROOTDIR
VnodeOf == Num \cup {ROOTDIR}

VARIABLES
    semfs_sems,         \* the semaphore in each slot of the table, or NULL
    semfs_dents,        \* directory entries, NULL where one was removed
    vn_refcount,        \* of the vnode of each number, 0 when there is none
    semfs_dirlock, semfs_tablelock,     \* who holds it between two steps
    pc,
    file,               \* the vnode each process has open, or NULL
    l,                  \* the variables of a call
    status              \* not "ok": the kernel panicked, in the call it names

dirvars == <<semfs_dents, semfs_dirlock>>
tablevars == <<semfs_sems, vn_refcount, semfs_tablelock>>
procvars == <<pc, file, l>>
vars == <<dirvars, tablevars, procvars, status>>

semfs_sem_create ==
    [count |-> 0, hasvnode |-> FALSE, linked |-> FALSE, lock |-> NULL, cv |-> <<>>]

(* vn: the vnode to drop.  name: to create or remove.  i: the entry that   *)
(* semfs_remove is at.  resid: what is left to read.                       *)
NoCall == [vn |-> NULL, name |-> NULL, i |-> 0, resid |-> 0]

(* semfs_create *)
Init ==
    /\ semfs_sems = [n \in Num |-> NULL]
    /\ semfs_dents = <<>>
    /\ vn_refcount = [v \in VnodeOf |-> 0]
    /\ semfs_dirlock = NULL /\ semfs_tablelock = NULL
    /\ pc = [p \in Proc |-> "user"]
    /\ file = [p \in Proc |-> NULL]
    /\ l = [p \in Proc |-> NoCall]
    /\ status = "ok"

At(p, where) == status = "ok" /\ pc[p] = where
Goto(p, where) == pc' = [pc EXCEPT ![p] = where]
Put(p, v) == Goto(p, "put") /\ l' = [l EXCEPT ![p] = [NoCall EXCEPT !.vn = v]]
Returns(p) == Goto(p, "user") /\ l' = [l EXCEPT ![p] = NoCall]
Panic(call) == status' = call /\ UNCHANGED <<dirvars, tablevars, procvars>>

TableFree == semfs_tablelock = NULL
BothFree == semfs_dirlock = NULL /\ TableFree

EntryOf(name) ==
    {i \in DOMAIN semfs_dents : semfs_dents[i] # NULL /\ semfs_dents[i].name = name}
NumOf(i) == semfs_dents[i].num

(* semfs_getvnode, when it has the memory it needs, over the table sems. *)
semfs_getvnode(v, sems) ==
    /\ vn_refcount' = [vn_refcount EXCEPT ![v] = @ + 1]
    /\ semfs_sems' = IF v = ROOTDIR THEN sems ELSE [sems EXCEPT ![v].hasvnode = TRUE]
-----------------------------------------------------------------------------
(* vfs_lookparent, for a call that goes on at where: the reference that    *)
(* semfs_getroot takes, and the one of semfs_lookparent less the one that  *)
(* is dropped.                                                             *)
vfs_lookparent(p, name, where) ==
    /\ At(p, "user") /\ TableFree
    /\ where = "creat" => file[p] = NULL
    /\ semfs_getvnode(ROOTDIR, semfs_sems)
    /\ Goto(p, where) /\ l' = [l EXCEPT ![p].name = name]
    /\ UNCHANGED <<dirvars, semfs_tablelock, file, status>>

(* semfs_lookup of a name, or of "." for NULL.  The look-up may fail for   *)
(* want of memory, with no effect.                                         *)
semfs_lookup(p, name) ==
    /\ At(p, "user") /\ file[p] = NULL /\ BothFree
    /\ \E v \in IF name = NULL THEN {ROOTDIR} ELSE {NumOf(i) : i \in EntryOf(name)} :
         semfs_getvnode(v, semfs_sems) /\ file' = [file EXCEPT ![p] = v]
    /\ UNCHANGED <<dirvars, semfs_tablelock, pc, l, status>>

(* semfs_creat of a name that is there: the semaphore, or an error when    *)
(* excl is set or memory is short.                                         *)
semfs_creat_found(p) ==
    /\ At(p, "creat") /\ BothFree
    /\ \E i \in EntryOf(l[p].name) :
         \/ semfs_getvnode(NumOf(i), semfs_sems) /\ file' = [file EXCEPT ![p] = NumOf(i)]
         \/ UNCHANGED <<vn_refcount, semfs_sems, file>>
    /\ Put(p, ROOTDIR)
    /\ UNCHANGED <<dirvars, semfs_tablelock, status>>

Holes == {i \in DOMAIN semfs_dents : semfs_dents[i] = NULL}
FreeSlots == {n \in Num : semfs_sems[n] = NULL}

(* The directory with d in its first hole, or at its end. *)
WithEntry(d) ==
    IF Holes = {} THEN Append(semfs_dents, d)
    ELSE [semfs_dents EXCEPT ![Min(Holes)] = d]

(* semfs_creat of a new name.  The first free slot is used                 *)
(* (semfs_sem_insert).                                                     *)
semfs_creat_new(p) ==
    /\ At(p, "creat") /\ BothFree /\ EntryOf(l[p].name) = {} /\ FreeSlots # {}
    /\ LET n == Min(FreeSlots) IN
         /\ semfs_dents' = WithEntry([name |-> l[p].name, num |-> n])
         /\ semfs_getvnode(n, [semfs_sems EXCEPT ![n] = [semfs_sem_create EXCEPT !.linked = TRUE]])
         /\ file' = [file EXCEPT ![p] = n]
    /\ Put(p, ROOTDIR)
    /\ UNCHANGED <<semfs_dirlock, semfs_tablelock, status>>

(* It fails and undoes what it did; after semfs_getvnode fails the entry   *)
(* that was made remains, as a hole.  Bound: a directory of MaxSems        *)
(* entries grows no further in this way.                                   *)
semfs_creat_fails(p) ==
    /\ At(p, "creat") /\ BothFree /\ EntryOf(l[p].name) = {}
    /\ semfs_dents' \in {semfs_dents} \cup
         IF FreeSlots = {} \/ Len(semfs_dents) = MaxSems THEN {} ELSE {WithEntry(NULL)}
    /\ Put(p, ROOTDIR)
    /\ UNCHANGED <<semfs_dirlock, tablevars, file, status>>

(* There is no memory for the directory entry: semfs_creat undoes what it  *)
(* did and returns the 0 of semfs_sem_insert, without a vnode, which       *)
(* vfs_open asserts there is.                                              *)
semfs_creat_noentry(p) ==
    /\ At(p, "creat") /\ BothFree /\ EntryOf(l[p].name) = {} /\ FreeSlots # {}
    /\ Panic("vfs_open")
-----------------------------------------------------------------------------
(* semfs_remove finds the entry and marks the semaphore as not linked,     *)
(* with semfs_dirlock and sems_lock.                                       *)
semfs_remove(p) ==
    /\ At(p, "remove") /\ BothFree
    /\ IF EntryOf(l[p].name) = {}
         THEN Put(p, ROOTDIR) /\ UNCHANGED <<semfs_sems, semfs_dirlock>>
         ELSE LET i == Min(EntryOf(l[p].name)) IN
              /\ semfs_sems[NumOf(i)].lock = NULL
              /\ semfs_sems' = [semfs_sems EXCEPT ![NumOf(i)].linked = FALSE,
                                                  ![NumOf(i)].lock = p]
              /\ semfs_dirlock' = p
              /\ Goto(p, "unlinked") /\ l' = [l EXCEPT ![p].i = i]
    /\ UNCHANGED <<semfs_dents, vn_refcount, semfs_tablelock, file, status>>

(* The entry goes, and the call ends. *)
EntryRemoved(p) ==
    /\ semfs_dents' = [semfs_dents EXCEPT ![l[p].i] = NULL]
    /\ semfs_dirlock' = NULL
    /\ Put(p, ROOTDIR)

(* It looks at sems_hasvnode, without semfs_tablelock. *)
semfs_remove_test(p) ==
    /\ At(p, "unlinked")
    /\ LET n == NumOf(l[p].i) IN
         IF semfs_sems[n].hasvnode
           THEN EntryRemoved(p) /\ semfs_sems' = [semfs_sems EXCEPT ![n].lock = NULL]
           ELSE Goto(p, "destroy") /\ UNCHANGED <<semfs_sems, dirvars, l>>
    /\ UNCHANGED <<vn_refcount, semfs_tablelock, file, status>>

semfs_remove_destroy(p) ==
    /\ At(p, "destroy") /\ TableFree
    /\ semfs_sems' = [semfs_sems EXCEPT ![NumOf(l[p].i)] = NULL]
    /\ EntryRemoved(p)
    /\ UNCHANGED <<vn_refcount, semfs_tablelock, file, status>>
-----------------------------------------------------------------------------
vfs_close(p) ==
    /\ At(p, "user") /\ file[p] # NULL
    /\ Put(p, file[p]) /\ file' = [file EXCEPT ![p] = NULL]
    /\ UNCHANGED <<dirvars, tablevars, status>>

vnode_decref(p) ==
    /\ At(p, "put")
    /\ IF vn_refcount[l[p].vn] > 1
         THEN Returns(p) /\ vn_refcount' = [vn_refcount EXCEPT ![l[p].vn] = @ - 1]
         ELSE Goto(p, "reclaim") /\ UNCHANGED <<vn_refcount, l>>
    /\ UNCHANGED <<dirvars, semfs_sems, semfs_tablelock, file, status>>

(* Whether somebody has found the vnode in the meantime is not looked at.  *)
semfs_reclaim_stale(p) ==
    LET v == l[p].vn IN
    /\ At(p, "reclaim") /\ TableFree
    /\ vn_refcount' = [vn_refcount EXCEPT ![v] = @ - 1]
    /\ IF v = ROOTDIR
         THEN Returns(p) /\ UNCHANGED <<semfs_sems, semfs_tablelock>>
         ELSE /\ semfs_sems' = [semfs_sems EXCEPT ![v].hasvnode = FALSE]
              /\ semfs_tablelock' = p
              /\ Goto(p, "reclaimed") /\ UNCHANGED l
    /\ UNCHANGED <<dirvars, file, status>>

(* semfs_reclaim, unless somebody has found the vnode in the meantime.     *)
semfs_reclaim(p) ==
    LET v == l[p].vn IN
    /\ At(p, "reclaim") /\ TableFree
    /\ vn_refcount' = [vn_refcount EXCEPT ![v] = @ - 1]
    /\ IF vn_refcount[v] > 1 \/ v = ROOTDIR
         THEN Returns(p) /\ UNCHANGED <<semfs_sems, semfs_tablelock>>
         ELSE /\ semfs_sems' = [semfs_sems EXCEPT ![v].hasvnode = FALSE]
              /\ semfs_tablelock' = p
              /\ Goto(p, "reclaimed") /\ UNCHANGED l
    /\ UNCHANGED <<dirvars, file, status>>

(* It looks at sems_linked, without sems_lock, and destroys a semaphore    *)
(* that is not linked: it takes it out of the table, and lock_destroy      *)
(* asserts that nobody holds its lock.                                     *)
semfs_reclaim_test(p) ==
    LET v == l[p].vn
        sem == semfs_sems[v]
        destroy == ~sem.linked
    IN
    /\ At(p, "reclaimed")
    /\ semfs_sems' = IF destroy THEN [semfs_sems EXCEPT ![v] = NULL] ELSE semfs_sems
    /\ IF destroy /\ sem.lock # NULL
         THEN status' = "lock_destroy" /\ UNCHANGED <<semfs_tablelock, pc, l>>
         ELSE semfs_tablelock' = NULL /\ Returns(p) /\ UNCHANGED status
    /\ UNCHANGED <<dirvars, vn_refcount, file>>
-----------------------------------------------------------------------------
Locks(p) == file[p] \in Num /\ semfs_sems[file[p]].lock = NULL
semfs_getsem(p) == TableFree /\ Locks(p)

(* The loop of semfs_read with resid still to take: it takes what there    *)
(* is, and sleeps when that is not enough.                                 *)
Consume(p, resid) ==
    LET sem == semfs_sems[file[p]]
        consume == IF resid > sem.count THEN sem.count ELSE resid
        enough == resid = consume
    IN /\ semfs_sems' = [semfs_sems EXCEPT ![file[p]] =
            [sem EXCEPT !.count = @ - consume, !.cv = IF enough THEN @ ELSE Append(@, p)]]
       /\ IF enough THEN Returns(p)
          ELSE Goto(p, "asleep") /\ l' = [l EXCEPT ![p].resid = resid - consume]
       /\ UNCHANGED <<dirvars, vn_refcount, semfs_tablelock, file, status>>

semfs_read(p, n) == At(p, "user") /\ semfs_getsem(p) /\ Consume(p, n)
semfs_read_woken(p) == At(p, "woken") /\ Locks(p) /\ Consume(p, l[p].resid)

(* Whom semfs_wakeup wakes: cv_signal takes the first sleeper, and         *)
(* cv_broadcast all.                                                       *)
semfs_wakeup(sem, newcount) ==
    IF sem.count > 0 \/ newcount = 0 THEN <<>>
    ELSE IF newcount = 1 /\ sem.cv # <<>> THEN <<Head(sem.cv)>>
    ELSE sem.cv

SetCount(p, newcount) ==
    LET sem == semfs_sems[file[p]]
        woken == semfs_wakeup(sem, newcount)
    IN /\ semfs_sems' = [semfs_sems EXCEPT ![file[p]] =
            [sem EXCEPT !.count = newcount, !.cv = SubSeq(@, Len(woken) + 1, Len(@))]]
       /\ pc' = [q \in Proc |-> IF q \in Range(woken) THEN "woken" ELSE pc[q]]
       /\ UNCHANGED <<dirvars, vn_refcount, semfs_tablelock, file, l, status>>

(* A write that would overflow the count fails with EFBIG. *)
semfs_write(p, n) ==
    /\ At(p, "user") /\ semfs_getsem(p)
    /\ LET newcount == (semfs_sems[file[p]].count + n) % (MaxCount + 1) IN
         newcount >= semfs_sems[file[p]].count /\ SetCount(p, newcount)

semfs_truncate(p, n) == At(p, "user") /\ semfs_getsem(p) /\ SetCount(p, n)

(* Reading the directory at a place where an entry was removed follows a   *)
(* null pointer.                                                           *)
semfs_getdirentry(p) ==
    /\ At(p, "user") /\ file[p] = ROOTDIR /\ semfs_dirlock = NULL /\ Holes # {}
    /\ Panic("semfs_getdirentry")

Next ==
    \E p \in Proc :
      \/ \E name \in Name, where \in {"creat", "remove"} : vfs_lookparent(p, name, where)
      \/ \E name \in Name \cup {NULL} : semfs_lookup(p, name)
      \/ semfs_creat_found(p) \/ semfs_creat_new(p)
      \/ semfs_creat_fails(p) \/ semfs_creat_noentry(p)
      \/ semfs_remove(p) \/ semfs_remove_test(p) \/ semfs_remove_destroy(p)
      \/ vfs_close(p) \/ vnode_decref(p) \/ semfs_reclaim(p) \/ semfs_reclaim_test(p)
      \/ \E n \in 1 .. MaxCount : semfs_read(p, n) \/ semfs_write(p, n)
      \/ semfs_read_woken(p)
      \/ \E n \in 0 .. MaxCount : semfs_truncate(p, n)
      \/ semfs_getdirentry(p)

Spec == Init /\ [][Next]_vars
-----------------------------------------------------------------------------
Holders(v) == Cardinality({p \in Proc : file[p] = v})
Dropping(v) == Cardinality({p \in Proc : pc[p] \in {"put", "reclaim"} /\ l[p].vn = v})
InDir == Cardinality({p \in Proc : pc[p] \in {"creat", "remove", "unlinked", "destroy"}})

(* Neither the unlinking of a semaphore nor its last close loses it or     *)
(* takes it from those who use it, although semfs_remove and semfs_reclaim *)
(* decide under different locks who destroys it: a semaphore in the table  *)
(* has an entry, a vnode, or somebody about to destroy it; an entry and an *)
(* open file have their semaphore; a vnode is counted once for each user.  *)
(* When both decide to destroy it, semfs_reclaim is the first, and         *)
(* lock_destroy stops it (see DestroyedUnlocked): then the semaphore is    *)
(* the only thing out of place, and semfs_remove still holds its lock.     *)
SemaphoresKept ==
    LET racing == status = "lock_destroy"
        destroyed(n) == racing /\ \E p \in Proc : pc[p] = "reclaimed" /\ l[p].vn = n
        removing(i) == \E p \in Proc : pc[p] \in {"unlinked", "destroy"} /\ l[p].i = i
    IN
    /\ \A i \in DOMAIN semfs_dents : semfs_dents[i] # NULL =>
         /\ EntryOf(semfs_dents[i].name) = {i}
         /\ IF destroyed(NumOf(i)) THEN removing(i)
            ELSE /\ semfs_sems[NumOf(i)] # NULL
                 /\ semfs_sems[NumOf(i)].linked <=> ~removing(i)
    /\ \A n \in Num :
         IF semfs_sems[n] = NULL THEN vn_refcount[n] = 0
         ELSE /\ semfs_sems[n].hasvnode <=> vn_refcount[n] > 0
              /\ \/ semfs_sems[n].hasvnode
                 \/ \E i \in DOMAIN semfs_dents : semfs_dents[i] # NULL /\ NumOf(i) = n
                 \/ \E p \in Proc : pc[p] = "reclaimed" /\ l[p].vn = n
    /\ \A v \in VnodeOf :
         vn_refcount[v] = Holders(v) + Dropping(v) + IF v = ROOTDIR THEN InDir ELSE 0

(* lock_destroy: "KASSERT(lock->lk_holder == NULL)".  A semaphore is       *)
(* destroyed (semfs_sem_destroy) only when nobody holds its sems_lock, and *)
(* so by only one of semfs_remove and semfs_reclaim.                       *)
DestroyedUnlocked == status # "lock_destroy"

(* The comment of semfs_wakeup: "We only need to wake up if there are      *)
(* sleepers, which should only be the case if the old count is 0".  So     *)
(* while a semaphore has units nobody sleeps in semfs_read, unless a       *)
(* reader that was woken is about to take them.                            *)
SleepersOnlyAtZero ==
    \A n \in Num : semfs_sems[n] # NULL /\ semfs_sems[n].count > 0 =>
      \/ semfs_sems[n].cv = <<>>
      \/ \E p \in Proc : pc[p] = "woken" /\ file[p] = n
=============================================================================
