----------------------------- MODULE SFSVolume -----------------------------
(***************************************************************************)
(* A volume in use: processes that make the file system calls of the VFS   *)
(* layer (kern/vfs/vfspath.c, vfslookup.c, vnode.c), the menu's mount,     *)
(* unmount and sync (vfslist.c), disk errors, power failures, and sfsck    *)
(* after them.                                                             *)
(*                                                                         *)
(* Every operation of SFS holds vfs_biglock from start to end and is one   *)
(* step.  A system call is several: todo[p] has the ones process p has     *)
(* still to make.  vnode_decref is two when the count is 1: it decides     *)
(* under the spinlock of the vnode, and VOP_RECLAIM comes later.           *)
(***************************************************************************)
EXTENDS SFS, Sfsck

CONSTANTS
    Proc, Name,
    Writes,         \* the <<position, length>> that processes write to
    WordOf(_),      \* what process p writes
    MaxIO,          \* more transfers than any call makes
    Bounds          \* what to explore, a set of records: the processes procs, the calls
                    \* they make, the lengths they truncate to, and how many ncalls,
                    \* faults and crashes there are

VARIABLES
    disk, fm, fmdirty, vn, order,   \* as in module SFS
    lost,       \* a write was lost, and sfsck has not repaired the volume since
    power,      \* "mounted", "off", "down" (power failed), "broken", "panic", "norecover"
    todo,       \* the steps left of the system call of each process
    file,       \* the inode of the vnode each process holds, 0 for none
    max, calls, faults, crashes,    \* the bounds chosen, and how many there were
    victim      \* the inode whose operation the last power failure cut short

mem == <<fm, fmdirty, vn, order>>
counts == <<max, calls, faults, crashes>>
vars == <<disk, mem, lost, power, todo, file, counts, victim>>

Idle == [p \in Proc |-> <<>>]
None == [p \in Proc |-> 0]

Init ==
    /\ disk = Mksfs
    /\ fm = {} /\ fmdirty = FALSE /\ vn = NoVnodes /\ order = <<>>
    /\ lost = FALSE
    /\ power = "off"
    /\ todo = Idle /\ file = None
    /\ max \in Bounds /\ calls = 0 /\ faults = 0 /\ crashes = 0
    /\ victim = 0
-----------------------------------------------------------------------------
Before(fail, cut) ==
    [disk |-> disk, fm |-> fm, fmdirty |-> fmdirty, vn |-> vn, order |-> order,
     err |-> "ok", ret |-> 0, io |-> 0, fail |-> fail, cut |-> cut, lost |-> lost]

(* The transfers that may fail, at most two in a call; 0 is none. *)
Faulty ==
    LET left == max.faults - faults IN
    {{j, k} : j \in IF left > 0 THEN 0 .. MaxIO ELSE {0},
              k \in IF left > 1 THEN 0 .. MaxIO ELSE {0}}

(* A call has ended as r, with the transfers F failing. *)
Ended(r, F) ==
    /\ \A k \in F : k <= r.io
    /\ disk' = r.disk /\ fmdirty' = r.fmdirty /\ vn' = r.vn /\ order' = r.order
    /\ lost' = r.lost
    /\ faults' = faults + Cardinality(F \ {0})

(* What a power failure leaves. *)
GoDown(d, v) ==
    /\ crashes < max.crashes
    /\ disk' = d
    /\ fm' = {} /\ fmdirty' = FALSE /\ vn' = NoVnodes /\ order' = <<>>
    /\ todo' = Idle /\ file' = None
    /\ power' = "down"
    /\ victim' = v
    /\ crashes' = crashes + 1
    /\ UNCHANGED <<max, calls, faults, lost>>

(* An operation of the file system, about inode v: it ends, perhaps with a *)
(* transfer that failed, and Done says what the caller does; or power      *)
(* fails between two transfers.                                            *)
Perform(Op(_), v, Done(_)) ==
    /\ power = "mounted"
    /\ \/ \E F \in Faulty :
            After(Op(Before(F, MaxIO)), LAMBDA r :
              /\ Ended(r, F)
              /\ fm' = r.fm
              /\ power' = IF r.err \in {"panic", "norecover"} THEN r.err ELSE power
              /\ Done(r)
              /\ UNCHANGED <<max, crashes, victim>>)
       \/ /\ crashes < max.crashes
          /\ \E c \in 1 .. Op(Before({}, MaxIO)).io - 1 : GoDown(Op(Before({}, c)).disk, v)

(* The inode that name n has in the directory dir of volume d, 0 for none. *)
Named(d, dir, n) ==
    LET hits == {k \in Entries(d, dir) : UnitAt(d, dir, k)[2] = n}
    IN IF hits = {} THEN 0 ELSE UnitAt(d, dir, Max(hits))[1]

(* The inode v as the kernel has it: in memory if its vnode is loaded. *)
Now(v) == IF v \in DOMAIN vn THEN vn[v].i ELSE AsInode(disk[v])
-----------------------------------------------------------------------------
(* System calls, as the steps they make of the VFS layer *)

sys_open == <<"lookparent", "creat", "decref_dir">>     \* with O_CREAT
sys_remove == <<"lookparent", "remove", "decref_dir">>
sys_rename == <<"lookparent", "lookparent", "rename", "decref_dir", "decref_dir">>
sys_link == <<"lookup", "lookparent", "link", "decref_dir", "decref_file">>

(* What p may do next: the rest of its call, or a new one. *)
Pending(p) ==
    IF todo[p] # <<>> THEN {todo[p]}
    ELSE IF calls = max.ncalls THEN {}
    ELSE max.calls \cap
         ({sys_remove, sys_rename} \cup
          IF file[p] = 0 THEN {sys_open, <<"lookup">>, sys_link}
          ELSE {<<"write">>, <<"truncate">>, <<"fsync">>, <<"decref_file">>})

(* Process p makes the first step of t, which is what. *)
At(p, t, what) == power = "mounted" /\ t \in Pending(p) /\ Head(t) \in what
Continue(p, rest) ==
    /\ todo' = [todo EXCEPT ![p] = rest]
    /\ calls' = IF todo[p] = <<>> THEN calls + 1 ELSE calls

Count(t, what) == Len(SelectSeq(t, LAMBDA x : x = what))

(* vfs_lookparent.  When it fails what has been picked up is let go: in    *)
(* vfs_rename the other directory, in vfs_link the file.                   *)
vfs_lookparent(p) ==
    \E t \in Pending(p) :
        LET held == Count(t, "decref_dir") - Count(t, "lookparent")
            letgo == [k \in 1 .. held |-> "decref_dir"]
                     \o [k \in 1 .. Count(t, "decref_file") |-> "decref_file"]
        IN /\ At(p, t, {"lookparent"})
           /\ Perform(sfs_getroot, ROOT, LAMBDA r :
                Continue(p, IF OK(r) THEN Tail(t) ELSE letgo) /\ UNCHANGED file)

(* vfs_lookup: the root comes and goes inside it. *)
LookupStep(s, n) ==
    Then(sfs_getroot(s), LAMBDA r : VOP_DECREF(sfs_lookonce(r, ROOT, n), ROOT))

vfs_lookup(p) ==
    \E t \in Pending(p), n \in Name :
        /\ At(p, t, {"lookup"})
        /\ Perform(LAMBDA s : LookupStep(s, n), ROOT, LAMBDA r :
             /\ Continue(p, IF OK(r) THEN Tail(t) ELSE <<>>)
             /\ file' = [file EXCEPT ![p] = IF OK(r) THEN r.ret ELSE 0])

(* VOP_CREAT of vfs_open.  A vnode comes back if all went well. *)
VOP_CREAT(p) ==
    \E t \in Pending(p), n \in Name, excl \in BOOLEAN :
        /\ At(p, t, {"creat"})
        /\ Perform(LAMBDA s : sfs_creat(s, ROOT, n, excl), Named(disk, Now(ROOT), n), LAMBDA r :
             /\ Continue(p, Tail(t))
             /\ file' = [file EXCEPT ![p] = IF OK(r) THEN r.ret ELSE 0])

(* The operations that leave the processes what they hold. *)
VOP(p, what, v, Op(_)) ==
    \E t \in Pending(p) :
        /\ At(p, t, {what})
        /\ Perform(Op, v, LAMBDA r : Continue(p, Tail(t)) /\ UNCHANGED file)

VOP_REMOVE(p) ==
    \E n \in Name : VOP(p, "remove", Named(disk, Now(ROOT), n), LAMBDA s : sfs_remove(s, ROOT, n))
VOP_RENAME(p) ==
    \E n1, n2 \in Name :
        VOP(p, "rename", Named(disk, Now(ROOT), n1), LAMBDA s : sfs_rename(s, ROOT, n1, n2))
VOP_LINK(p) ==
    \E n \in Name : VOP(p, "link", file[p], LAMBDA s : sfs_link(s, ROOT, n, file[p]))
VOP_WRITE(p) ==
    \E w \in Writes :
        VOP(p, "write", file[p], LAMBDA s : sfs_write(s, file[p], w[1], w[2], WordOf(p)))
VOP_TRUNCATE(p) ==
    \E len \in max.lengths : VOP(p, "truncate", file[p], LAMBDA s : sfs_itrunc(s, file[p], len))
VOP_FSYNC(p) == VOP(p, "fsync", file[p], LAMBDA s : sfs_sync_inode(s, file[p]))

(* vnode_decref: under the spinlock the count goes down, unless it is 1:   *)
(* then the reference is passed to VOP_RECLAIM.                            *)
vnode_decref(p) ==
    \E t \in Pending(p) :
        LET dir == Head(t) = "decref_dir"
            v == IF dir THEN ROOT ELSE file[p]
        IN /\ At(p, t, {"decref_dir", "decref_file"})
           /\ IF vn[v].ref > 1
              THEN /\ vn' = [vn EXCEPT ![v].ref = @ - 1]
                   /\ Continue(p, Tail(t))
                   /\ file' = IF dir THEN file ELSE [file EXCEPT ![p] = 0]
              ELSE /\ Continue(p, <<IF dir THEN "reclaim_dir" ELSE "reclaim_file">> \o Tail(t))
                   /\ UNCHANGED <<vn, file>>
           /\ UNCHANGED <<disk, fm, fmdirty, order, lost, power, max, faults, crashes, victim>>

VOP_RECLAIM(p) ==
    \E t \in Pending(p) :
        LET dir == Head(t) = "reclaim_dir"
            v == IF dir THEN ROOT ELSE file[p]
        IN /\ At(p, t, {"reclaim_dir", "reclaim_file"})
           /\ Perform(LAMBDA s : Reclaim(s, v), v, LAMBDA r :
                /\ Continue(p, Tail(t))
                /\ file' = IF dir THEN file ELSE [file EXCEPT ![p] = 0])
-----------------------------------------------------------------------------
(* The menu, power and sfsck *)

vfs_sync ==
    Perform(sfs_sync, 0, LAMBDA r : UNCHANGED <<todo, file, calls>>)

vfs_unmount ==
    /\ power = "mounted"
    /\ \E F \in Faulty :
         After(Then(sfs_sync(Before(F, MaxIO)), sfs_unmount), LAMBDA r :
           /\ Ended(r, F)
           /\ fm' = IF OK(r) THEN {} ELSE r.fm
           /\ power' = IF OK(r) THEN "off" ELSE IF r.err = "panic" THEN "panic" ELSE power)
    /\ UNCHANGED <<todo, file, max, calls, crashes, victim>>

vfs_mount ==
    /\ power = "off"
    /\ LET r == sfs_domount(Before({}, MaxIO)) IN
         /\ OK(r)
         /\ fm' = r.fm /\ fmdirty' = r.fmdirty /\ vn' = r.vn /\ order' = r.order
    /\ power' = "mounted"
    /\ UNCHANGED <<disk, lost, todo, file, counts, victim>>

(* Power fails between two operations, or is turned off after a panic. *)
PowerFails == power \in {"mounted", "panic", "norecover"} /\ GoDown(disk, 0)

(* sfsck is run after a power failure, and power may fail again.  A volume *)
(* with errors it cannot repair is not mounted again; one where only the   *)
(* entry `.' is missing is.                                                *)
Lasting(f) == f.bad \cap (Unrecoverable \ {"nodot"}) # {}

RunSfsck ==
    /\ power = "down"
    /\ \/ /\ After(sfsck(disk, MaxIO), LAMBDA f :
               disk' = f.disk /\ power' = IF Lasting(f) THEN "broken" ELSE "off")
          /\ victim' = 0 /\ lost' = FALSE
          /\ UNCHANGED <<mem, todo, file, counts>>
       \/ /\ crashes < max.crashes
          /\ \E c \in 1 .. sfsck(disk, MaxIO).io - 1 : GoDown(sfsck(disk, c).disk, victim)

Step(p) ==
    \/ vfs_lookparent(p) \/ vfs_lookup(p) \/ VOP_CREAT(p) \/ VOP_REMOVE(p) \/ VOP_RENAME(p)
    \/ VOP_LINK(p) \/ VOP_WRITE(p) \/ VOP_TRUNCATE(p) \/ VOP_FSYNC(p)
    \/ vnode_decref(p) \/ VOP_RECLAIM(p)

Next ==
    \/ \E p \in max.procs : Step(p)
    \/ vfs_sync \/ vfs_unmount \/ vfs_mount \/ PowerFails \/ RunSfsck

Spec == Init /\ [][Next]_vars
-----------------------------------------------------------------------------
(* Properties *)

Live == {ROOT} \cup FilesIn(disk, Now(ROOT)) \cup DOMAIN vn
BlocksInUse == {SUPER, FREEMAP} \cup Live
               \cup UNION {Range(BlocksOf(disk, Now(v))) : v \in Live}

(* No block has two uses, and every block in use is marked in the free     *)
(* map, so that sfs_balloc never hands out a block of another file: also   *)
(* after reads that failed in the middle of sfs_creat, sfs_rename or       *)
(* sfs_itrunc, and after crashes, but not after a write that was lost.  As *)
(* long as no transfer failed and power did not either, nothing else is    *)
(* marked: no block leaks.                                                 *)
MapExact ==
    power = "mounted" /\ ~lost =>
        /\ Cardinality(BlocksInUse) =
             2 + Cardinality(Live)
             + FoldSet(LAMBDA v, n : n + Len(BlocksOf(disk, Now(v))), 0, Live)
        /\ BlocksInUse \subseteq fm
        /\ faults = 0 /\ crashes = 0 => BlocksInUse = fm

(* The link count of a file is the number of names it has, and no entry    *)
(* names something that is not a file, whichever reads fail in sfs_creat,  *)
(* sfs_link, sfs_remove and sfs_rename, as long as no write was lost.      *)
LinksExact ==
    power = "mounted" /\ ~lost =>
        \A v \in Live \ {ROOT} :
            /\ Now(v).links = LinksTo(disk, Now(ROOT), v)
            /\ Now(v).type = "file"

Holders(v) ==
    Cardinality({p \in Proc : file[p] = v})
    + IF v # ROOT THEN 0
      ELSE FoldSet(LAMBDA p, n : n + Count(todo[p], "decref_dir") + Count(todo[p], "reclaim_dir")
                                   - Count(todo[p], "lookparent"), 0, Proc)

(* A vnode that a process holds is loaded, with a reference for each.  As  *)
(* long as no transfer failed a vnode nobody holds is gone.                *)
RefsExact ==
    power = "mounted" =>
        /\ \A v \in Block \ {0} : Holders(v) > 0 => v \in DOMAIN vn
        /\ \A v \in DOMAIN vn : IF faults = 0 THEN vn[v].ref = Holders(v) ELSE vn[v].ref >= Holders(v)

(* As long as no write is lost no assertion of the file system fails and   *)
(* it does not panic: no mapped block or loaded inode is marked free       *)
(* (sfs_bmap, sfs_loadvnode), no free block is freed again (sfs_bfree), no *)
(* name is there twice (sfs_dir_findname), and the free map has been       *)
(* written when the volume is unmounted.  One failed read is not enough    *)
(* for the panic of sfs_rename: it takes a second one, in the undo.        *)
NoPanic ==
    /\ power = "panic" => lost
    /\ power = "norecover" => faults > 1

Clean(v) == v \in DOMAIN vn => ~vn[v].dirty

(* A file whose inode has been written since it changed, and whose name is *)
(* in a root directory of which the same is true, survives a power failure *)
(* at any point of an operation on another file, unless a write was lost:  *)
(* after the repair by sfsck it has its name and its contents, or sfsck    *)
(* says that it cannot repair the volume.                                  *)
CrashKeepsFiles ==
    [][power = "mounted" /\ power' = "down" /\ ~lost /\ Clean(ROOT) =>
         After(sfsck(disk', MaxIO), LAMBDA f :
           ~Lasting(f) => \A n \in Name :
             LET v == Named(disk, Now(ROOT), n) IN
             v \notin {0, victim'} /\ Clean(v) =>
               /\ Named(f.disk, AsInode(f.disk[ROOT]), n) = v
               /\ Contents(f.disk, AsInode(f.disk[v])) = Contents(disk, Now(v)))]_vars

(* A file has no blocks past its end: what ftruncate cuts off is gone.     *)
(* sfs_itrunc keeps the block right after the end if the indirect block    *)
(* names it.                                                               *)
NothingPastEof ==
    power = "mounted" =>
        \A v \in Live : \A fb \in 0 .. FileBlocks - 1 :
            Pointer(disk, Now(v), fb) # 0 => fb < BlocksFor(Now(v).size)

(* The volume d is whole: no block has two uses, every block in use is     *)
(* marked in its free map, no two entries have one name, every entry names *)
(* a file with the right link count, and no file has blocks past its end.  *)
Whole(d) ==
    LET ino(v) == AsInode(d[v])
        root == ino(ROOT)
        live == {ROOT} \cup FilesIn(d, root)
        blocks == {SUPER, FREEMAP} \cup live \cup UNION {Range(BlocksOf(d, ino(v))) : v \in live}
    IN /\ Cardinality(blocks) =
            2 + Cardinality(live) + FoldSet(LAMBDA v, n : n + Len(BlocksOf(d, ino(v))), 0, live)
       /\ blocks \subseteq d[FREEMAP].used
       /\ \A j, k \in Entries(d, root) : UnitAt(d, root, j)[2] = UnitAt(d, root, k)[2] => j = k
       /\ \A v \in live \ {ROOT} : ino(v).type = "file" /\ ino(v).links = LinksTo(d, root, v)
       /\ \A v \in live : \A fb \in 0 .. FileBlocks - 1 :
            Pointer(d, ino(v), fb) # 0 => fb < BlocksFor(ino(v).size)

(* However power failed, after lost writes and panics too, sfsck leaves a  *)
(* whole volume or says that it has not, and a second run changes nothing  *)
(* but that it may free blocks: an indirect block that the first one found *)
(* empty is still marked.                                                  *)
RepairComplete ==
    [][power = "down" /\ power' = "off" =>
         /\ Whole(disk')
         /\ After(sfsck(disk', MaxIO), LAMBDA again :
              /\ ~Lasting(again)
              /\ \A b \in Block \ {FREEMAP} : again.disk[b] = disk'[b]
              /\ again.disk[FREEMAP].used \subseteq disk'[FREEMAP].used)]_vars
=============================================================================
