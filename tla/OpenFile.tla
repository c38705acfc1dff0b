------------------------------ MODULE OpenFile ------------------------------
(***************************************************************************)
(* Open files shared between processes in the base kernel: openfile.c,     *)
(* filetable.c and the calls of file_syscalls.c, with fork and exit as     *)
(* they use them.  A process has one thread and a file table of its own;   *)
(* openfiles, with their reference counts and seek positions, are shared.  *)
(* What is done under of_reflock is one step, and so is what a call does   *)
(* to its own table.  The offset lock is held across VOP_READ and          *)
(* VOP_WRITE, which may sleep.                                             *)
(***************************************************************************)
EXTENDS Naturals, FiniteSets, FiniteSetsExt

CONSTANTS
    Proc,
    init,       \* the first process
    OpenFiles,  \* memory for openfiles; open fails when there is none left
    OPEN_MAX,
    MaxOffset,  \* bound on seek positions
    NULL

Fd == 0 .. OPEN_MAX - 1

(* A file on the console, which cannot seek, a regular file opened for     *)
(* reading and one opened for writing too.                                 *)
Kind == {"con", "O_RDONLY", "O_RDWR"}

VARIABLES
    ft_openfiles,    \* of each process
    of_refcount,     \* of each openfile, 0 for one that does not exist
    of_offset, of_kind,
    of_offsetlock,   \* the process that holds it, or NULL
    pc,
    l,               \* the variables of a call: fd, file and pos
    back             \* where openfile_decref returns to

files == <<of_refcount, of_offset, of_kind, of_offsetlock>>
vars == <<ft_openfiles, files, pc, l, back>>

NoCall == [fd |-> 0, file |-> NULL, pos |-> 0]

(* The first process has closed its standard files. *)
Init ==
    /\ ft_openfiles = [p \in Proc |-> [fd \in Fd |-> NULL]]
    /\ of_refcount = [f \in OpenFiles |-> 0]
    /\ of_offset = [f \in OpenFiles |-> 0]
    /\ of_kind = [f \in OpenFiles |-> "con"]
    /\ of_offsetlock = [f \in OpenFiles |-> NULL]
    /\ pc = [p \in Proc |-> IF p = init THEN "user" ELSE "none"]
    /\ l = [p \in Proc |-> NoCall]
    /\ back = [p \in Proc |-> "user"]

(* The call of p goes on at m. *)
Goto(p, m) == pc' = [pc EXCEPT ![p] = m]
Returns(p) == Goto(p, "user") /\ l' = [l EXCEPT ![p] = NoCall]

(* openfile_decref is called for f, and is to return to m. *)
Decref(p, f, m) ==
    /\ Goto(p, "openfile_decref")
    /\ l' = [l EXCEPT ![p] = [NoCall EXCEPT !.file = f]]
    /\ back' = [back EXCEPT ![p] = m]
-----------------------------------------------------------------------------
(* openfile_decref: the last reference leads to openfile_destroy, after    *)
(* of_reflock has been released.                                           *)
openfile_decref(p) ==
    LET f == l[p].file IN
    /\ pc[p] = "openfile_decref"
    /\ IF of_refcount[f] = 1
         THEN Goto(p, "openfile_destroy") /\ UNCHANGED <<of_refcount, l>>
         ELSE /\ of_refcount' = [of_refcount EXCEPT ![f] = @ - 1]
              /\ Goto(p, back[p])
              /\ l' = [l EXCEPT ![p] = NoCall]
    /\ UNCHANGED <<ft_openfiles, of_offset, of_kind, of_offsetlock, back>>

openfile_destroy(p) ==
    LET f == l[p].file IN
    /\ pc[p] = "openfile_destroy"
    /\ of_refcount' = [of_refcount EXCEPT ![f] = 0]
    /\ of_offset' = [of_offset EXCEPT ![f] = 0]
    /\ of_kind' = [of_kind EXCEPT ![f] = "con"]
    /\ Goto(p, back[p])
    /\ l' = [l EXCEPT ![p] = NoCall]
    /\ UNCHANGED <<ft_openfiles, of_offsetlock, back>>

(* sys_open: the smallest free descriptor, or EMFILE and the file is       *)
(* dropped again.                                                          *)
sys_open(p, kind) ==
    LET new == {f \in OpenFiles : of_refcount[f] = 0}
        f == CHOOSE g \in new : TRUE
        free == {fd \in Fd : ft_openfiles[p][fd] = NULL}
    IN
    /\ pc[p] = "user"
    /\ new # {}
    /\ of_refcount' = [of_refcount EXCEPT ![f] = 1]
    /\ of_kind' = [of_kind EXCEPT ![f] = kind]
    /\ IF free = {}
         THEN /\ Decref(p, f, "user")
              /\ UNCHANGED ft_openfiles
         ELSE /\ ft_openfiles' = [ft_openfiles EXCEPT ![p][Min(free)] = f]
              /\ UNCHANGED <<pc, l, back>>
    /\ UNCHANGED <<of_offset, of_offsetlock>>

sys_close(p, fd) ==
    LET f == ft_openfiles[p][fd] IN
    /\ pc[p] = "user"
    /\ f # NULL
    /\ ft_openfiles' = [ft_openfiles EXCEPT ![p][fd] = NULL]
    /\ Decref(p, f, "user")
    /\ UNCHANGED files

(* dup2 of a descriptor onto itself returns without a look at it. *)
sys_dup2(p, oldfd, newfd) ==
    LET old == ft_openfiles[p][oldfd]
        new == ft_openfiles[p][newfd]
    IN
    /\ pc[p] = "user"
    /\ oldfd # newfd
    /\ old # NULL
    /\ of_refcount' = [of_refcount EXCEPT ![old] = @ + 1]
    /\ ft_openfiles' = [ft_openfiles EXCEPT ![p][newfd] = old]
    /\ IF new = NULL THEN UNCHANGED <<pc, l, back>> ELSE Decref(p, new, "user")
    /\ UNCHANGED <<of_offset, of_kind, of_offsetlock>>
-----------------------------------------------------------------------------
(* sys_readwrite: the file is looked up; the seek position is locked and   *)
(* read if the file can seek.                                              *)
sys_readwrite(p, fd) ==
    LET f == ft_openfiles[p][fd] IN
    /\ pc[p] = "user"
    /\ f # NULL
    /\ l' = [l EXCEPT ![p] = [fd |-> fd, file |-> f, pos |-> 0]]
    /\ Goto(p, IF of_kind[f] = "con" THEN "io" ELSE "lock")
    /\ UNCHANGED <<ft_openfiles, files, back>>

(* Writing a file opened for reading fails. *)
lock_offset(p) ==
    LET f == l[p].file IN
    /\ pc[p] = "lock"
    /\ of_offsetlock[f] = NULL
    /\ of_offsetlock' = [of_offsetlock EXCEPT ![f] = p]
    /\ l' = [l EXCEPT ![p].pos = of_offset[f]]
    /\ \/ Goto(p, "io")
       \/ of_kind[f] = "O_RDONLY" /\ Goto(p, "fail")
    /\ UNCHANGED <<ft_openfiles, of_refcount, of_offset, of_kind, back>>

(* VOP_READ or VOP_WRITE transfers n bytes, or fails. *)
vop(p, n) ==
    /\ pc[p] = "io"
    /\ \/ /\ l[p].pos + n <= MaxOffset
          /\ l' = [l EXCEPT ![p].pos = @ + n]
          /\ Goto(p, "update")
       \/ Goto(p, "fail") /\ UNCHANGED l
    /\ UNCHANGED <<ft_openfiles, files, back>>

Unlock(f) ==
    of_offsetlock' = [of_offsetlock EXCEPT ![f] = IF of_kind[f] = "con" THEN @ ELSE NULL]

update_offset(p) ==
    LET f == l[p].file IN
    /\ pc[p] = "update"
    /\ of_offset' = IF of_kind[f] = "con" THEN of_offset
                      ELSE [of_offset EXCEPT ![f] = l[p].pos]
    /\ Unlock(f)
    /\ Returns(p)
    /\ UNCHANGED <<ft_openfiles, of_refcount, of_kind, back>>

readwrite_fail(p) ==
    /\ pc[p] = "fail"
    /\ Unlock(l[p].file)
    /\ Returns(p)
    /\ UNCHANGED <<ft_openfiles, of_refcount, of_offset, of_kind, back>>

(* The position is set without a look at the lock. *)
sys_lseek_unlocked(p, fd, pos) ==
    LET f == ft_openfiles[p][fd] IN
    /\ pc[p] = "user"
    /\ f # NULL
    /\ of_kind[f] # "con"
    /\ of_offset' = [of_offset EXCEPT ![f] = pos]
    /\ UNCHANGED <<ft_openfiles, of_refcount, of_kind, of_offsetlock, pc, l, back>>

(* sys_lseek holds the lock from the first to the last it does to the      *)
(* position; when it fails it changes nothing.                             *)
sys_lseek(p, fd, pos) ==
    LET f == ft_openfiles[p][fd] IN
    /\ pc[p] = "user"
    /\ f # NULL
    /\ of_kind[f] # "con"
    /\ of_offsetlock[f] = NULL
    /\ of_offset' = [of_offset EXCEPT ![f] = pos]
    /\ UNCHANGED <<ft_openfiles, of_refcount, of_kind, of_offsetlock, pc, l, back>>
-----------------------------------------------------------------------------
Refs(p, f) == Cardinality({fd \in Fd : ft_openfiles[p][fd] = f})

(* A file that is open twice is counted once. *)
filetable_copy_once(p, q) ==
    /\ pc[p] = "user"
    /\ pc[q] = "none"
    /\ ft_openfiles' = [ft_openfiles EXCEPT ![q] = ft_openfiles[p]]
    /\ of_refcount' = [f \in OpenFiles |->
         IF Refs(p, f) > 0 THEN of_refcount[f] + 1 ELSE of_refcount[f]]
    /\ Goto(q, "user")
    /\ UNCHANGED <<of_offset, of_kind, of_offsetlock, l, back>>

(* filetable_copy, in fork.  The parent's references keep the files while  *)
(* the counts go up one by one.                                            *)
filetable_copy(p, q) ==
    /\ pc[p] = "user"
    /\ pc[q] = "none"
    /\ ft_openfiles' = [ft_openfiles EXCEPT ![q] = ft_openfiles[p]]
    /\ of_refcount' = [f \in OpenFiles |-> of_refcount[f] + Refs(p, f)]
    /\ Goto(q, "user")
    /\ UNCHANGED <<of_offset, of_kind, of_offsetlock, l, back>>

sys__exit(p) ==
    /\ pc[p] = "user"
    /\ Goto(p, "filetable_destroy")
    /\ UNCHANGED <<ft_openfiles, files, l, back>>

(* filetable_destroy drops one file after the other.  The code clears the  *)
(* entry after the drop: nobody looks at the table of a dying process in   *)
(* between, and here it is cleared first.                                  *)
filetable_destroy(p) ==
    LET open == {fd \in Fd : ft_openfiles[p][fd] # NULL}
        fd == Min(open)
    IN
    /\ pc[p] = "filetable_destroy"
    /\ IF open = {}
         THEN /\ Goto(p, "none")
              /\ back' = [back EXCEPT ![p] = "user"]
              /\ UNCHANGED <<ft_openfiles, l>>
         ELSE /\ ft_openfiles' = [ft_openfiles EXCEPT ![p][fd] = NULL]
              /\ Decref(p, ft_openfiles[p][fd], "filetable_destroy")
    /\ UNCHANGED <<files>>

Next == \E p \in Proc :
    \/ openfile_decref(p) \/ openfile_destroy(p)
    \/ \E kind \in Kind : sys_open(p, kind)
    \/ \E fd \in Fd : sys_close(p, fd) \/ sys_readwrite(p, fd)
    \/ \E oldfd, newfd \in Fd : sys_dup2(p, oldfd, newfd)
    \/ lock_offset(p) \/ update_offset(p) \/ readwrite_fail(p)
    \/ \E n \in 0 .. 1 : vop(p, n)
    \/ \E fd \in Fd, pos \in 0 .. MaxOffset : sys_lseek(p, fd, pos)
    \/ \E q \in Proc : filetable_copy(p, q)
    \/ sys__exit(p) \/ filetable_destroy(p)

Spec == Init /\ [][Next]_vars
-----------------------------------------------------------------------------
Dropping(p) == pc[p] \in {"openfile_decref", "openfile_destroy"}

(* The reference count of an openfile is the number of descriptors that    *)
(* refer to it, in all processes, and of references about to be dropped;   *)
(* a file that no longer exists has none.                                  *)
RefCountsExact ==
    \A f \in OpenFiles : of_refcount[f] =
      Cardinality({<<p, fd>> \in Proc \X Fd : ft_openfiles[p][fd] = f})
      + Cardinality({p \in Proc : Dropping(p) /\ l[p].file = f})

(* While a process reads or writes, nobody else moves the seek position it *)
(* started from: processes that share an open file continue where the      *)
(* other left off.                                                         *)
PositionStable ==
    \A p \in Proc : pc[p] = "io" /\ of_kind[l[p].file] # "con" =>
      l[p].pos = of_offset[l[p].file]
=============================================================================
