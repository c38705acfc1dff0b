-------------------------------- MODULE File --------------------------------
(***************************************************************************)
(* The open files of a process in asst2 (kern/syscall/file.c): the table   *)
(* of descriptors, the files they refer to, reference counts and seek      *)
(* positions.  Processes of asst2 have one thread and do not share their   *)
(* tables, so a system call is one step.  Vnodes are what file.c sees of   *)
(* them: whether one can seek, how long it is, how often it is open.       *)
(***************************************************************************)
EXTENDS Integers, FiniteSets, FiniteSetsExt

CONSTANTS
    OPEN_MAX,
    Regular,    \* vnodes of regular files
    con,        \* the console, which cannot seek
    MaxOffset,  \* bound: no call moves a position or a size beyond this
    NULL

ASSUME OpenMaxAssumption == OPEN_MAX \in Nat /\ OPEN_MAX >= 3

Vnode == Regular \cup {con}
Fd == 0 .. OPEN_MAX - 1
AnyFd == -1 .. OPEN_MAX       \* what a program may pass
FileId == 1 .. OPEN_MAX
O_ACCMODE == {"O_RDONLY", "O_WRONLY", "O_RDWR"}

VARIABLES
    opened_files,   \* the descriptor table
    file,           \* the struct files, NULL where none is allocated
    size,           \* the length of each vnode
    opens,          \* how often each vnode is open: vfs_open and vfs_close
    status          \* not "ok": an assertion failed, in the call it names

vars == <<opened_files, file, size, opens, status>>

NewFile(v, flag, offset) ==
    [f_flag |-> flag, f_ref_count |-> 1, f_offset |-> offset, f_vnode |-> v]
FreeId == Min({i \in FileId : file[i] = NULL})

(* init_process_file_table: the first n standard descriptors; with n < 3   *)
(* it failed, which runprogram does not look at.                           *)
Init ==
    \E n \in 0 .. 3 :
      /\ opened_files = [fd \in Fd |-> IF fd < n THEN fd + 1 ELSE NULL]
      /\ file = [i \in FileId |-> IF i <= n THEN NewFile(con, "O_RDWR", 0) ELSE NULL]
      /\ size = [v \in Vnode |-> 0]
      /\ opens = [v \in Vnode |-> IF v = con THEN n ELSE 0]
      /\ status = "ok"

(* A call that returns an error; which one is left out. *)
Fails == UNCHANGED vars
Panic(call) == status' = call /\ UNCHANGED <<opened_files, file, size, opens>>

IsOpen(fd) == fd \in Fd /\ opened_files[fd] # NULL
-----------------------------------------------------------------------------
(* _sys_open.  It may fail in vfs_open, for want of memory or in VOP_STAT, *)
(* and undoes what it did.  With a full table it releases a lock it does   *)
(* not hold, which is an assertion failure.                                *)
sys_open(v, flag, append) ==
    LET free == {fd \in Fd : opened_files[fd] = NULL}
        offset == IF append THEN size[v] ELSE 0
    IN
    /\ status = "ok"
    /\ \/ Fails
       \/ /\ free = {}
          /\ Panic("open")
       \/ /\ free # {}
          /\ opened_files' = [opened_files EXCEPT ![Min(free)] = FreeId]
          /\ file' = [file EXCEPT ![FreeId] = NewFile(v, flag, offset)]
          /\ opens' = [opens EXCEPT ![v] = @ + 1]
          /\ UNCHANGED <<size, status>>

(* How many of n bytes a read of f gets: less at the end of a regular      *)
(* file, and on the console less when a line ends.                         *)
BytesRead(f, n) ==
    IF f.f_vnode = con THEN (IF n = 0 THEN {0} ELSE 1 .. n)
    ELSE {Min({n, IF f.f_offset > size[f.f_vnode] THEN 0
                  ELSE size[f.f_vnode] - f.f_offset})}

(* sys_read of n bytes. *)
sys_read(fd, n) ==
    /\ status = "ok"
    /\ IF ~IsOpen(fd) THEN Fails
       ELSE LET f == file[opened_files[fd]]
            IN IF f.f_flag = "O_WRONLY" THEN Fails
               ELSE \/ Fails
                    \/ \E done \in BytesRead(f, n) :
                         /\ done = 0 \/ f.f_offset + done <= MaxOffset
                         /\ file' = [file EXCEPT ![opened_files[fd]].f_offset = @ + done]
                         /\ UNCHANGED <<opened_files, size, opens, status>>

sys_write(fd, n) ==
    /\ status = "ok"
    /\ IF ~IsOpen(fd) THEN Fails
       ELSE LET f == file[opened_files[fd]]
                end == f.f_offset + n
            IN IF f.f_flag = "O_RDONLY" THEN Fails
               ELSE \/ Fails
                    \/ /\ end <= MaxOffset
                       /\ file' = [file EXCEPT ![opened_files[fd]].f_offset = end]
                       /\ size' = [size EXCEPT ![f.f_vnode] =
                            IF f.f_vnode # con /\ end > @ THEN end ELSE @]
                       /\ UNCHANGED <<opened_files, opens, status>>

(* sys_lseek.  SEEK_END first moves the position to the end, and leaves it *)
(* there when the final position would be negative.                        *)
sys_lseek(fd, pos, whence) ==
    /\ status = "ok"
    /\ IF ~IsOpen(fd) THEN Fails
       ELSE LET i == opened_files[fd]
                f == file[i]
                start == CASE whence = "SEEK_SET" -> 0
                           [] whence = "SEEK_CUR" -> f.f_offset
                           [] whence = "SEEK_END" -> size[f.f_vnode]
            IN IF f.f_vnode = con THEN Fails
               ELSE /\ start + pos <= MaxOffset
                    /\ file' = IF start + pos >= 0
                         THEN [file EXCEPT ![i].f_offset = start + pos]
                         ELSE IF whence = "SEEK_END"
                         THEN [file EXCEPT ![i].f_offset = start]
                         ELSE file
                    /\ UNCHANGED <<opened_files, size, opens, status>>

(* The count is not looked at. *)
sys_close_always(fd) ==
    /\ status = "ok"
    /\ IF ~IsOpen(fd) THEN Fails
       ELSE LET i == opened_files[fd] IN
            /\ file' = [file EXCEPT ![i] = NULL]
            /\ opens' = [opens EXCEPT ![file[i].f_vnode] = @ - 1]
            /\ opened_files' = [opened_files EXCEPT ![fd] = NULL]
            /\ UNCHANGED <<size, status>>

sys_close(fd) ==
    /\ status = "ok"
    /\ IF ~IsOpen(fd) THEN Fails
       ELSE LET i == opened_files[fd]
                last == file[i].f_ref_count = 1
            IN
            /\ file' = IF last THEN [file EXCEPT ![i] = NULL]
                       ELSE [file EXCEPT ![i].f_ref_count = @ - 1]
            /\ opens' = IF last THEN [opens EXCEPT ![file[i].f_vnode] = @ - 1]
                        ELSE opens
            /\ opened_files' = [opened_files EXCEPT ![fd] = NULL]
            /\ UNCHANGED <<size, status>>

(* sys_dup2.  With newfd open it calls sys_close while it holds ft_lock;   *)
(* sys_close acquires ft_lock, which is an assertion failure.              *)
sys_dup2(oldfd, newfd) ==
    /\ status = "ok"
    /\ IF ~IsOpen(oldfd) \/ newfd \notin Fd THEN Fails
       ELSE IF oldfd = newfd THEN UNCHANGED vars
       ELSE IF IsOpen(newfd) THEN Panic("dup2")
       ELSE LET i == opened_files[oldfd] IN
            /\ file' = [file EXCEPT ![i].f_ref_count = @ + 1]
            /\ opened_files' = [opened_files EXCEPT ![newfd] = i]
            /\ UNCHANGED <<size, opens, status>>

Next ==
    \/ \E v \in Vnode, flag \in O_ACCMODE, append \in BOOLEAN : sys_open(v, flag, append)
    \/ \E fd \in AnyFd, n \in 0 .. MaxOffset : sys_read(fd, n) \/ sys_write(fd, n)
    \/ \E fd \in AnyFd, pos \in -MaxOffset .. MaxOffset,
          whence \in {"SEEK_SET", "SEEK_CUR", "SEEK_END"} : sys_lseek(fd, pos, whence)
    \/ \E fd \in AnyFd : sys_close(fd)
    \/ \E oldfd, newfd \in AnyFd : sys_dup2(oldfd, newfd)

Spec == Init /\ [][Next]_vars
-----------------------------------------------------------------------------
(* The reference count of a file is the number of descriptors that refer   *)
(* to it; a file with none is gone, and its vnode closed: open, dup2 and   *)
(* close neither leak a file nor free one in use, in any order.            *)
RefCountsExact ==
    /\ \A i \in FileId :
         Cardinality({fd \in Fd : opened_files[fd] = i}) =
           IF file[i] = NULL THEN 0 ELSE file[i].f_ref_count
    /\ \A i \in FileId : file[i] # NULL => file[i].f_ref_count > 0
    /\ \A v \in Vnode : opens[v] =
         Cardinality({i \in FileId : file[i] # NULL /\ file[i].f_vnode = v})
=============================================================================
