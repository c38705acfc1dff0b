---------------------------- MODULE InputOutput -----------------------------
(***************************************************************************)
(* What read and write reach: the open files of the two kernels, of        *)
(* assignment 2 (module File) and of the base kernel of assignment 3       *)
(* (OpenFile), and below those of the base kernel the semaphore file       *)
(* system (SemFS), the console (Console) and the disk (Disk).  These share *)
(* no state, so a behaviour has one of them at work.                       *)
(***************************************************************************)
EXTENDS File, Sequences

CONSTANTS
    Proc, init, OpenFiles, MaxFd,
    Name, MaxSems, MaxCount,
    Reader, Writer, Printer, BufferSize, MaxTyped, MaxTypedBusy, MaxResid, MaxPolled,
    DiskThread, Sectors, MaxLen, MaxCalls

VARIABLES
    part,       \* what is at work
    ft_openfiles, of_refcount, of_offset, of_kind, of_offsetlock, pc, l, back,
    semfs_sems, semfs_dents, vn_refcount, semfs_dirlock, semfs_tablelock,
    sem_pc, sem_file, sem_l, sem_status,
    cs_gotchars, cs_gotchars_head, cs_gotchars_tail, cs_rsem, cs_wsem,
    con_userlock_read, con_userlock_write, ls_wbusy, sending, wirq, received, irq,
    con_pc, resid, out, polled, typed, queue, line, con_status,
    lh_clear, lh_done, lh_result, lh_buf, stat, sect, disk, answer,
    lh_pc, lh_l, calls

ASSUME BufferAssumption ==
    BufferSize \in Nat /\ BufferSize > 1 /\ MaxTypedBusy \in 0 .. MaxTyped

Line == <<"nl">>     \* what a program or the kernel prints: con_io sends two characters

Base == INSTANCE OpenFile WITH OPEN_MAX <- MaxFd
Sem == INSTANCE SemFS WITH
    pc <- sem_pc, file <- sem_file, l <- sem_l, status <- sem_status
Con == INSTANCE Console WITH Message <- Line, pc <- con_pc
Lhd == INSTANCE Disk WITH
    Thread <- DiskThread, d_blocks <- Sectors, pc <- lh_pc, l <- lh_l

Silent == \A t \in Writer \cup Printer : con_pc[t] = "done"

(* A console on which nothing is printed takes MaxTyped characters, one    *)
(* that also prints takes MaxTypedBusy of them.  What is not at work      *)
(* starts from one value.                                                  *)
Boot ==
    /\ part \in {"asst2", "base", "sem", "con", "lhd"}
    /\ Init /\ Base!Init /\ Sem!Init /\ Con!Init /\ Lhd!Init
    /\ part # "asst2" => \A v \in Vnode : opens[v] = 0
    /\ \/ part = "con" /\ Silent /\ typed = 0
       \/ part = "con" /\ ~Silent /\ typed = MaxTyped - MaxTypedBusy
       \/ part # "con" /\ Silent /\ typed = MaxTyped

basevars == <<ft_openfiles, of_refcount, of_offset, of_kind, of_offsetlock, pc, l, back>>
semvars == <<semfs_sems, semfs_dents, vn_refcount, semfs_dirlock, semfs_tablelock,
             sem_pc, sem_file, sem_l, sem_status>>
convars == <<cs_gotchars, cs_gotchars_head, cs_gotchars_tail, cs_rsem, cs_wsem,
             con_userlock_read, con_userlock_write, ls_wbusy, sending, wirq, received, irq,
             con_pc, resid, out, polled, typed, queue, line, con_status>>
lhdvars == <<lh_clear, lh_done, lh_result, lh_buf, stat, sect, disk, answer,
             lh_pc, lh_l, calls>>
all == <<part, vars, basevars, semvars, convars, lhdvars>>

IONext ==
    /\ \/ part = "asst2" /\ Next
          /\ UNCHANGED <<basevars, semvars, convars, lhdvars>>
       \/ part = "base" /\ Base!Next
          /\ UNCHANGED <<vars, semvars, convars, lhdvars>>
       \/ part = "sem" /\ Sem!Next
          /\ UNCHANGED <<vars, basevars, convars, lhdvars>>
       \/ part = "con" /\ Con!Next
          /\ UNCHANGED <<vars, basevars, semvars, lhdvars>>
       \/ part = "lhd" /\ Lhd!Next
          /\ UNCHANGED <<vars, basevars, semvars, convars>>
    /\ UNCHANGED part

(* The fairness of Console and of Disk, where that is what is at work.    *)
IOFairness ==
    /\ WF_all(part = "con" /\ Con!sent /\ UNCHANGED <<part, vars, basevars, semvars, lhdvars>>)
    /\ WF_all(part = "con" /\ Con!Interrupt /\ UNCHANGED <<part, vars, basevars, semvars, lhdvars>>)
    /\ \A t \in Writer \cup Printer :
         WF_all(part = "con" /\ Con!Prints(t) /\ UNCHANGED <<part, vars, basevars, semvars, lhdvars>>)
    /\ WF_all(part = "lhd" /\ Lhd!disk_ends /\ UNCHANGED <<part, vars, basevars, semvars, convars>>)
    /\ WF_all(part = "lhd" /\ Lhd!lhd_irq /\ UNCHANGED <<part, vars, basevars, semvars, convars>>)
    /\ \A t \in DiskThread :
         WF_all(part = "lhd" /\ Lhd!Transfers(t) /\ UNCHANGED <<part, vars, basevars, semvars, convars>>)

IOSpec == Boot /\ [][IONext]_all /\ IOFairness
-----------------------------------------------------------------------------
(* In the base kernel the reference count of an openfile is the number of  *)
(* descriptors that refer to it, in all processes, and of references about *)
(* to be dropped in openfile_decref; a file that is gone has none.         *)
SharedCountsExact == Base!RefCountsExact

(* While a process of the base kernel reads or writes in sys_readwrite,    *)
(* nobody else moves the seek position it started from.                    *)
PositionStable == Base!PositionStable

(* semfs_remove and semfs_reclaim, which decide under different locks who  *)
(* destroys a semaphore, neither lose one nor take it from its users; when *)
(* both decide to, the kernel stops in lock_destroy with nothing else out  *)
(* of place.                                                               *)
SemaphoresKept == Sem!SemaphoresKept

(* What is typed reaches con_io once and in order through the ring that    *)
(* con_input and getch_intr share without a lock.                          *)
InputExact == Con!InputExact

(* lser_write is never called before the port is clear to write, and the   *)
(* messages of programs are not mixed on the wire.                         *)
OutputExact == Con!OutputExact

(* A thread in lhd_io gets its own result, sector and data. *)
SectorsExact == Lhd!SectorsExact

(* Every call that prints returns, and so does every call of lhd_io. *)
DevicesAnswer ==
    /\ part = "con" => Con!PrintingEnds
    /\ part = "lhd" => Lhd!TransfersEnd
=============================================================================
