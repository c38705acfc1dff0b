--------------------------------- MODULE VM ---------------------------------
(***************************************************************************)
(* The hashed page table, the TLB and the life of address spaces           *)
(* (asst3/kern/vm/vm.c, asst3/kern/vm/addrspace.c), driven by the kernel   *)
(* paths that use them: page faults, fork, execv, exit and the thread      *)
(* switch.  Every process has one thread.  A step is what a thread does    *)
(* between two points where another thread can see a difference; threads   *)
(* are preempted between any two steps, the holder of page_table_lock too. *)
(*                                                                         *)
(* Frames come from the pool PageAllocator specifies: a request for one    *)
(* page fails only when the pool is empty.  What happens after the kernel  *)
(* panics, or frees an address space twice, is not modelled: status        *)
(* records it and no further step is taken.                                *)
(***************************************************************************)
EXTENDS Naturals, FiniteSets, SequencesExt

CONSTANTS
    CPU, Proc, Page, Frame, Value,
    AddrSpace,   \* the kmalloc addresses a struct addrspace can have
    PageNums,    \* buckets of the page table
    Hash,        \* hpt_hash: [AddrSpace -> [Page -> 1 .. PageNums]]
    Segments,    \* the regions load_elf defines: a sequence of regions
    Stack,       \* the region as_define_stack defines
    MayFail,     \* the calls of kmalloc and of the file system that may fail
    NULL

VARIABLES
    cur,              \* the process whose thread each CPU runs, or NULL
    tlb,              \* the valid TLB entries of each CPU
    page_table,       \* the chain of each bucket
    page_table_lock,  \* the process that holds it, or NULL
    pool,             \* the frames alloc_kpages can hand out
    mem,              \* what each frame contains
    live,             \* the address spaces that are allocated
    as_regions,       \* the region list of each address space
    dirty_mask,       \* as->dirty_mask: 1 while a program is loaded
    p_addrspace,      \* the address space of each process, or NULL
    pc,               \* where each process's thread is
    l,                \* its local variables
    written,          \* ghost: what each address space's program has stored,
                      \* over what it was forked with
    status            \* "ok", "panic" or "double_free"

procs == <<p_addrspace, pc, l>>
table == <<page_table, page_table_lock>>
spaces == <<live, as_regions, dirty_mask>>
ram == <<pool, mem>>
cpus == <<cur, tlb>>
vars == <<cpus, table, ram, spaces, procs, written, status>>

Zero == 0   \* what bzero leaves in a frame

NoLocals == [page |-> CHOOSE v \in Page : TRUE, frame |-> NULL, dirty |-> 0,
             from |-> "user", todo |-> {}, as |-> NULL, child |-> NULL,
             i |-> 1, then |-> "none"]
-----------------------------------------------------------------------------
Running(p) == status = "ok" /\ \E c \in CPU : cur[c] = p
At(p, label) == Running(p) /\ pc[p] = label
Goto(p, label) == pc' = [pc EXCEPT ![p] = label]
MyCpu(p) == CHOOSE c \in CPU : cur[c] = p

(* as_activate flushes the TLB of the CPU, unless the thread that runs has *)
(* no address space.                                                       *)
as_activate(c, as) == tlb' = IF as = NULL THEN tlb ELSE [tlb EXCEPT ![c] = {}]

(* The entries of the page table. *)
Entry == UNION {{page_table[b][k] : k \in DOMAIN page_table[b]} : b \in 1 .. PageNums}

(* Mutant: only the head of the chain is compared. *)
Found_head(as, v) ==
    LET chain == page_table[Hash[as][v]] IN
    {k \in DOMAIN chain : k = 1 /\ chain[k].pid = as /\ chain[k].page = v}

(* Where the entry of a page is in its chain; lookup_pht returns the first.*)
Found(as, v) ==
    LET chain == page_table[Hash[as][v]] IN
    {k \in DOMAIN chain : chain[k].pid = as /\ chain[k].page = v}
lookup_pht(as, v) == page_table[Hash[as][v]][Min(Found(as, v))]

(* The regions that have a page; check_regions returns the first. *)
InRegions(as, v) == {k \in DOMAIN as_regions[as] : v \in as_regions[as][k].pages}
check_regions(as, v) == as_regions[as][Min(InRegions(as, v))]

(* What a program reads at page v of address space as: the contents of the *)
(* frame the page table gives it, or the zeroes a fault would provide.     *)
Contents(as, v) ==
    IF Found(as, v) = {} THEN Zero ELSE mem[lookup_pht(as, v).frame]

Insert(e) == page_table' =
    [page_table EXCEPT ![Hash[e.pid][e.page]] = Append(@, e)]

(* kmalloc hands out an address for a struct addrspace. *)
NewSpace(as) == as \notin live /\ live' = live \union {as}

(* A call of as_destroy(as) that continues at "then". *)
as_destroy(p, as, then) ==
    /\ l' = [l EXCEPT ![p].as = as, ![p].i = 1, ![p].then = then]
    /\ Goto(p, "vm_destroy")
-----------------------------------------------------------------------------
(* thread_switch, and thread_startup for a thread that never ran. *)
thread_switch(c, p) ==
    /\ status = "ok"
    /\ pc[p] \notin {"none", "embryo"}
    /\ \A d \in CPU \ {c} : cur[d] # p
    /\ cur' = [cur EXCEPT ![c] = p]
    /\ as_activate(c, p_addrspace[p])
    /\ UNCHANGED <<table, ram, spaces, procs, written, status>>

(* A store that the TLB lets through: by the user program, or by load_elf  *)
(* filling a page of a segment.                                            *)
Store(p, v, x) ==
    \E e \in tlb[MyCpu(p)] :
      /\ e.page = v /\ e.dirty = 1
      /\ mem' = [mem EXCEPT ![e.frame] = x]
      /\ written' = [written EXCEPT ![p_addrspace[p]][v] = x]

user_store(p, v, x) ==
    /\ At(p, "user")
    /\ Store(p, v, x)
    /\ UNCHANGED <<cpus, table, pool, spaces, procs, status>>

load_segment(p, v) ==
    /\ At(p, "load")
    /\ v \in l[p].todo
    /\ \E x \in Value \ {Zero} : Store(p, v, x)
    /\ l' = [l EXCEPT ![p].todo = @ \ {v}]
    /\ UNCHANGED <<cpus, table, pool, spaces, p_addrspace, pc, status>>

(* The locals of vm_fault are gone when it returns. *)
FaultDone(p) ==
    l' = [l EXCEPT ![p].page = NoLocals.page, ![p].frame = NULL, ![p].dirty = 0,
                   ![p].from = "user"]

(* What a failed fault leads to: in user mode the process is killed, in    *)
(* copyin, copyout and load_elf the caller sees EFAULT.                    *)
FaultError(p) ==
    \/ l[p].from = "user" /\ (Goto(p, "exit") \/ Goto(p, "user"))
    \/ l[p].from = "load" /\ Goto(p, "load_fail")

(* vm_fault for VM_FAULT_READONLY: a store to a page that is mapped        *)
(* without the dirty bit.                                                  *)
vm_fault_readonly(p, v) ==
    /\ At(p, "user") \/ (At(p, "load") /\ v \in l[p].todo)
    /\ \E e \in tlb[MyCpu(p)] : e.page = v /\ e.dirty = 0
    /\ Goto(p, IF pc[p] = "user" THEN "exit" ELSE "load_fail")
    /\ UNCHANGED <<cpus, table, ram, spaces, p_addrspace, l, written, status>>

(* A TLB miss: the process enters vm_fault. *)
tlb_miss(p, v) ==
    /\ At(p, "user") \/ (At(p, "load") /\ v \in l[p].todo)
    /\ \A e \in tlb[MyCpu(p)] : e.page # v
    /\ l' = [l EXCEPT ![p].page = v, ![p].from = pc[p]]
    /\ Goto(p, "vm_fault")
    /\ UNCHANGED <<cpus, table, ram, spaces, p_addrspace, written, status>>

(* The look-up under page_table_lock. *)
vm_fault(p) ==
    /\ At(p, "vm_fault")
    /\ page_table_lock = NULL
    /\ IF Found(p_addrspace[p], l[p].page) # {}
           THEN LET hit == lookup_pht(p_addrspace[p], l[p].page) IN
                /\ l' = [l EXCEPT ![p].frame = hit.frame, ![p].dirty = hit.dirty]
                /\ Goto(p, "update_tlb")
           ELSE Goto(p, "vm_fault_miss") /\ UNCHANGED l
    /\ UNCHANGED <<cpus, table, ram, spaces, p_addrspace, written, status>>

(* Mutant: the frame is not cleared. *)
vm_fault_miss_nobzero(p) ==
    /\ At(p, "vm_fault_miss")
    /\ \/ /\ InRegions(p_addrspace[p], l[p].page) = {} \/ pool = {}
          /\ FaultError(p)
          /\ FaultDone(p)
          /\ UNCHANGED pool
       \/ /\ InRegions(p_addrspace[p], l[p].page) # {}
          /\ \E f \in pool :
               /\ pool' = pool \ {f}
               /\ l' = [l EXCEPT ![p].frame = f]
          /\ Goto(p, "insert")
    /\ UNCHANGED <<cpus, table, mem, spaces, p_addrspace, written, status>>

(* No entry: the page must be in a region, and gets a cleared frame. *)
vm_fault_miss(p) ==
    /\ At(p, "vm_fault_miss")
    /\ \/ /\ InRegions(p_addrspace[p], l[p].page) = {} \/ pool = {}
          /\ FaultError(p)
          /\ FaultDone(p)
          /\ UNCHANGED ram
       \/ /\ InRegions(p_addrspace[p], l[p].page) # {}
          /\ \E f \in pool :
               /\ pool' = pool \ {f}
               /\ mem' = [mem EXCEPT ![f] = Zero]
               /\ l' = [l EXCEPT ![p].frame = f]
          /\ Goto(p, "insert")
    /\ UNCHANGED <<cpus, table, spaces, p_addrspace, written, status>>

(* The new entry is allocated and appended to its chain. *)
vm_fault_insert(p) ==
    LET r == check_regions(p_addrspace[p], l[p].page) IN
    /\ At(p, "insert")
    /\ page_table_lock = NULL
    /\ Insert([pid |-> p_addrspace[p], page |-> l[p].page,
               frame |-> l[p].frame, dirty |-> r.write])
    /\ l' = [l EXCEPT ![p].dirty = r.write]
    /\ Goto(p, "update_tlb")
    /\ UNCHANGED <<cpus, page_table_lock, ram, spaces, p_addrspace, written,
                   status>>

(* Mutant: the frame is not given back. *)
vm_fault_nomem_leak(p) ==
    /\ At(p, "insert")
    /\ "pte" \in MayFail
    /\ FaultDone(p)
    /\ FaultError(p)
    /\ UNCHANGED <<cpus, table, ram, spaces, p_addrspace, written, status>>

(* The entry cannot be allocated. *)
vm_fault_nomem(p) ==
    /\ At(p, "insert")
    /\ "pte" \in MayFail
    /\ pool' = pool \union {l[p].frame}
    /\ FaultDone(p)
    /\ FaultError(p)
    /\ UNCHANGED <<cpus, table, mem, spaces, p_addrspace, written, status>>

(* tlb_random overwrites a slot of the processor's choice. *)
update_tlb(p) ==
    /\ At(p, "update_tlb")
    /\ LET as == p_addrspace[p]
           c == MyCpu(p)
           new == [page |-> l[p].page, frame |-> l[p].frame,
                   dirty |-> IF l[p].dirty = 1 THEN 1 ELSE dirty_mask[as]]
       IN \E old \in {{}} \union {{e} : e \in tlb[c]} :
            tlb' = [tlb EXCEPT ![c] = (@ \ old) \union {new}]
    /\ FaultDone(p)
    /\ Goto(p, l[p].from)
    /\ UNCHANGED <<cur, table, ram, spaces, p_addrspace, written, status>>
-----------------------------------------------------------------------------
(* proc_create_runprogram: the menu starts a process. *)
runprogram(p) ==
    /\ status = "ok"
    /\ pc[p] = "none"
    /\ l' = [l EXCEPT ![p] = NoLocals]
    /\ Goto(p, "runprogram")
    /\ UNCHANGED <<cpus, table, ram, spaces, p_addrspace, written, status>>

(* loadexec up to load_elf: a new address space replaces the old one, which *)
(* is kept aside.                                                          *)
loadexec(p) ==
    /\ At(p, "user") \/ At(p, "runprogram")
    /\ \E as \in AddrSpace :
         /\ NewSpace(as)
         /\ as_regions' = [as_regions EXCEPT ![as] = <<>>]
         /\ dirty_mask' = [dirty_mask EXCEPT ![as] = 0]
         /\ written' = [written EXCEPT ![as] = [v \in Page |-> Zero]]
         /\ l' = [l EXCEPT ![p].as = p_addrspace[p]]
         /\ p_addrspace' = [p_addrspace EXCEPT ![p] = as]
         /\ as_activate(MyCpu(p), as)
    /\ Goto(p, "load_elf")
    /\ UNCHANGED <<cur, table, ram, status>>

(* as_create fails: execv returns the error, runprogram gives up. *)
loadexec_nomem(p) ==
    /\ At(p, "runprogram")
    /\ "addrspace" \in MayFail
    /\ Goto(p, "exit")
    /\ UNCHANGED <<cpus, table, ram, spaces, p_addrspace, l, written, status>>

(* load_elf: the regions are defined, and as_prepare_load makes every page *)
(* writable until the program is loaded.                                   *)
load_elf(p) ==
    LET as == p_addrspace[p] IN
    /\ At(p, "load_elf")
    /\ as_regions' = [as_regions EXCEPT ![as] = Segments]
    /\ dirty_mask' = [dirty_mask EXCEPT ![as] = 1]
    /\ as_activate(MyCpu(p), as)
    /\ l' = [l EXCEPT ![p].todo = UNION {r.pages : r \in Range(Segments)}]
    /\ Goto(p, "load")
    /\ UNCHANGED <<cur, table, ram, live, p_addrspace, written, status>>

(* Mutant: the TLB keeps the writable translations of the load. *)
as_complete_load_noflush(p) ==
    /\ At(p, "load")
    /\ l[p].todo = {}
    /\ dirty_mask' = [dirty_mask EXCEPT ![p_addrspace[p]] = 0]
    /\ Goto(p, "as_define_stack")
    /\ UNCHANGED <<cpus, table, ram, live, as_regions, p_addrspace, l, written,
                   status>>

(* Every segment is loaded: as_complete_load. *)
as_complete_load(p) ==
    /\ At(p, "load")
    /\ l[p].todo = {}
    /\ dirty_mask' = [dirty_mask EXCEPT ![p_addrspace[p]] = 0]
    /\ as_activate(MyCpu(p), p_addrspace[p])
    /\ Goto(p, "as_define_stack")
    /\ UNCHANGED <<cur, table, ram, live, as_regions, p_addrspace, l, written,
                   status>>

(* as_define_stack, and the end of loadexec. *)
as_define_stack(p) ==
    /\ At(p, "as_define_stack")
    /\ as_regions' = [as_regions EXCEPT ![p_addrspace[p]] = Append(@, Stack)]
    /\ IF l[p].as = NULL THEN Goto(p, "user") /\ UNCHANGED l
                         ELSE as_destroy(p, l[p].as, "user")
    /\ UNCHANGED <<cpus, table, ram, live, dirty_mask, p_addrspace, written,
                   status>>

(* A kmalloc or a read of the executable fails in load_elf, or the stack   *)
(* cannot be defined.                                                      *)
load_error(p) ==
    /\ "load" \in MayFail
    /\ At(p, "load_elf") \/ At(p, "load") \/ At(p, "as_define_stack")
    /\ Goto(p, "load_fail")
    /\ UNCHANGED <<cpus, table, ram, spaces, p_addrspace, l, written, status>>

(* loadexec restores the old address space and destroys the new one. *)
loadexec_fail(p) ==
    /\ At(p, "load_fail")
    /\ p_addrspace' = [p_addrspace EXCEPT ![p] = l[p].as]
    /\ as_activate(MyCpu(p), l[p].as)
    /\ as_destroy(p, p_addrspace[p], IF l[p].as = NULL THEN "exit" ELSE "user")
    /\ UNCHANGED <<cur, table, ram, spaces, written, status>>
-----------------------------------------------------------------------------
(* proc_fork and as_copy up to vm_copy: the child q gets an address space  *)
(* with the parent's regions.                                              *)
as_copy(p, q) ==
    LET old == p_addrspace[p] IN
    /\ At(p, "user")
    /\ pc[q] = "none"
    /\ \E new \in AddrSpace :
         /\ NewSpace(new)
         /\ as_regions' = [as_regions EXCEPT ![new] = as_regions[old]]
         /\ dirty_mask' = [dirty_mask EXCEPT ![new] = dirty_mask[old]]
         /\ written' = [written EXCEPT ![new] = [v \in Page |-> Zero]]
         /\ p_addrspace' = [p_addrspace EXCEPT ![q] = new]
         /\ l' = [l EXCEPT ![p].as = new, ![p].child = q, ![p].i = 1]
    /\ pc' = [pc EXCEPT ![p] = "vm_copy", ![q] = "embryo"]
    /\ UNCHANGED <<cpus, table, ram, status>>

(* A region of the copy cannot be allocated: as_copy destroys the new      *)
(* address space before it has given it to the child.                      *)
as_copy_nomem(p, q) ==
    /\ At(p, "user")
    /\ pc[q] = "none"
    /\ "region" \in MayFail
    /\ \E new \in AddrSpace :
         /\ NewSpace(new)
         /\ as_regions' = [as_regions EXCEPT ![new] = <<>>]
         /\ dirty_mask' = [dirty_mask EXCEPT ![new] = 0]
         /\ written' = [written EXCEPT ![new] = [v \in Page |-> Zero]]
         /\ l' = [l EXCEPT ![p].as = new, ![p].child = q, ![p].i = 1,
                           ![p].then = "fork_fail"]
    /\ pc' = [pc EXCEPT ![p] = "vm_destroy", ![q] = "embryo"]
    /\ UNCHANGED <<cpus, table, ram, p_addrspace, status>>

(* The loops of vm_copy and vm_destroy run under page_table_lock, one      *)
(* bucket a step.                                                          *)
HasTable(p) == page_table_lock = IF l[p].i = 1 THEN NULL ELSE p

(* vm_copy looks at the head of the chain. *)
vm_copy(p) ==
    LET chain == page_table[l[p].i]
        old == p_addrspace[p]
    IN
    /\ At(p, "vm_copy")
    /\ HasTable(p)
    /\ IF chain # <<>> /\ chain[1].pid = old
         THEN \E f \in pool :
                /\ pool' = pool \ {f}
                /\ mem' = [mem EXCEPT ![f] = mem[chain[1].frame]]
                /\ Insert([chain[1] EXCEPT !.pid = l[p].as, !.frame = f])
         ELSE UNCHANGED <<ram, page_table>>
    /\ IF l[p].i < PageNums
         THEN /\ l' = [l EXCEPT ![p].i = @ + 1]
              /\ page_table_lock' = p
              /\ UNCHANGED pc
         ELSE /\ page_table_lock' = NULL
              /\ Goto(p, "fork_end")
              /\ UNCHANGED l
    /\ UNCHANGED <<cpus, spaces, p_addrspace, written, status>>

(* kmalloc of an entry fails: vm_copy returns ENOMEM and as_copy destroys  *)
(* the new address space, which the child already refers to.               *)
vm_copy_nomem(p) ==
    LET chain == page_table[l[p].i] IN
    /\ At(p, "vm_copy")
    /\ HasTable(p)
    /\ "copy" \in MayFail
    /\ chain # <<>> /\ chain[1].pid = p_addrspace[p]
    /\ page_table_lock' = NULL
    /\ as_destroy(p, l[p].as, "fork_fail")
    /\ UNCHANGED <<cpus, page_table, ram, spaces, p_addrspace, written, status>>

(* No frame is left: the result of alloc_kpages is not tested, and memcpy  *)
(* stores to address 0.  The fault is taken in the kernel, and vm_fault    *)
(* asks for the lock this thread holds.                                    *)
vm_copy_noframe(p) ==
    LET chain == page_table[l[p].i] IN
    /\ At(p, "vm_copy")
    /\ HasTable(p)
    /\ chain # <<>> /\ chain[1].pid = p_addrspace[p]
    /\ pool = {}
    /\ status' = "panic"
    /\ UNCHANGED <<cpus, table, ram, spaces, procs, written>>

(* The rest of proc_fork and thread_fork: the child can run. *)
fork_end(p) ==
    LET q == l[p].child IN
    /\ At(p, "fork_end")
    /\ pc' = [pc EXCEPT ![p] = "user", ![q] = "user"]
    /\ l' = [l EXCEPT ![p] = NoLocals, ![q] = NoLocals]
    /\ written' = [written EXCEPT ![l[p].as] =
                      [v \in Page |-> Contents(l[p].as, v)]]
    /\ UNCHANGED <<cpus, table, ram, spaces, p_addrspace, status>>

(* filetable_copy or thread_fork fails: the child is undone. *)
fork_undo(p) ==
    /\ At(p, "fork_end")
    /\ "fork" \in MayFail
    /\ p_addrspace' = [p_addrspace EXCEPT ![l[p].child] = NULL]
    /\ as_destroy(p, l[p].as, "fork_fail")
    /\ UNCHANGED <<cpus, table, ram, spaces, written, status>>

(* proc_destroy of the child of a failed fork destroys the address space   *)
(* the child refers to, if any.                                            *)
fork_fail(p) ==
    LET q == l[p].child IN
    /\ At(p, "fork_fail")
    /\ IF p_addrspace[q] # NULL
         THEN status' = "double_free" /\ UNCHANGED <<pc, l>>
         ELSE /\ pc' = [pc EXCEPT ![p] = "user", ![q] = "none"]
              /\ l' = [l EXCEPT ![p] = NoLocals]
              /\ UNCHANGED status
    /\ UNCHANGED <<cpus, table, ram, spaces, p_addrspace, written>>
-----------------------------------------------------------------------------
(* The numbers of the set S, at most n of them, in increasing order. *)
InOrder(S, n) ==
    {s \in UNION {[1 .. m -> S] : m \in 0 .. n} :
        /\ \A j, k \in DOMAIN s : j < k => s[j] < s[k]
        /\ \A x \in S : \E k \in DOMAIN s : s[k] = x}

(* vm_destroy, and the end of as_destroy.  A thread that exits leaves its  *)
(* CPU, and the TLB as it is.                                              *)
vm_destroy(p) ==
    LET as == l[p].as
        b == l[p].i
        chain == page_table[b]
        mine == {k \in DOMAIN chain : chain[k].pid = as}
    IN
    /\ At(p, "vm_destroy")
    /\ HasTable(p)
    /\ \E kept \in InOrder(DOMAIN chain \ mine, Len(chain)) :
         page_table' = [page_table EXCEPT ![b] = [k \in DOMAIN kept |-> chain[kept[k]]]]
    /\ pool' = pool \union {chain[k].frame : k \in mine}
    /\ IF b < PageNums
         THEN /\ l' = [l EXCEPT ![p].i = @ + 1]
              /\ page_table_lock' = p
              /\ UNCHANGED <<cur, spaces, pc, written>>
         ELSE /\ page_table_lock' = NULL
              /\ live' = live \ {as}
              /\ as_regions' = [as_regions EXCEPT ![as] = <<>>]
              /\ dirty_mask' = [dirty_mask EXCEPT ![as] = 0]
              /\ written' = [written EXCEPT ![as] = [v \in Page |-> Zero]]
              /\ l' = [l EXCEPT ![p] = [NoLocals EXCEPT !.child = l[p].child]]
              /\ Goto(p, l[p].then)
              /\ cur' = IF l[p].then = "none"
                          THEN [cur EXCEPT ![MyCpu(p)] = NULL] ELSE cur
    /\ UNCHANGED <<tlb, mem, p_addrspace, status>>

(* proc_exit: the thread moves to the kernel's process, then proc_destroy  *)
(* destroys the address space it leaves behind.                            *)
proc_exit(p) ==
    /\ At(p, "user") \/ At(p, "exit")
    /\ p_addrspace' = [p_addrspace EXCEPT ![p] = NULL]
    /\ IF p_addrspace[p] # NULL
         THEN as_destroy(p, p_addrspace[p], "none") /\ UNCHANGED cur
         ELSE /\ Goto(p, "none")
              /\ cur' = [cur EXCEPT ![MyCpu(p)] = NULL]
              /\ UNCHANGED l
    /\ UNCHANGED <<tlb, table, ram, spaces, written, status>>
-----------------------------------------------------------------------------
Init ==
    /\ cur = [c \in CPU |-> NULL]
    /\ tlb = [c \in CPU |-> {}]
    /\ page_table = [b \in 1 .. PageNums |-> <<>>]
    /\ page_table_lock = NULL
    /\ pool = Frame
    /\ mem = [f \in Frame |-> Zero]
    /\ live = {}
    /\ as_regions = [a \in AddrSpace |-> <<>>]
    /\ dirty_mask = [a \in AddrSpace |-> 0]
    /\ p_addrspace = [p \in Proc |-> NULL]
    /\ pc = [p \in Proc |-> "none"]
    /\ l = [p \in Proc |-> NoLocals]
    /\ written = [a \in AddrSpace |-> [v \in Page |-> Zero]]
    /\ status = "ok"

Fault(p) ==
    \/ \E v \in Page : tlb_miss(p, v) \/ vm_fault_readonly(p, v)
    \/ vm_fault(p) \/ vm_fault_miss(p) \/ vm_fault_insert(p)
    \/ vm_fault_nomem(p) \/ update_tlb(p)

Exec(p) ==
    \/ runprogram(p) \/ loadexec(p) \/ loadexec_nomem(p) \/ load_elf(p)
    \/ \E v \in Page : load_segment(p, v)
    \/ as_complete_load(p) \/ as_define_stack(p) \/ load_error(p)
    \/ loadexec_fail(p)

Fork(p) ==
    \/ \E q \in Proc : as_copy(p, q) \/ as_copy_nomem(p, q)
    \/ vm_copy(p) \/ vm_copy_nomem(p) \/ vm_copy_noframe(p)
    \/ fork_end(p) \/ fork_undo(p) \/ fork_fail(p)

Next ==
    \E p \in Proc :
      \/ \E c \in CPU : thread_switch(c, p)
      \/ \E v \in Page, x \in Value : user_store(p, v, x)
      \/ Fault(p) \/ Exec(p) \/ Fork(p) \/ vm_destroy(p) \/ proc_exit(p)

Spec == Init /\ [][Next]_vars
-----------------------------------------------------------------------------
Mapped(f) == \E e \in Entry : e.frame = f
Taken(p) == pc[p] = "insert"

(* Whatever faults, forks, execs and exits of several processes do, and    *)
(* whichever of their allocations fail, every frame is either in the pool, *)
(* or the frame of exactly one page table entry, or on its way into one in *)
(* vm_fault; and an entry always belongs to an address space that exists.  *)
(* So no frame is shared, and none is lost when vm_fault, as_copy,         *)
(* loadexec or a fork backs out.                                           *)
FramesAccounted ==
    /\ \A f \in Frame :
         f \in pool <=> ~Mapped(f) /\ ~\E p \in Proc : Taken(p) /\ l[p].frame = f
    /\ \A d, e \in Entry : d.frame = e.frame => d = e
    /\ \A p \in Proc : Taken(p) =>
         /\ ~Mapped(l[p].frame)
         /\ \A q \in Proc : Taken(q) /\ l[q].frame = l[p].frame => q = p
    /\ \A e \in Entry : e.pid \in live

(* A page of an address space has at most one entry, in the bucket         *)
(* lookup_pht searches.  Between two steps page_table_lock is held only by *)
(* a thread that is in the middle of the loop of vm_copy or of vm_destroy: *)
(* every way out of these loops, ENOMEM halfway through a fork included,   *)
(* gives it up, and nobody asks for a lock they hold.                      *)
TableSound ==
    /\ \A b \in 1 .. PageNums : \A j, k \in DOMAIN page_table[b] :
         LET e == page_table[b][j] IN
         /\ Hash[e.pid][e.page] = b
         /\ e.pid = page_table[b][k].pid /\ e.page = page_table[b][k].page => j = k
    /\ \A p \in Proc : page_table_lock = p =>
         pc[p] \in {"vm_copy", "vm_destroy"} /\ l[p].i > 1

(* When the thread a CPU runs has an address space, the TLB of the CPU     *)
(* holds translations of that address space only, and lets through exactly *)
(* the stores the region of the page permits, or every store while the     *)
(* program is loaded.  There are no address space ids in the TLB: this     *)
(* rests on as_activate being called on every path that changes the        *)
(* address space a CPU sees (thread_switch, thread_startup, loadexec and   *)
(* its error paths, as_prepare_load, as_complete_load).                    *)
(* update_tlb writes a random slot without a probe.  Between the miss and  *)
(* the write the thread may sleep on page_table_lock, be preempted and     *)
(* come back on another CPU; the TLB it writes then still has no entry for *)
(* the page (tlb.h: "never write more than one TLB entry with the same     *)
(* virtual page field").                                                   *)
TlbSound ==
    \A c \in CPU : cur[c] # NULL /\ p_addrspace[cur[c]] # NULL =>
      LET as == p_addrspace[cur[c]] IN
      \A e \in tlb[c] :
        /\ \E pte \in Entry :
             pte.pid = as /\ pte.page = e.page /\ pte.frame = e.frame
        /\ e.dirty = IF dirty_mask[as] = 1 THEN 1 ELSE check_regions(as, e.page).write
        /\ pc[cur[c]] = "update_tlb" => e.page # l[cur[c]].page

(* A program finds in its memory what it stored there, or load_elf, or     *)
(* what vm_copy left there when it was forked, and zeroes elsewhere: also  *)
(* after an exec that failed halfway, and although frames and address      *)
(* spaces are reused.                                                      *)
OwnMemory ==
    \A p \in Proc : pc[p] \in {"user", "load"} =>
      \A v \in Page : Contents(p_addrspace[p], v) = written[p_addrspace[p]][v]

(* addrspace.h: as_copy creates "an exact copy of an old one": when the    *)
(* copy is complete the child reads what the parent reads.                 *)
CopyIsExact ==
    \A p \in Proc : pc[p] = "fork_end" =>
      \A v \in Page : Contents(l[p].as, v) = Contents(p_addrspace[p], v)

(* A fork for which there is not enough memory fails and the kernel goes   *)
(* on: vm_copy reports ENOMEM and proc_fork undoes what was done, once.    *)
FailedForkReturns == status = "ok"
=============================================================================
