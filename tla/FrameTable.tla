----------------------------- MODULE FrameTable -----------------------------
(***************************************************************************)
(* The physical frame allocator of assignment 3 (asst3/kern/vm/            *)
(* frametable.c) on top of the boot-time allocator of the base kernel      *)
(* (kern/arch/mips/vm/ram.c).                                              *)
(*                                                                         *)
(* Physical addresses are counted in frames: every address these files     *)
(* hold is a multiple of PAGE_SIZE.  alloc_kpages and free_kpages run      *)
(* under ft_lock, so each is one step; init_pagetable runs once, from      *)
(* vm_bootstrap.  "blocks" records what the callers hold.                  *)
(***************************************************************************)
EXTENDS Naturals, FiniteSets

CONSTANTS
    RamFrames,    \* frames of RAM reported by mainbus_ramsize
    FirstFree,    \* frame of "firstfree": the frames below hold the kernel
    FtPages,      \* pages the frame table occupies
    PtPages,      \* pages the page table occupies
    MaxPages      \* longest request of a caller of alloc_kpages

(* Frame 0 holds the exception handlers, so FirstFree is not 0, and the    *)
(* two tables are not empty.                                               *)
ASSUME ConstantsAssumption ==
    /\ RamFrames \in Nat
    /\ FirstFree \in 1 .. RamFrames
    /\ FtPages \in Nat \ {0}
    /\ PtPages \in Nat \ {0}
    /\ MaxPages \in Nat \ {0}

Frame == 0 .. RamFrames - 1
NULL == 0

VARIABLES
    firstpaddr,                 \* ram.c: first frame not stolen yet
    lastpaddr,                  \* ram.c: one past the last frame
    frame_table,                \* NULL, or the frame the table starts at
    frame_nums,                 \* number of entries of the frame table
    is_used,                    \* frame_table[i].is_used
    next_empty_frame_index,     \* frame_table[i].next_empty_frame_index
    current_empty_frame_index,  \* head of the list of empty frames
    status,                     \* "panic" once vm_bootstrap gave up
    blocks,                     \* <<first frame, pages>> held by callers
    ret                         \* last request of alloc_kpages and its result:
                                \* [npages, first], first = NULL for address 0

ramvars == <<firstpaddr, lastpaddr>>
ftvars == <<frame_table, frame_nums, is_used, next_empty_frame_index,
            current_empty_frame_index, status>>
vars == <<ramvars, ftvars, blocks, ret>>

(* The frames of a block. *)
FramesOf(b) == b[1] .. b[1] + b[2] - 1
HeldFrames == UNION {FramesOf(b) : b \in blocks}

(* ram_bootstrap; the tables are static data, still zero. *)
Init ==
    /\ firstpaddr = FirstFree
    /\ lastpaddr = RamFrames
    /\ frame_table = NULL
    /\ frame_nums = 0
    /\ is_used = [i \in Frame |-> 0]
    /\ next_empty_frame_index = [i \in Frame |-> 0]
    /\ current_empty_frame_index = 0
    /\ status = "ok"
    /\ blocks = {}
    /\ ret = [npages |-> 0, first |-> NULL]

(* Mutant: the pages of the page table are not reserved. *)
init_pagetable_no_pt ==
    LET first == firstpaddr + FtPages IN
    /\ status = "ok"
    /\ frame_table = NULL
    /\ frame_table' = firstpaddr
    /\ firstpaddr' = 0
    /\ lastpaddr' = 0
    /\ frame_nums' = lastpaddr
    /\ current_empty_frame_index' = first
    /\ status' = IF first >= lastpaddr THEN "panic" ELSE "ok"
    /\ is_used' = [i \in Frame |-> IF i < first THEN 1 ELSE 0]
    /\ next_empty_frame_index' = [i \in Frame |-> i + 1]
    /\ UNCHANGED <<blocks, ret>>

(* init_pagetable: the frame table and then the page table are put at the  *)
(* first free frame, the frames after them are chained in order.           *)
(* vm_bootstrap panics when nothing is left.                               *)
init_pagetable ==
    LET first == firstpaddr + FtPages + PtPages IN
    /\ status = "ok"
    /\ frame_table = NULL
    /\ frame_table' = firstpaddr
    /\ firstpaddr' = 0
    /\ lastpaddr' = 0
    /\ frame_nums' = lastpaddr
    /\ current_empty_frame_index' = first
    /\ status' = IF first >= lastpaddr THEN "panic" ELSE "ok"
    /\ IF first >= lastpaddr
         THEN UNCHANGED <<is_used, next_empty_frame_index>>
         ELSE /\ is_used' = [i \in Frame |-> IF i < first THEN 1 ELSE 0]
              /\ next_empty_frame_index' =
                   [i \in Frame |-> IF i < first THEN next_empty_frame_index[i]
                                                 ELSE i + 1]
    /\ UNCHANGED <<blocks, ret>>

(* alloc_kpages before the frame table exists: ram_stealmem. *)
ram_stealmem(npages) ==
    /\ status = "ok"
    /\ frame_table = NULL
    /\ IF firstpaddr + npages > lastpaddr
         THEN /\ ret' = [npages |-> npages, first |-> NULL]
              /\ UNCHANGED <<firstpaddr, blocks>>
         ELSE /\ ret' = [npages |-> npages, first |-> firstpaddr]
              /\ firstpaddr' = firstpaddr + npages
              /\ blocks' = blocks \union {<<firstpaddr, npages>>}
    /\ UNCHANGED <<lastpaddr, ftvars>>

(* Mutant: off by one, the frame next to the end marker is never served. *)
alloc_kpages_early_stop(npages) ==
    /\ status = "ok"
    /\ frame_table # NULL
    /\ IF npages # 1 \/ current_empty_frame_index + 1 >= frame_nums
         THEN /\ ret' = [npages |-> npages, first |-> NULL]
              /\ UNCHANGED <<is_used, current_empty_frame_index, blocks>>
         ELSE /\ ret' = [npages |-> npages, first |-> current_empty_frame_index]
              /\ is_used' = [is_used EXCEPT ![current_empty_frame_index] = 1]
              /\ current_empty_frame_index' =
                   next_empty_frame_index[current_empty_frame_index]
              /\ blocks' = blocks \union {<<current_empty_frame_index, 1>>}
    /\ UNCHANGED <<ramvars, frame_table, frame_nums, next_empty_frame_index, status>>

(* alloc_kpages with the frame table: it serves single pages only. *)
alloc_kpages(npages) ==
    /\ status = "ok"
    /\ frame_table # NULL
    /\ IF npages # 1 \/ current_empty_frame_index >= frame_nums
         THEN /\ ret' = [npages |-> npages, first |-> NULL]
              /\ UNCHANGED <<is_used, current_empty_frame_index, blocks>>
         ELSE /\ ret' = [npages |-> npages, first |-> current_empty_frame_index]
              /\ is_used' = [is_used EXCEPT ![current_empty_frame_index] = 1]
              /\ current_empty_frame_index' =
                   next_empty_frame_index[current_empty_frame_index]
              /\ blocks' = blocks \union {<<current_empty_frame_index, 1>>}
    /\ UNCHANGED <<ramvars, frame_table, frame_nums, next_empty_frame_index, status>>

(* Mutant: the freed frame is not linked to the old head. *)
free_kpages_unlinked(b) ==
    LET i == b[1] IN
    /\ status = "ok"
    /\ b \in blocks
    /\ blocks' = blocks \ {b}
    /\ IF i < frame_nums /\ is_used[i] = 1
         THEN /\ is_used' = [is_used EXCEPT ![i] = 0]
              /\ current_empty_frame_index' = i
         ELSE UNCHANGED <<is_used, current_empty_frame_index>>
    /\ UNCHANGED <<ramvars, frame_table, frame_nums, next_empty_frame_index, status, ret>>

(* free_kpages of a block its caller holds: ignored before the table       *)
(* exists (frame_nums is 0), otherwise the first frame of the block goes   *)
(* to the head of the list.                                                *)
free_kpages(b) ==
    LET i == b[1] IN
    /\ status = "ok"
    /\ b \in blocks
    /\ blocks' = blocks \ {b}
    /\ IF i < frame_nums /\ is_used[i] = 1
         THEN /\ is_used' = [is_used EXCEPT ![i] = 0]
              /\ next_empty_frame_index' =
                   [next_empty_frame_index EXCEPT ![i] = current_empty_frame_index]
              /\ current_empty_frame_index' = i
         ELSE UNCHANGED <<is_used, next_empty_frame_index, current_empty_frame_index>>
    /\ UNCHANGED <<ramvars, frame_table, frame_nums, status, ret>>

Next ==
    \/ init_pagetable
    \/ \E n \in 1 .. MaxPages : ram_stealmem(n) \/ alloc_kpages(n)
    \/ \E b \in blocks : free_kpages(b)

Spec == Init /\ [][Next]_vars
-----------------------------------------------------------------------------
Managed == frame_table # NULL /\ status = "ok"
EmptyFrames == {i \in Frame : is_used[i] = 0}
TableFrames == frame_table .. frame_table + FtPages + PtPages - 1

(* Every variable keeps its type; the list head never leaves the table by  *)
(* more than the end marker frame_nums.                                    *)
TypeOK ==
    /\ firstpaddr \in 0 .. RamFrames
    /\ lastpaddr \in 0 .. RamFrames
    /\ frame_table \in 0 .. RamFrames
    /\ frame_nums \in {0, RamFrames}
    /\ is_used \in [Frame -> {0, 1}]
    /\ next_empty_frame_index \in [Frame -> 0 .. RamFrames]
    /\ current_empty_frame_index \in Nat
    /\ status \in {"ok", "panic"}
    /\ blocks \subseteq (Frame \X (1 .. MaxPages))
    /\ ret \in [npages : 0 .. MaxPages, first : 0 .. RamFrames]

(* s is the list that starts at current_empty_frame_index. *)
IsFreeList(s, n) ==
    /\ \A j \in 1 .. n : s[j] \in EmptyFrames
    /\ \A i \in EmptyFrames : \E j \in 1 .. n : s[j] = i
    /\ \A j, k \in 1 .. n : s[j] = s[k] => j = k
    /\ current_empty_frame_index = (IF n = 0 THEN RamFrames ELSE s[1])
    /\ \A j \in 1 .. n : next_empty_frame_index[s[j]] =
                           (IF j = n THEN RamFrames ELSE s[j + 1])

(* The chain alloc_kpages pops and free_kpages pushes runs through every   *)
(* frame whose is_used is 0, once, and ends in the marker frame_nums: no   *)
(* sequence of calls makes it circular, cuts it or puts a used frame on it.*)
FreeListSound ==
    Managed =>
        /\ frame_nums = RamFrames
        /\ \E n \in 0 .. RamFrames : \E s \in [1 .. n -> EmptyFrames] : IsFreeList(s, n)

(* No frame is handed to two callers at once, a frame in a caller's hands  *)
(* is not on the list of empty frames, and neither kind is a frame of the  *)
(* kernel image or of the frame table and the page table themselves.       *)
NoDoubleUse ==
    /\ \A b, c \in blocks : b # c => \A i \in FramesOf(b) : i \notin FramesOf(c)
    /\ \A b \in blocks : \A i \in FramesOf(b) :
         /\ i \in FirstFree .. RamFrames - 1
         /\ frame_table = NULL => i < firstpaddr
         /\ Managed => is_used[i] = 1 /\ i \notin TableFrames
    /\ Managed => \A i \in EmptyFrames : i >= FirstFree /\ i \notin TableFrames

(* The frames alloc_kpages can still hand out. *)
Pool ==
    IF frame_table = NULL THEN firstpaddr .. lastpaddr - 1
    ELSE IF status = "panic" THEN {} ELSE EmptyFrames

Answer ==
    [npages |-> ret.npages,
     frames |-> IF ret.first = NULL THEN {} ELSE FramesOf(<<ret.first, ret.npages>>)]

Abstract == INSTANCE PageAllocator WITH
    Request <- 1 .. MaxPages,
    managed <- frame_table # NULL, pool <- Pool, held <- HeldFrames, answer <- Answer

(* alloc_kpages and free_kpages, a list threaded through an array, behave  *)
(* as a pool of frames: what is handed out was in the pool, a one-page     *)
(* request fails only when the pool is empty, and a page given back is in  *)
(* the pool again.                                                         *)
RefinesPageAllocator == Abstract!ASpec
=============================================================================
