---------------------------- MODULE KernelMemory ----------------------------
(***************************************************************************)
(* The two allocators of the kernel, each from boot on: the frame table    *)
(* under callers of any kind, and the heap over the pool of frames that    *)
(* the frame table is shown to be.                                         *)
(***************************************************************************)
EXTENDS FrameTable, TLC

CONSTANTS Thread, HeapFrame, None, BlockType, PerPage(_), NRoots, NRefs, MaxLarge

VARIABLES
    allocator,      \* the one that is looked at
    managed, pool, held, answer,
    roots, pageref, sizebases, allbase, ptrs, large, th, assertion

Heap == INSTANCE KMalloc WITH Frame <- HeapFrame, Request <- {1}, NULL <- None

heapvars == <<managed, pool, held, answer,
              roots, pageref, sizebases, allbase, ptrs, large, th, assertion>>

Boot ==
    /\ allocator \in {"frames", "heap"}
    /\ Init /\ Heap!KInit

MemoryNext ==
    /\ \/ allocator = "frames" /\ Next /\ UNCHANGED heapvars
       \/ allocator = "heap" /\ Heap!KNext /\ UNCHANGED vars
    /\ UNCHANGED allocator

MemorySpec == Boot /\ [][MemoryNext]_<<allocator, vars, heapvars>>

(* Two blocks to a page; threads and heap pages are interchangeable. *)
TwoPerPage(b) == 2
Symm == Permutations(Thread) \cup Permutations(HeapFrame)
-----------------------------------------------------------------------------
(* No block of the heap is in the hands of two callers or both free and in *)
(* use, none is lost, no page with all its blocks free stays, and the two  *)
(* lists that kmalloc and kfree walk have the same pages.  Each frame that *)
(* the heap has taken from alloc_kpages has one use, and none is lost,     *)
(* however the calls that subpage_kmalloc and allocpagerefpage make        *)
(* without kmalloc_spinlock fall.                                          *)
HeapExact == Heap!BlocksExact /\ Heap!PagesExact
=============================================================================
