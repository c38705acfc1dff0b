------------------------------ MODULE KMalloc ------------------------------
(***************************************************************************)
(* The kernel heap (kern/vm/kmalloc.c) over the frame allocator, which is  *)
(* the pool of frames that module FrameTable is shown to implement.        *)
(*                                                                         *)
(* A heap page is cut into blocks of one size.  Its pageref is a slot of a *)
(* pageref page: <<whichroot, j>>.  Everything under kmalloc_spinlock is   *)
(* one step; alloc_kpages and free_kpages are called without it, and other *)
(* threads may have changed the heap when it is taken again.               *)
(***************************************************************************)
EXTENDS PageAllocator, Sequences, SequencesExt, FiniteSets, FiniteSetsExt

CONSTANTS
    Thread,
    NULL,
    BlockType,      \* indices of sizes[]
    PerPage(_),     \* PAGE_SIZE / sizes[blktype]
    NRoots,         \* NUM_PAGEREFPAGES
    NRefs,          \* NPAGEREFS_PER_PAGE
    MaxLarge        \* bound on the blocks held that are not the heap's own

Root == 0 .. NRoots - 1
Slot == Root \X (0 .. NRefs - 1)

VARIABLES
    roots,      \* kheaproots: page (NULL or a frame) and the slots in use
    pageref,    \* of each slot: page, blktype, and free, the page's free list
    sizebases,  \* for each type the list of its pagerefs
    allbase,    \* the list of all pagerefs
    ptrs,       \* the blocks in the hands of callers: <<page, block>>
    large,      \* the frames in the hands of callers
    th,         \* of each thread where it is, and its local variables
    assertion   \* "ok", or the assertion that failed

heap == <<roots, pageref, sizebases, allbase, ptrs, large, assertion>>
kvars == <<avars, heap, th>>

NoRef == [page |-> NULL, blktype |-> NULL, free |-> <<>>]
Resting == [pc |-> "idle", blktype |-> NULL, prpage |-> NULL, slot |-> <<>>, va |-> NULL]

KInit ==
    /\ pool = Frame /\ AInit
    /\ roots = [r \in Root |-> [page |-> NULL, inuse |-> {}]]
    /\ pageref = [s \in Slot |-> NoRef]
    /\ sizebases = [b \in BlockType |-> <<>>]
    /\ allbase = <<>>
    /\ ptrs = {}
    /\ large = {}
    /\ th = [t \in Thread |-> Resting]
    /\ assertion = "ok"

Go(t, pc) == th' = [th EXCEPT ![t].pc = pc]
Return(t) == th' = [th EXCEPT ![t] = Resting]

(* Until vm_bootstrap has run, the boot thread is the only one. *)
Booting(t) == ~managed => \A u \in Thread \ {t} : th[u] = Resting
Running(t, pc) == assertion = "ok" /\ th[t].pc = pc /\ Booting(t)

(* doalloc: the first block of the free list of slot s, whose page and     *)
(* list are r, goes to the caller.                                         *)
doalloc(s, r) ==
    /\ pageref' = [pageref EXCEPT ![s] = [r EXCEPT !.free = Tail(@)]]
    /\ ptrs' = ptrs \cup {<<r.page, Head(r.free)>>}

(* subpage_kmalloc: a page of the right size that has a block, or else a   *)
(* new page is needed.                                                     *)
subpage_kmalloc(t, blktype) ==
    LET some == SelectSeq(sizebases[blktype], LAMBDA s : pageref[s].free # <<>>) IN
    /\ Running(t, "idle")
    /\ IF some # <<>>
       THEN doalloc(Head(some), pageref[Head(some)]) /\ UNCHANGED th
       ELSE /\ th' = [th EXCEPT ![t].pc = "page", ![t].blktype = blktype]
            /\ UNCHANGED <<pageref, ptrs>>
    /\ UNCHANGED <<avars, roots, sizebases, allbase, large, assertion>>

(* A call of alloc_kpages(1), with what comes of it. *)
GetPage(t, pc, Then(_)) ==
    /\ Running(t, pc)
    /\ \/ \E p \in pool : AAlloc(1, {p}) /\ Then(p)
       \/ AFail(1) /\ Then(NULL)
    /\ UNCHANGED heap

alloc_prpage(t) ==
    GetPage(t, "page", LAMBDA p :
        IF p = NULL THEN Return(t)
        ELSE th' = [th EXCEPT ![t].pc = "pageref", ![t].prpage = p])

alloc_rootpage(t) ==
    GetPage(t, "rootpage", LAMBDA p : th' = [th EXCEPT ![t].pc = "setroot", ![t].va = p])

(* The page is entered under slot s, with its blocks from the last to the  *)
(* first on its free list, and one of them is handed out.                  *)
NewPage(t, s) ==
    LET b == th[t].blktype IN
    /\ doalloc(s, [page |-> th[t].prpage, blktype |-> b,
                   free |-> [k \in 1 .. PerPage(b) |-> PerPage(b) - k]])
    /\ sizebases' = [sizebases EXCEPT ![b] = <<s>> \o @]
    /\ allbase' = <<s>> \o allbase
    /\ Return(t)

(* allocpageref: the first slot that is not in use.  Its pageref page may  *)
(* have to be allocated first, and the slot is marked before that.         *)
allocpageref(t) ==
    LET open == {r \in Root : Cardinality(roots[r].inuse) < NRefs}
        r == Min(open)
        j == Min((0 .. NRefs - 1) \ roots[r].inuse)
    IN /\ Running(t, "pageref")
       /\ IF open = {}
          THEN /\ Go(t, "giveback")
               /\ UNCHANGED <<roots, pageref, ptrs, sizebases, allbase>>
          ELSE /\ roots' = [roots EXCEPT ![r].inuse = @ \cup {j}]
               /\ IF roots[r].page # NULL
                  THEN NewPage(t, <<r, j>>)
                  ELSE /\ th' = [th EXCEPT ![t].pc = "rootpage", ![t].slot = <<r, j>>]
                       /\ UNCHANGED <<pageref, ptrs, sizebases, allbase>>
       /\ UNCHANGED <<avars, large, assertion>>

(* allocpagerefpage, with the spinlock again.  If there is no page the     *)
(* slot stays marked.                                                      *)
allocpagerefpage(t) ==
    LET s == th[t].slot
        root == roots[s[1]]
        va == th[t].va
    IN /\ Running(t, "setroot")
       /\ CASE va # NULL /\ root.page # NULL ->
                 Go(t, "extra") /\ UNCHANGED <<roots, pageref, ptrs, sizebases, allbase>>
            [] va # NULL /\ root.page = NULL ->
                 roots' = [roots EXCEPT ![s[1]].page = va] /\ NewPage(t, s)
            [] va = NULL /\ root.page # NULL -> UNCHANGED roots /\ NewPage(t, s)
            [] OTHER -> Go(t, "giveback")
                        /\ UNCHANGED <<roots, pageref, ptrs, sizebases, allbase>>
       /\ UNCHANGED <<avars, large, assertion>>

(* Somebody else allocated the pageref page: this one goes back. *)
free_extra(t) ==
    /\ Running(t, "extra")
    /\ AFree({th[t].va})
    /\ th' = [th EXCEPT ![t].pc = "setroot", ![t].va = NULL]
    /\ UNCHANGED heap

(* There is no pageref for the new page, or all of a page is free. *)
free_prpage(t) ==
    /\ th[t].pc \in {"giveback", "freepage"} /\ Running(t, th[t].pc)
    /\ AFree({th[t].prpage})
    /\ Return(t)
    /\ UNCHANGED heap

(* freepageref runs over the roots before the one of slot s. *)
freepageref_asserts(s) ==
    \A r \in Root : r < s[1] /\ roots[r].page = NULL => roots[r].inuse = {}

(* Mutant: a page whose blocks are all free is given back, and its pageref *)
(* stays on the list of its size.                                          *)
subpage_kfree_listed(t, p) ==
    LET s == CHOOSE x \in Range(allbase) : pageref[x].page = p[1]
        b == pageref[s].blktype
        free == <<p[2]>> \o pageref[s].free
    IN /\ Running(t, "idle")
       /\ ptrs' = ptrs \ {p}
       /\ pageref' = [pageref EXCEPT ![s].free = free]
       /\ IF Len(free) < PerPage(b)
          THEN UNCHANGED <<roots, allbase, th>>
          ELSE /\ allbase' = SelectSeq(allbase, LAMBDA x : x # s)
               /\ roots' = [roots EXCEPT ![s[1]].inuse = @ \ {s[2]}]
               /\ th' = [th EXCEPT ![t].pc = "freepage", ![t].prpage = p[1]]
       /\ UNCHANGED <<avars, sizebases, large, assertion>>

(* subpage_kfree: the block goes to the head of its page's free list.  A   *)
(* page with all blocks free leaves both lists and its pageref is freed.   *)
subpage_kfree(t, p) ==
    LET s == SelectSeq(allbase, LAMBDA x : pageref[x].page = p[1])[1]
        b == pageref[s].blktype
        free == <<p[2]>> \o pageref[s].free
        Others(list) == SelectSeq(list, LAMBDA x : x # s)
    IN /\ Running(t, "idle")
       /\ ptrs' = ptrs \ {p}
       /\ IF Len(free) < PerPage(b)
          THEN /\ pageref' = [pageref EXCEPT ![s].free = free]
               /\ UNCHANGED <<roots, sizebases, allbase, th, assertion>>
          ELSE /\ pageref' = [pageref EXCEPT ![s] = NoRef]
               /\ sizebases' = [sizebases EXCEPT ![b] = Others(@)]
               /\ allbase' = Others(allbase)
               /\ roots' = [roots EXCEPT ![s[1]].inuse = @ \ {s[2]}]
               /\ assertion' = IF freepageref_asserts(s) THEN "ok" ELSE "freepageref"
               /\ th' = [th EXCEPT ![t].pc = "freepage", ![t].prpage = p[1]]
       /\ UNCHANGED <<avars, large>>

(* The pages that belong to the heap. *)
HeapPages == {pageref[s].page : s \in Range(allbase)}
RootPages == {roots[r].page : r \in Root} \ {NULL}
Transit == UNION {{th[t].prpage, th[t].va} : t \in Thread} \ {NULL}

(* Until vm_bootstrap has run, the boot thread is busy with its own call.  *)
Elsewhere ==
    /\ assertion = "ok"
    /\ ~managed => \A t \in Thread : th[t] = Resting
    /\ UNCHANGED <<roots, pageref, sizebases, allbase, ptrs, assertion, th>>

vm_bootstrap == Elsewhere /\ AManage({}) /\ UNCHANGED large

(* kmalloc of half a page or more, and the virtual memory system, go to    *)
(* the frame allocator.                                                    *)
kmalloc_large(n) ==
    /\ Elsewhere
    /\ Cardinality(large) < MaxLarge
    /\ \/ AFail(n) /\ UNCHANGED large
       \/ \E S \in SUBSET pool : AAlloc(n, S) /\ large' = large \cup S

(* kfree finds the page on no list. *)
kfree_large(p) == Elsewhere /\ AFree({p}) /\ large' = large \ {p}

KNext ==
    \/ \E t \in Thread :
         \/ \E b \in BlockType : subpage_kmalloc(t, b)
         \/ \E p \in ptrs : subpage_kfree(t, p)
         \/ alloc_prpage(t) \/ allocpageref(t) \/ alloc_rootpage(t) \/ allocpagerefpage(t)
         \/ free_extra(t) \/ free_prpage(t)
    \/ vm_bootstrap
    \/ \E n \in Request : kmalloc_large(n)
    \/ \E p \in large : kfree_large(p)

KSpec == KInit /\ [][KNext]_kvars
-----------------------------------------------------------------------------
(* The two lists that kmalloc and kfree walk have the same pagerefs, each  *)
(* once and under its size, in slots that are in use of pageref pages that *)
(* are there; no two are of one page; and every block in the hands of a    *)
(* caller is found by kfree.                                               *)
ListsAgree ==
    /\ Cardinality(Range(allbase)) = Len(allbase)
    /\ Cardinality(HeapPages) = Len(allbase)
    /\ \A b \in BlockType :
         /\ Range(sizebases[b]) = {s \in Range(allbase) : pageref[s].blktype = b}
         /\ Cardinality(Range(sizebases[b])) = Len(sizebases[b])
    /\ \A s \in Range(allbase) : s[2] \in roots[s[1]].inuse /\ roots[s[1]].page # NULL
    /\ {p[1] : p \in ptrs} \subseteq HeapPages

(* No block is in the hands of two callers or both free and in use, none   *)
(* is lost, and no page with all its blocks free stays: on every heap page *)
(* the free list and the callers have each block once between them.  And   *)
(* the lists that kmalloc and kfree walk agree on what the heap pages are. *)
BlocksExact ==
    /\ ListsAgree
    /\ \A s \in Range(allbase) :
         LET r == pageref[s]
             used == {p[2] : p \in {q \in ptrs : q[1] = r.page}}
         IN /\ Cardinality(Range(r.free)) = Len(r.free)
            /\ Range(r.free) \cap used = {}
            /\ Range(r.free) \cup used = 0 .. PerPage(r.blktype) - 1
            /\ used # {}

(* Each frame that the frame allocator has handed out is a heap page, a    *)
(* pageref page, in the hands of one thread on its way, or a caller's: no  *)
(* page has two uses, none that was given back is still used, and none is  *)
(* lost, however the calls without the spinlock fall.                      *)
PagesExact ==
    LET locals == [t \in Thread |-> {th[t].prpage, th[t].va} \ {NULL}]
        uses == <<HeapPages, RootPages, large>> \o SetToSeq({locals[t] : t \in Thread} \ {{}})
    IN /\ held = UNION Range(uses)
       /\ \A i, j \in DOMAIN uses : i # j => uses[i] \cap uses[j] = {}
       /\ \A t, u \in Thread : t # u => locals[t] \cap locals[u] = {}
       /\ \A q, r \in Root : q # r /\ roots[q].page = roots[r].page => roots[q].page = NULL
=============================================================================
