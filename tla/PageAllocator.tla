--------------------------- MODULE PageAllocator ---------------------------
(***************************************************************************)
(* What the rest of the kernel relies on alloc_kpages and free_kpages for: *)
(* a pool of physical frames from which requests are served.               *)
(***************************************************************************)
EXTENDS Naturals

CONSTANTS
    Frame,    \* the frames of RAM
    Request   \* how many pages a caller may ask for

VARIABLES
    managed,  \* the allocator has taken over the frames from the boot code
    pool,     \* frames that can still be handed out
    held,     \* frames in the hands of a caller of alloc_kpages
    answer    \* the last request and what it got: [npages, frames]

avars == <<managed, pool, held, answer>>

AInit ==
    /\ managed = FALSE
    /\ pool \subseteq Frame
    /\ held = {}
    /\ answer = [npages |-> 0, frames |-> {}]

(* A request is served with frames of the pool. *)
AAlloc(n, S) ==
    /\ S # {}
    /\ S \subseteq pool
    /\ n = 1 => \E i \in S : S = {i}
    /\ pool' = pool \ S
    /\ held' = held \union S
    /\ answer' = [npages |-> n, frames |-> S]
    /\ UNCHANGED managed

(* A request for one page fails only when the pool is empty; a request for *)
(* several may fail at any time.                                           *)
AFail(n) ==
    /\ n = 1 => pool = {}
    /\ answer' = [npages |-> n, frames |-> {}]
    /\ UNCHANGED <<managed, pool, held>>

(* Frames that are given back leave the caller's hands.  A single page     *)
(* comes back to the pool; frames of a longer block may be lost, and so    *)
(* may all that is given back before the allocator manages its frames.     *)
AFree(S) ==
    /\ S # {}
    /\ S \subseteq held
    /\ \E T \in SUBSET S :
         /\ pool' = pool \union T
         /\ managed /\ (\E i \in S : S = {i}) => T = S
    /\ held' = held \ S
    /\ UNCHANGED <<managed, answer>>

(* The allocator takes over, and keeps frames for its own tables. *)
AManage(S) ==
    /\ ~managed
    /\ S \subseteq pool
    /\ managed' = TRUE
    /\ pool' = pool \ S
    /\ UNCHANGED <<held, answer>>

ANext ==
    \/ \E S \in SUBSET Frame :
         AManage(S) \/ AFree(S) \/ \E n \in Request : AAlloc(n, S)
    \/ \E n \in Request : AFail(n)

ASpec == AInit /\ [][ANext]_avars
=============================================================================
