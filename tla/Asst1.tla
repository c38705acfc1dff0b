------------------------------- MODULE Asst1 --------------------------------
(***************************************************************************)
(* What a command of the kernel menu runs: the tests of assignment 1 (the  *)
(* adders, the two locks, the bounded buffer, the bar), or threads that    *)
(* use a semaphore, a lock and a condition variable in any way they can.   *)
(***************************************************************************)
EXTENDS SynchObjects, Maths, TwoLocks

CONSTANTS Producer, Consumer, main, BUFFER_SIZE, ITEMS_TO_PRODUCE
CONSTANTS Customer, Bartender, ROUNDS, NBOTTLES, Drinks, Uninitialised, home, None

(* Beer, tequila and gin, as in bar_driver.c, and a drink of two bottles. *)
DriverDrinks == {<<1, 5, 4>>, <<0, 4, 5>>}

VARIABLES
    test,       \* the command
    mutex, b_empty, b_full, producer_finished, consumer_finished,
    buffer, b_front, b_rear, thedata, to_go, b_pc,
    empty, full, queue_bar_order, queue_front, queue_rear, bottle_mutexs, asked,
    requested_bottles, glass, order_done, is_semaphore_init, customers, alldone,
    left, bar_pc, k, order, bar_status

Buffer == INSTANCE ProducerConsumer
    WITH empty <- b_empty, full <- b_full, queue_front <- b_front,
         queue_rear <- b_rear, pc <- b_pc
Bar == INSTANCE Bar WITH pc <- bar_pc, status <- bar_status

bvars == <<mutex, b_empty, b_full, producer_finished, consumer_finished,
           buffer, b_front, b_rear, thedata, to_go, b_pc>>
barvars == <<empty, full, queue_bar_order, queue_front, queue_rear, bottle_mutexs, asked,
             requested_bottles, glass, order_done, is_semaphore_init, customers, alldone,
             left, bar_pc, k, order, bar_status>>
others == <<mvars, tvars, bvars, barvars>>
all == <<test, allvars, others>>

(* What the others would start from stays at one value. *)
cmd_dispatch ==
    /\ test \in {"synch", "maths", "twolocks", "producerconsumer", "bar"}
    /\ Init /\ LInit /\ MInit /\ TInit /\ Buffer!Init /\ Bar!Init
    /\ test # "bar" => \A c \in Customer : is_semaphore_init[c] = 0

Asst1Next ==
    /\ \/ test = "synch" /\ ObjectsNext /\ UNCHANGED others
       \/ test = "maths" /\ MNext /\ UNCHANGED <<allvars, tvars, bvars, barvars>>
       \/ test = "twolocks" /\ TNext /\ UNCHANGED <<allvars, mvars, bvars, barvars>>
       \/ test = "producerconsumer" /\ Buffer!Next /\ UNCHANGED <<allvars, mvars, tvars, barvars>>
       \/ test = "bar" /\ Bar!Next /\ UNCHANGED <<allvars, mvars, tvars, bvars>>
    /\ UNCHANGED test

(* While some thread can run, one does.  A thread in P that is not asleep  *)
(* gets the spinlock; otherwise no thread is promised its turn.            *)
Asst1Spec ==
    /\ cmd_dispatch
    /\ [][Asst1Next]_all
    /\ WF_all(Asst1Next)
    /\ \A t \in Thread : WF_all(test = "synch" /\ P(t) /\ UNCHANGED <<lvars, others, test>>)
-----------------------------------------------------------------------------
(* The bounded buffer is a queue (producer_send and consumer_receive):     *)
(* items are received once each, in the order in which they were stored.   *)
RefinesFifo == Buffer!RefinesFifo

(* The order of a customer (order_drink, take_order, serve_order) is in    *)
(* one place at a time, and comes back with what was asked for.            *)
OrderInOnePlace == Bar!OrderInOnePlace

(* mix has the bottles it needs to itself. *)
BottlesExclusive == Bar!BottlesExclusive

(* No bartenders wait in fill_order for bottles they hold among themselves.*)
NoBottleDeadlock == Bar!NoBottleDeadlock

(* Every test ends and gives the menu back: nobody waits for ever for a    *)
(* lock, a bottle, a slot or an item, unless memory is misread in the bar. *)
(* When the driver of the buffer destroys its semaphores nobody uses them  *)
(* any more, and the buffer is empty.                                      *)
EveryTestEnds ==
    /\ []Buffer!ShutdownClean
    /\ <>( CASE test = "maths" -> MDone
             [] test = "twolocks" -> TDone
             [] test = "producerconsumer" -> b_pc[main] = "done"
             [] test = "bar" -> left = 0 \/ bar_status # "ok"
             [] test = "synch" -> TRUE )
=============================================================================
