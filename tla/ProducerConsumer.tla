-------------------------- MODULE ProducerConsumer --------------------------
(***************************************************************************)
(* The bounded buffer of asst1/producerconsumer.c with the producers, the  *)
(* consumers and the main thread of producerconsumer_driver.c.  P and V    *)
(* are the atomic operations that module Semaphore is shown to implement.  *)
(* Every other statement that reads or writes the shared buffer is a step  *)
(* of its own.                                                             *)
(***************************************************************************)
EXTENDS Integers, FiniteSets, Sequences

CONSTANTS
    Producer, Consumer, main,   \* the threads
    BUFFER_SIZE, ITEMS_TO_PRODUCE,
    None                        \* what is in memory nothing was stored to

Sender == Producer \cup {main}
Worker == Sender \cup Consumer

(* The data items: a producer sends its number with a countdown.  Stop is  *)
(* the item of two zeros that tells a consumer to exit.                    *)
Stop == <<main, 0>>
Item == Producer \X (1 .. ITEMS_TO_PRODUCE) \cup {Stop}

VARIABLES
    mutex, empty, full,         \* the semaphores of the buffer
    producer_finished, consumer_finished,
    buffer, queue_front, queue_rear,
    thedata,                    \* the item in each thread's hand
    to_go,                      \* how many rounds each thread's loop has left
    pc

sems == <<mutex, empty, full>>
finished == <<producer_finished, consumer_finished>>
shared == <<buffer, queue_front, queue_rear>>
vars == <<sems, finished, shared, thedata, to_go, pc>>

Goto(t, l) == pc' = [pc EXCEPT ![t] = l]

(* A step of t from one place to the next. *)
At(t, l, m) == pc[t] = l /\ Goto(t, m)

Init ==
    /\ mutex = 1 /\ empty = BUFFER_SIZE /\ full = 0
    /\ producer_finished = 0 /\ consumer_finished = 0
    /\ buffer = [i \in 0 .. BUFFER_SIZE - 1 |-> None]
    /\ queue_front = 0 /\ queue_rear = 0
    /\ thedata = [t \in Worker |->
         IF t \in Producer THEN <<t, ITEMS_TO_PRODUCE>>
         ELSE IF t = main THEN Stop ELSE None]
    /\ to_go = [t \in Sender |->
         IF t = main THEN Cardinality(Producer) ELSE ITEMS_TO_PRODUCE]
    /\ pc = [t \in Worker |->
         IF t \in Producer THEN "P_empty"
         ELSE IF t = main THEN "wait_producers" ELSE "P_full"]
-----------------------------------------------------------------------------
(* producer_send and consumer_receive *)

P_empty(t) ==
    /\ At(t, "P_empty", "P_mutex")
    /\ empty > 0
    /\ empty' = empty - 1
    /\ UNCHANGED <<mutex, full, finished, shared, thedata, to_go>>

P_full(t) ==
    /\ At(t, "P_full", "P_mutex")
    /\ full > 0
    /\ full' = full - 1
    /\ UNCHANGED <<mutex, empty, finished, shared, thedata, to_go>>

P_mutex(t) ==
    /\ At(t, "P_mutex", IF t \in Sender THEN "store" ELSE "load")
    /\ mutex > 0
    /\ mutex' = mutex - 1
    /\ UNCHANGED <<empty, full, finished, shared, thedata, to_go>>

store(t) ==
    /\ At(t, "store", "advance")
    /\ buffer' = [buffer EXCEPT ![queue_rear] = thedata[t]]
    /\ UNCHANGED <<sems, finished, queue_front, queue_rear, thedata, to_go>>

(* The item is taken from the wrong end. *)
load_rear(t) ==
    /\ At(t, "load", "advance")
    /\ thedata' = [thedata EXCEPT ![t] = buffer[queue_rear]]
    /\ UNCHANGED <<sems, finished, shared, to_go>>

load(t) ==
    /\ At(t, "load", "advance")
    /\ thedata' = [thedata EXCEPT ![t] = buffer[queue_front]]
    /\ UNCHANGED <<sems, finished, shared, to_go>>

advance(t) ==
    /\ At(t, "advance", "V_mutex")
    /\ IF t \in Sender
         THEN queue_rear' = (queue_rear + 1) % BUFFER_SIZE /\ UNCHANGED queue_front
         ELSE queue_front' = (queue_front + 1) % BUFFER_SIZE /\ UNCHANGED queue_rear
    /\ UNCHANGED <<sems, finished, buffer, thedata, to_go>>

V_mutex(t) ==
    /\ At(t, "V_mutex", IF t \in Sender THEN "V_full" ELSE "V_empty")
    /\ mutex' = mutex + 1
    /\ UNCHANGED <<empty, full, finished, shared, thedata, to_go>>

(* The end of producer_send, and of the round of the loop it is called in. *)
V_full(t) ==
    LET n == to_go[t] - 1 IN
    /\ pc[t] = "V_full"
    /\ full' = full + 1
    /\ IF n > 0
         THEN /\ Goto(t, "P_empty")
              /\ to_go' = [to_go EXCEPT ![t] = n]
              /\ thedata' = IF t = main THEN thedata
                              ELSE [thedata EXCEPT ![t] = <<t, n>>]
         ELSE /\ Goto(t, IF t = main THEN "wait_consumers" ELSE "finish")
              /\ to_go' = [to_go EXCEPT ![t] =
                             IF t = main THEN Cardinality(Consumer) ELSE n]
              /\ UNCHANGED thedata
    /\ UNCHANGED <<mutex, empty, finished, shared>>

V_empty(t) ==
    /\ At(t, "V_empty", IF thedata[t] = Stop THEN "finish" ELSE "P_full")
    /\ empty' = empty + 1
    /\ UNCHANGED <<mutex, full, finished, shared, thedata, to_go>>
-----------------------------------------------------------------------------
(* The driver *)

finish(t) ==
    /\ At(t, "finish", "done")
    /\ IF t \in Producer
         THEN producer_finished' = producer_finished + 1 /\ UNCHANGED consumer_finished
         ELSE consumer_finished' = consumer_finished + 1 /\ UNCHANGED producer_finished
    /\ UNCHANGED <<sems, shared, thedata, to_go>>

wait_for_producer_threads ==
    LET n == to_go[main] - 1 IN
    /\ pc[main] = "wait_producers"
    /\ producer_finished > 0
    /\ producer_finished' = producer_finished - 1
    /\ Goto(main, IF n > 0 THEN "wait_producers" ELSE "P_empty")
    /\ to_go' = [to_go EXCEPT ![main] = IF n > 0 THEN n ELSE Cardinality(Consumer)]
    /\ UNCHANGED <<sems, consumer_finished, shared, thedata>>

(* The end of stop_consumer_threads; after the last round the semaphores   *)
(* are destroyed.                                                          *)
stop_consumer_threads ==
    LET n == to_go[main] - 1 IN
    /\ pc[main] = "wait_consumers"
    /\ consumer_finished > 0
    /\ consumer_finished' = consumer_finished - 1
    /\ Goto(main, IF n > 0 THEN "wait_consumers" ELSE "done")
    /\ to_go' = [to_go EXCEPT ![main] = n]
    /\ UNCHANGED <<sems, producer_finished, shared, thedata>>

Step(t) ==
    \/ P_empty(t) \/ P_full(t) \/ P_mutex(t) \/ store(t) \/ load(t) \/ advance(t)
    \/ V_mutex(t) \/ V_full(t) \/ V_empty(t) \/ finish(t)
    \/ t = main /\ (wait_for_producer_threads \/ stop_consumer_threads)

Next == \E t \in Worker : Step(t)

Spec == Init /\ [][Next]_vars

-----------------------------------------------------------------------------
Inside(T, places) == Cardinality({t \in T : pc[t] \in places})

(* The buffer's contents: the items stored and not yet loaded, in order.   *)
(* full does not count the ones whose producer is on its way to V(full),   *)
(* nor those claimed by consumers that have not loaded them.               *)
Contents ==
    LET n == full + Inside(Sender, {"advance", "V_mutex", "V_full"})
                  + Inside(Consumer, {"P_mutex", "load"})
        first == queue_front + Inside(Consumer, {"advance"})
    IN [i \in 1 .. n |-> buffer[(first + i - 1) % BUFFER_SIZE]]

Fifo == INSTANCE BoundedFifo
    WITH Receiver <- Consumer, Capacity <- BUFFER_SIZE, fifo <- Contents,
         sent <- [s \in Sender |-> thedata[s]],
         got <- [c \in Consumer |-> thedata[c]]

(* The buffer is a queue: items are received once each, in the order in    *)
(* which they were stored, and never more than BUFFER_SIZE are inside.     *)
RefinesFifo == Fifo!FSpec

(* When the driver destroys the semaphores nobody uses them any more and   *)
(* nothing is left in the buffer: every consumer got one Stop, behind all  *)
(* the items of the producers.                                             *)
ShutdownClean ==
    pc[main] = "done" => Contents = <<>> /\ \A t \in Worker : pc[t] = "done"
=============================================================================
