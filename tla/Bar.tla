-------------------------------- MODULE Bar ---------------------------------
(***************************************************************************)
(* The bar of asst1: customers and bartenders (bar_driver.c) and the order *)
(* queue, the bottles and the orders of bar.c.  P and V are the atomic     *)
(* operations that module Semaphore is shown to implement.  What a thread  *)
(* does to the queue between P(queue_mutex) and V(queue_mutex), and to the *)
(* count of customers under cust_lock, is one step.                        *)
(***************************************************************************)
EXTENDS Integers, FiniteSets, Sequences

CONSTANTS
    Customer, Bartender,   \* the threads
    ROUNDS,                \* how many drinks a customer has
    NBOTTLES,
    Drinks,                \* what a customer may order: sequences of
                           \* DRINK_COMPLEXITY bottle numbers, 0 for none
    Uninitialised,         \* what is_semaphore_init may hold in a new order
    home,                  \* the order of the last customer to leave
    None

Patron == Customer \cup Bartender
NBARTENDERS == Cardinality(Bartender)
QUEUE_SIZE == NBARTENDERS
DRINK_COMPLEXITY == 3
Bottle == 1 .. NBOTTLES

(* order_done points nowhere *)
Uncreated == -1

VARIABLES
    empty, full,                          \* the semaphores of the queue
    queue_bar_order, queue_front, queue_rear,
    bottle_mutexs,                        \* one for each bottle
    asked, requested_bottles, glass,      \* the order of each customer: as
    order_done, is_semaphore_init,        \* made, as sorted, as mixed
    customers, alldone,
    left,                                 \* how often run_bar still waits
    pc, k,                                \* k: a loop counter
    order,                                \* the one each bartender has taken
    status

queue == <<empty, full, queue_bar_order, queue_front, queue_rear>>
orders == <<asked, requested_bottles, glass, order_done, is_semaphore_init>>
driver == <<customers, alldone, left>>
vars == <<queue, orders, driver, bottle_mutexs, order, pc, k, status>>

Goto(t, l) == pc' = [pc EXCEPT ![t] = l]
At(t, l) == status = "ok" /\ pc[t] = l

(* bar_open, and run_bar up to where everybody has been started. *)
Init ==
    /\ empty = QUEUE_SIZE /\ full = 0
    /\ queue_bar_order = [i \in 0 .. QUEUE_SIZE - 1 |-> None]
    /\ queue_front = 0 /\ queue_rear = 0
    /\ bottle_mutexs = [b \in Bottle |-> 1]
    /\ asked = [c \in Customer |-> <<>>]
    /\ requested_bottles = [c \in Customer |-> <<>>]
    /\ glass = [c \in Customer |-> <<>>]
    /\ order_done = [c \in Customer |-> Uncreated]
    /\ is_semaphore_init \in [Customer -> Uninitialised]
    /\ customers = Cardinality(Customer)
    /\ alldone = 0
    /\ left = Cardinality(Patron)
    /\ pc = [t \in Patron |-> IF t \in Customer THEN "choose" ELSE "P_full"]
    /\ k = [t \in Patron |-> IF t \in Customer THEN ROUNDS ELSE 1]
    /\ order = [s \in Bartender |-> None]
    /\ status = "ok"

(* Nothing is sorted. *)
sort_order_requested_bottles_not(d) == d

(* sort_order_requested_bottles, for DRINK_COMPLEXITY 3: the loop over j   *)
(* stops at 1, so the second and third are put in order and the first      *)
(* stays where it is.                                                      *)
sort_order_requested_bottles(d) ==
    IF d[3] < d[2] THEN <<d[1], d[3], d[2]>> ELSE d
-----------------------------------------------------------------------------
(* A customer orders.  The semaphore of the order is created unless        *)
(* is_semaphore_init is set; in the first round it has not been set.       *)
choose(c) ==
    /\ At(c, "choose")
    /\ \E d \in Drinks :
         /\ asked' = [asked EXCEPT ![c] = d]
         /\ requested_bottles' = [requested_bottles EXCEPT ![c] = d]
    /\ order_done' = IF is_semaphore_init[c] = 1 THEN order_done
                       ELSE [order_done EXCEPT ![c] = 0]
    /\ is_semaphore_init' = [is_semaphore_init EXCEPT ![c] = 1]
    /\ Goto(c, "P_empty")
    /\ UNCHANGED <<queue, glass, bottle_mutexs, order, driver, k, status>>

P_empty(c) ==
    /\ At(c, "P_empty")
    /\ empty > 0
    /\ empty' = empty - 1
    /\ Goto(c, "enqueue")
    /\ UNCHANGED <<full, queue_bar_order, queue_front, queue_rear, orders, bottle_mutexs,
                   order, driver, k, status>>

Leaving(c) == k[c] <= 0

enqueue(c) ==
    /\ At(c, "enqueue")
    /\ queue_bar_order' =
         [queue_bar_order EXCEPT ![queue_rear] = IF Leaving(c) THEN home ELSE c]
    /\ queue_rear' = (queue_rear + 1) % QUEUE_SIZE
    /\ Goto(c, "V_full")
    /\ UNCHANGED <<empty, full, queue_front, orders, bottle_mutexs, order, driver,
                   k, status>>

(* The go-home orders, of which k counts down from 0, are not waited for. *)
V_full(c) ==
    /\ At(c, "V_full")
    /\ full' = full + 1
    /\ IF ~Leaving(c) THEN Goto(c, "P_done") /\ UNCHANGED k
         ELSE /\ k' = [k EXCEPT ![c] = @ - 1]
              /\ Goto(c, IF k[c] - 1 = - NBARTENDERS THEN "finish" ELSE "P_empty")
    /\ UNCHANGED <<empty, queue_bar_order, queue_front, queue_rear, orders, bottle_mutexs,
                   order, driver, status>>

(* The customer waits for the drink. *)
P_done(c) ==
    /\ At(c, "P_done")
    /\ \/ /\ order_done[c] = Uncreated
          /\ status' = "wild"
          /\ UNCHANGED <<order_done, pc>>
       \/ /\ order_done[c] > 0
          /\ order_done' = [order_done EXCEPT ![c] = @ - 1]
          /\ Goto(c, "drink")
          /\ UNCHANGED status
    /\ UNCHANGED <<queue, asked, requested_bottles, glass, is_semaphore_init,
                   bottle_mutexs, order, driver, k>>

(* Then comes the next drink, or go_home. *)
drink(c) ==
    /\ At(c, "drink")
    /\ glass' = [glass EXCEPT ![c] = <<>>]
    /\ k' = [k EXCEPT ![c] = @ - 1]
    /\ Goto(c, IF k[c] > 1 THEN "choose" ELSE "go_home")
    /\ UNCHANGED <<queue, asked, requested_bottles, order_done, is_semaphore_init,
                   bottle_mutexs, order, driver, status>>

go_home(c) ==
    /\ At(c, "go_home")
    /\ customers' = customers - 1
    /\ Goto(c, IF customers = 1 THEN "P_empty" ELSE "finish")
    /\ UNCHANGED <<queue, orders, bottle_mutexs, order, alldone, left, k, status>>

(* V(alldone) *)
finish(t) ==
    /\ At(t, "finish")
    /\ alldone' = alldone + 1
    /\ Goto(t, "done")
    /\ UNCHANGED <<queue, orders, bottle_mutexs, order, customers, left, k, status>>

(* run_bar waits once for each thread, and then closes the bar. *)
run_bar ==
    /\ status = "ok"
    /\ left > 0
    /\ alldone > 0
    /\ left' = left - 1
    /\ alldone' = alldone - 1
    /\ UNCHANGED <<queue, orders, bottle_mutexs, order, customers, pc, k, status>>
-----------------------------------------------------------------------------
(* take_order *)

P_full(s) ==
    /\ At(s, "P_full")
    /\ full > 0
    /\ full' = full - 1
    /\ Goto(s, "dequeue")
    /\ UNCHANGED <<empty, queue_bar_order, queue_front, queue_rear, orders, bottle_mutexs,
                   order, driver, k, status>>

(* The order is left in the queue. *)
dequeue_late(s) ==
    /\ At(s, "dequeue")
    /\ order' = [order EXCEPT ![s] = queue_bar_order[queue_front]]
    /\ UNCHANGED queue_front
    /\ Goto(s, "V_empty")
    /\ UNCHANGED <<empty, full, queue_bar_order, queue_rear, orders, bottle_mutexs, driver,
                   k, status>>

dequeue(s) ==
    /\ At(s, "dequeue")
    /\ order' = [order EXCEPT ![s] = queue_bar_order[queue_front]]
    /\ queue_front' = (queue_front + 1) % QUEUE_SIZE
    /\ Goto(s, "V_empty")
    /\ UNCHANGED <<empty, full, queue_bar_order, queue_rear, orders, bottle_mutexs, driver,
                   k, status>>

V_empty(s) ==
    /\ At(s, "V_empty")
    /\ empty' = empty + 1
    /\ Goto(s, "flag")
    /\ UNCHANGED <<full, queue_bar_order, queue_front, queue_rear, orders, bottle_mutexs,
                   order, driver, k, status>>

(* The customer that sends the staff home is still in go_home, where the   *)
(* go-home order lives.                                                    *)
HomeLives == \E c \in Customer : Leaving(c) /\ pc[c] \in {"P_empty", "enqueue", "V_full"}

(* The go-home flag is read; in an order that no longer exists it may read *)
(* as anything.  fill_order begins with the sort.                          *)
flag(s) ==
    LET o == order[s] IN
    /\ At(s, "flag")
    /\ IF o = home
         THEN /\ status' \in IF HomeLives THEN {"ok"} ELSE {"ok", "dangling"}
              /\ Goto(s, "finish")
              /\ UNCHANGED <<requested_bottles, k>>
         ELSE /\ requested_bottles' = [requested_bottles EXCEPT ![o] =
                                         sort_order_requested_bottles(@)]
              /\ k' = [k EXCEPT ![s] = 1]
              /\ Goto(s, "P_bottle")
              /\ UNCHANGED status
    /\ UNCHANGED <<queue, asked, glass, order_done, is_semaphore_init,
                   bottle_mutexs, order, driver>>

(* The k-th bottle of the order bartender s is filling. *)
Now(s) == requested_bottles[order[s]][k[s]]

(* The loops of fill_order: after the last bottle, l. *)
NextBottle(s, l) ==
    IF k[s] = DRINK_COMPLEXITY THEN k' = [k EXCEPT ![s] = 1] /\ Goto(s, l)
    ELSE k' = [k EXCEPT ![s] = @ + 1] /\ UNCHANGED pc

(* A bottle in use is not waited for. *)
P_bottle_busy(s) ==
    LET b == Now(s) IN
    /\ At(s, "P_bottle")
    /\ bottle_mutexs' = IF b = 0 THEN bottle_mutexs
                          ELSE [bottle_mutexs EXCEPT ![b] = 0]
    /\ NextBottle(s, "mix")
    /\ UNCHANGED <<queue, orders, order, driver, status>>

P_bottle(s) ==
    LET b == Now(s) IN
    /\ At(s, "P_bottle")
    /\ IF b = 0 THEN UNCHANGED bottle_mutexs
         ELSE /\ bottle_mutexs[b] > 0
              /\ bottle_mutexs' = [bottle_mutexs EXCEPT ![b] = @ - 1]
    /\ NextBottle(s, "mix")
    /\ UNCHANGED <<queue, orders, order, driver, status>>

(* The bottles' dose counts go up, and the glass is filled.  This happens  *)
(* while no other bartender is at the same bottles (BottlesExclusive).     *)
mix(s) ==
    /\ At(s, "mix")
    /\ glass' = [glass EXCEPT ![order[s]] = requested_bottles[order[s]]]
    /\ Goto(s, "V_bottle")
    /\ UNCHANGED <<queue, asked, requested_bottles, order_done, is_semaphore_init,
                   driver, bottle_mutexs, order, k, status>>

(* The bottles are put back, the last one first. *)
V_bottle(s) ==
    LET b == requested_bottles[order[s]][DRINK_COMPLEXITY + 1 - k[s]] IN
    /\ At(s, "V_bottle")
    /\ bottle_mutexs' = IF b = 0 THEN bottle_mutexs
                          ELSE [bottle_mutexs EXCEPT ![b] = @ + 1]
    /\ NextBottle(s, "serve")
    /\ UNCHANGED <<queue, orders, order, driver, status>>

serve_order(s) ==
    LET c == order[s] IN
    /\ At(s, "serve")
    /\ IF order_done[c] = Uncreated
         THEN status' = "wild" /\ UNCHANGED <<order_done, pc>>
         ELSE /\ order_done' = [order_done EXCEPT ![c] = @ + 1]
              /\ Goto(s, "P_full")
              /\ UNCHANGED status
    /\ UNCHANGED <<queue, asked, requested_bottles, glass, is_semaphore_init,
                   bottle_mutexs, order, driver, k>>

CustomerStep(c) ==
    \/ choose(c) \/ P_empty(c) \/ enqueue(c) \/ V_full(c) \/ P_done(c) \/ drink(c)
    \/ go_home(c) \/ finish(c)
BartenderStep(s) ==
    \/ P_full(s) \/ dequeue(s) \/ V_empty(s) \/ flag(s) \/ P_bottle(s) \/ mix(s)
    \/ V_bottle(s) \/ serve_order(s) \/ finish(s)

Next ==
    \/ \E c \in Customer : CustomerStep(c)
    \/ \E s \in Bartender : BartenderStep(s)
    \/ run_bar

Spec == Init /\ [][Next]_vars

-----------------------------------------------------------------------------
Inside(T, places) == Cardinality({t \in T : pc[t] \in places})

(* How many slots of the queue hold order o. *)
Queued(o) ==
    LET n == full + Inside(Customer, {"V_full"}) + Inside(Bartender, {"dequeue"})
    IN Cardinality({i \in 0 .. n - 1 :
         queue_bar_order[(queue_front + i) % QUEUE_SIZE] = o})

Served(c) == IF order_done[c] = 1 THEN 1 ELSE 0

Taken(o) == Cardinality({s \in Bartender :
    /\ order[s] = o
    /\ pc[s] \in {"V_empty", "flag", "P_bottle", "mix", "V_bottle", "serve"}})

Times(b, d) == Cardinality({i \in 1 .. Len(d) : d[i] = b})

(* The order of a customer is in one place: in the queue, with one         *)
(* bartender, or served; and it is nowhere while the customer is not       *)
(* waiting for it and is free to write to it.  The glass that comes back   *)
(* has what was asked for in this round, bottle by bottle, although        *)
(* fill_order rearranged the order on the way.                             *)
OrderInOnePlace ==
    \A c \in Customer :
      /\ Queued(c) + Taken(c) + Served(c) =
           IF ~Leaving(c) /\ pc[c] \in {"V_full", "P_done"} THEN 1 ELSE 0
      /\ pc[c] = "drink" =>
           \A b \in 0 .. NBOTTLES : Times(b, glass[c]) = Times(b, asked[c])

(* mix has the bottles it needs to itself. *)
BottlesExclusive ==
    \A s, u \in Bartender : s # u /\ pc[s] = "mix" /\ pc[u] = "mix" =>
      \A i, j \in 1 .. DRINK_COMPLEXITY :
        requested_bottles[order[s]][i] = requested_bottles[order[u]][j]
          => requested_bottles[order[s]][i] = 0

(* Bartender s has taken bottle b in fill_order. *)
Holds(s, b) ==
    /\ pc[s] = "P_bottle"
    /\ \E i \in 1 .. k[s] - 1 : requested_bottles[order[s]][i] = b

(* No bartenders wait for bottles that they hold among themselves.  The    *)
(* sort is there to prevent this.                                          *)
NoBottleDeadlock ==
    \A S \in SUBSET Bartender : S # {} =>
      \E s \in S : ~(pc[s] = "P_bottle" /\ Now(s) # 0 /\ \E u \in S : Holds(u, Now(s)))
=============================================================================
