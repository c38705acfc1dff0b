------------------------------- MODULE Maths --------------------------------
(***************************************************************************)
(* asst1/math.c: adder threads that count up to NADDS under a lock, and    *)
(* the command of the kernel menu that starts them, which may be given     *)
(* again.  The lock and the semaphore are the atomic ones of Synch and     *)
(* Semaphore.  Every access to the shared counter is a step.               *)
(***************************************************************************)
EXTENDS Naturals, FiniteSets, FiniteSetsExt

CONSTANTS
    Adder,
    NADDS,
    Commands,   \* bound: how often the command is given
    Unlocked

VARIABLES
    counter, adder_counters,
    lock,           \* the adder that holds it, or Unlocked
    finished,       \* the semaphore
    a, sum,         \* of each adder: the first value read, and the sum to store
    at,             \* where each adder is
    to_wait,        \* how many adders maths still waits for
    commands,       \* commands left
    insane          \* the message "a + 1 == b?" was printed

mvars == <<counter, adder_counters, lock, finished, a, sum, at, to_wait, commands, insane>>

MInit ==
    /\ counter = 0
    /\ adder_counters = [i \in Adder |-> 0]
    /\ lock = Unlocked
    /\ finished = 0
    /\ a = [i \in Adder |-> 0]
    /\ sum = [i \in Adder |-> 0]
    /\ at = [i \in Adder |-> "none"]
    /\ to_wait = 0
    /\ commands = Commands
    /\ insane = 0

Go(i, from, to) == at[i] = from /\ at' = [at EXCEPT ![i] = to]

(* The counters are static data, and maths leaves them as they are. *)
maths ==
    /\ commands > 0 /\ to_wait = 0
    /\ commands' = commands - 1
    /\ at' = [i \in Adder |-> "acquire"]
    /\ to_wait' = Cardinality(Adder)
    /\ UNCHANGED <<counter, adder_counters, lock, finished, a, sum, insane>>

maths_wait ==
    /\ finished > 0 /\ to_wait > 0
    /\ finished' = finished - 1
    /\ to_wait' = to_wait - 1
    /\ UNCHANGED <<counter, adder_counters, lock, a, sum, at, commands, insane>>


adder_acquire(i) ==
    /\ Go(i, "acquire", "read")
    /\ lock = Unlocked
    /\ lock' = i
    /\ UNCHANGED <<counter, adder_counters, finished, a, sum, to_wait, commands, insane>>

adder_read(i) ==
    /\ Go(i, "read", IF counter < NADDS THEN "load" ELSE "quit")
    /\ a' = [a EXCEPT ![i] = counter]
    /\ UNCHANGED <<counter, adder_counters, lock, finished, sum, to_wait, commands, insane>>

(* counter = counter + 1 *)
adder_load(i) ==
    /\ Go(i, "load", "store")
    /\ sum' = [sum EXCEPT ![i] = counter + 1]
    /\ UNCHANGED <<counter, adder_counters, lock, finished, a, to_wait, commands, insane>>

adder_store(i) ==
    /\ Go(i, "store", "check")
    /\ counter' = sum[i]
    /\ UNCHANGED <<adder_counters, lock, finished, a, sum, to_wait, commands, insane>>

adder_check(i) ==
    /\ Go(i, "check", "release")
    /\ adder_counters' = [adder_counters EXCEPT ![i] = @ + 1]
    /\ insane' = IF a[i] + 1 = counter THEN insane ELSE 1
    /\ UNCHANGED <<counter, lock, finished, a, sum, to_wait, commands>>

adder_release(i) ==
    /\ \/ Go(i, "release", "acquire")
       \/ Go(i, "quit", "finish")
    /\ lock' = Unlocked
    /\ UNCHANGED <<counter, adder_counters, finished, a, sum, to_wait, commands, insane>>

adder_finish(i) ==
    /\ Go(i, "finish", "none")
    /\ finished' = finished + 1
    /\ UNCHANGED <<counter, adder_counters, lock, a, sum, to_wait, commands, insane>>

MNext ==
    \/ maths \/ maths_wait
    \/ \E i \in Adder :
         \/ adder_acquire(i) \/ adder_read(i) \/ adder_load(i) \/ adder_store(i)
         \/ adder_check(i) \/ adder_release(i) \/ adder_finish(i)
-----------------------------------------------------------------------------

MDone == commands = 0 /\ to_wait = 0
=============================================================================
