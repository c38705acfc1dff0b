---------------------------- MODULE BoundedFifo -----------------------------
(***************************************************************************)
(* What a bounded buffer promises to the threads that use it: an item is   *)
(* put at the end of a queue of limited length, and taken, once, from its  *)
(* beginning.                                                              *)
(***************************************************************************)
EXTENDS Naturals, Sequences

CONSTANTS Sender, Receiver, Capacity, None

VARIABLES
    fifo,   \* the items in the buffer
    sent,   \* the item each sender has in hand
    got     \* the item each receiver took last

fvars == <<fifo, sent, got>>

FInit ==
    /\ fifo = <<>>
    /\ got = [r \in Receiver |-> None]

Put(s) ==
    /\ Len(fifo) < Capacity
    /\ fifo' = Append(fifo, sent[s])
    /\ UNCHANGED <<sent, got>>
Get(r) ==
    /\ fifo # <<>>
    /\ fifo' = Tail(fifo)
    /\ got' = [got EXCEPT ![r] = Head(fifo)]
    /\ UNCHANGED sent
Prepare(s) ==
    /\ \A u \in Sender \ {s} : sent'[u] = sent[u]
    /\ UNCHANGED <<fifo, got>>

FNext ==
    \/ \E s \in Sender : Put(s) \/ Prepare(s)
    \/ \E r \in Receiver : Get(r)

FSpec == FInit /\ [][FNext]_fvars
=============================================================================
