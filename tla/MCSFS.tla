------------------------------- MODULE MCSFS -------------------------------
(***************************************************************************)
(* Two processes and a volume of eight blocks: files of one direct and two *)
(* indirect blocks of two units.  The words written are no block numbers.  *)
(***************************************************************************)
EXTENDS SFSVolume

CONSTANTS p1, p2

MCWrites == {<<0, 1>>, <<2, 4>>}
MCWordOf(p) == IF p = p1 THEN 8 ELSE 9

AllCalls == {sys_open, sys_remove, sys_rename, sys_link} \cup
            {<<k>> : k \in {"lookup", "write", "truncate", "fsync", "decref_file"}}
DataCalls == {sys_open, <<"write">>, <<"truncate">>}
NameCalls == {sys_open, sys_remove, <<"write">>, <<"decref_file">>}

Bound(ps, cs, ls, n, f, c) ==
    [procs |-> ps, calls |-> cs, lengths |-> ls, ncalls |-> n, faults |-> f, crashes |-> c]

MCBounds ==
    {Bound({p1, p2}, AllCalls, {0}, 3, 0, 0),       \* interleaving
     Bound({p1, p2}, AllCalls, {0, 2}, 2, 1, 0),    \* and a disk error
     Bound({p1, p2}, DataCalls, {0}, 5, 0, 1),      \* blocks that change files before a crash
     Bound({p1}, AllCalls, {0, 2}, 4, 0, 1),        \* a crash
     Bound({p1}, AllCalls, {0, 2}, 4, 1, 0),        \* a disk error
     Bound({p1}, AllCalls, {0, 2}, 3, 1, 1),        \* both
     Bound({p1}, AllCalls, {0, 2}, 2, 2, 0),        \* two disk errors
     Bound({p1}, NameCalls, {0}, 3, 0, 2)}          \* a crash while sfsck runs

MCTruncation == {Bound({p1}, DataCalls, {0, 2}, 3, 0, 0)}
=============================================================================
