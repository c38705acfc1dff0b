-------------------------------- MODULE Disk --------------------------------
(***************************************************************************)
(* The disk driver (kern/dev/lamebus/lhd.c) under dev_read and dev_write   *)
(* (kern/vfs/device.c).  Threads share one controller with one buffer and  *)
(* one set of registers; lh_clear lets one of them in for each sector, and *)
(* the interrupt handler hands it the result through lh_result and         *)
(* lh_done.  A write of thread t leaves t in each of its sectors.          *)
(***************************************************************************)
EXTENDS Naturals, FiniteSets

CONSTANTS
    Thread,
    d_blocks,   \* the sectors of the disk
    MaxLen,     \* bound: the most sectors of one call
    MaxCalls,   \* bound: calls of all threads
    NULL

VARIABLES
    lh_clear, lh_done, lh_result, lh_buf,
    stat,       \* the status register: "idle", "working", "ok" or "media"
    sect,       \* the sector register, and what for: set by the last start
    disk,       \* what the sectors hold (external)
    answer,     \* the thread whose operation the disk ended last, and how
    pc, l,      \* l: the variables of lhd_io
    calls

driver == <<lh_clear, lh_done, lh_result, lh_buf>>
device == <<stat, sect, disk, answer>>
vars == <<driver, device, pc, l, calls>>

NoCall == [write |-> FALSE, sector |-> 0, len |-> 0, i |-> 0]

(* config_lhd *)
Init ==
    /\ lh_clear = 1 /\ lh_done = 0 /\ lh_result = "0" /\ lh_buf = NULL
    /\ stat = "idle"
    /\ sect = [who |-> NULL, n |-> 0, write |-> FALSE]
    /\ disk = [n \in 0 .. d_blocks - 1 |-> NULL]
    /\ answer = <<NULL, "0">>
    /\ pc = [t \in Thread |-> "user"]
    /\ l = [t \in Thread |-> NoCall]
    /\ calls = 0

Goto(t, where) == pc' = [pc EXCEPT ![t] = where]
Returns(t) == Goto(t, "user") /\ l' = [l EXCEPT ![t] = NoCall]
Mine(t) == l[t].sector + l[t].i

(* device.c refuses a position at or past the end of the disk.             *)
dev_tryseek(sector) == sector < d_blocks

(* dev_read or dev_write, and the first checks of lhd_io; what is not      *)
(* aligned, or goes past the end, is refused.  A comment there says that   *)
(* the sum can overflow its 32 bits.  That takes a disk of almost 2^32     *)
(* sectors, since dev_tryseek bounds the sector and the length is one of   *)
(* 2^32 bytes at most; disks are smaller here.                             *)
lhd_io(t, write, sector, len) ==
    /\ pc[t] = "user" /\ calls < MaxCalls
    /\ dev_tryseek(sector)
    /\ sector + len <= d_blocks
    /\ Goto(t, "P(lh_clear)")
    /\ l' = [l EXCEPT ![t] = [write |-> write, sector |-> sector, len |-> len, i |-> 0]]
    /\ calls' = calls + 1
    /\ UNCHANGED <<driver, device>>

(* The controller is not waited for. *)
lhd_io_clear_busy(t) ==
    /\ pc[t] = "P(lh_clear)"
    /\ Goto(t, IF l[t].write THEN "uiomove" ELSE "start")
    /\ UNCHANGED <<driver, device, l, calls>>

lhd_io_clear(t) ==
    /\ pc[t] = "P(lh_clear)" /\ lh_clear > 0
    /\ lh_clear' = lh_clear - 1
    /\ Goto(t, IF l[t].write THEN "uiomove" ELSE "start")
    /\ UNCHANGED <<lh_done, lh_result, lh_buf, device, l, calls>>

(* The error return keeps the controller. *)
lhd_io_move_taken(t) ==
    /\ pc[t] = "uiomove"
    /\ \/ lh_buf' = t /\ Goto(t, "start") /\ UNCHANGED l
       \/ Returns(t) /\ UNCHANGED lh_buf
    /\ UNCHANGED <<lh_clear, lh_done, lh_result, device, calls>>

(* The data of a write goes to the buffer of the card, unless the program  *)
(* gave a bad address.                                                     *)
lhd_io_move(t) ==
    /\ pc[t] = "uiomove"
    /\ \/ lh_buf' = t /\ Goto(t, "start") /\ UNCHANGED <<lh_clear, l>>
       \/ lh_clear' = lh_clear + 1 /\ Returns(t) /\ UNCHANGED lh_buf
    /\ UNCHANGED <<lh_done, lh_result, device, calls>>

lhd_io_start(t) ==
    /\ pc[t] = "start"
    /\ sect' = [who |-> t, n |-> Mine(t), write |-> l[t].write]
    /\ stat' = "working"
    /\ Goto(t, "P(lh_done)")
    /\ UNCHANGED <<driver, disk, answer, l, calls>>

lhd_io_done(t) ==
    /\ pc[t] = "P(lh_done)" /\ lh_done > 0
    /\ lh_done' = lh_done - 1
    /\ Goto(t, "result")
    /\ UNCHANGED <<lh_clear, lh_result, lh_buf, device, l, calls>>

(* The result is read, the data of a read copied out, which may fail, and  *)
(* the controller given up; then the next sector, if all went well.        *)
lhd_io_result(t) ==
    /\ pc[t] = "result"
    /\ lh_clear' = lh_clear + 1
    /\ \/ /\ lh_result = "0" /\ l[t].i + 1 < l[t].len
          /\ l' = [l EXCEPT ![t].i = @ + 1]
          /\ Goto(t, "P(lh_clear)")
       \/ /\ lh_result # "0" \/ ~l[t].write \/ l[t].i + 1 = l[t].len
          /\ Returns(t)
    /\ UNCHANGED <<lh_done, lh_result, lh_buf, device, calls>>
-----------------------------------------------------------------------------
(* The disk ends an operation, or fails to (external). *)
disk_ends ==
    /\ stat = "working"
    /\ \/ /\ stat' = "ok"
          /\ disk' = IF sect.write THEN [disk EXCEPT ![sect.n] = lh_buf] ELSE disk
          /\ lh_buf' = IF sect.write THEN lh_buf ELSE disk[sect.n]
          /\ answer' = <<sect.who, "0">>
       \/ /\ stat' = "media" /\ answer' = <<sect.who, "EIO">>
          /\ UNCHANGED <<disk, lh_buf>>
    /\ UNCHANGED <<lh_clear, lh_done, lh_result, sect, pc, l, calls>>

lhd_code_to_errno == IF stat = "ok" THEN "0" ELSE "EIO"

lhd_irq ==
    /\ stat \in {"ok", "media"}
    /\ stat' = "idle"
    /\ lh_result' = lhd_code_to_errno
    /\ lh_done' = lh_done + 1
    /\ UNCHANGED <<lh_clear, lh_buf, sect, disk, answer, pc, l, calls>>

Transfers(t) ==
    \/ lhd_io_clear(t) \/ lhd_io_move(t) \/ lhd_io_start(t)
    \/ lhd_io_done(t) \/ lhd_io_result(t)

Next ==
    \/ \E t \in Thread :
         \/ \E write \in BOOLEAN, sector \in 0 .. d_blocks, len \in 1 .. MaxLen :
              lhd_io(t, write, sector, len)
         \/ Transfers(t)
    \/ disk_ends \/ lhd_irq

(* The disk answers, interrupts are taken, and threads that can run do. *)
Fairness ==
    WF_vars(disk_ends) /\ WF_vars(lhd_irq) /\ \A t \in Thread : WF_vars(Transfers(t))

Spec == Init /\ [][Next]_vars /\ Fairness
-----------------------------------------------------------------------------
(* A thread that has got through P(lh_done) finds in lh_result how its own *)
(* operation ended, and when that is well, in the buffer what its sector   *)
(* holds, which after a write is its own data: no other thread's result,   *)
(* sector or data, whatever fails in between.                              *)
SectorsExact ==
    \A t \in Thread : pc[t] = "result" =>
      /\ answer = <<t, lh_result>>
      /\ lh_result = "0" =>
           /\ lh_buf = disk[Mine(t)]
           /\ l[t].write => disk[Mine(t)] = t

(* Every call of lhd_io returns: no error leaves the controller taken, and *)
(* no completion is lost.                                                  *)
TransfersEnd == \A t \in Thread : []<>(pc[t] = "user")
=============================================================================
