--------------------------- MODULE KernelThreads ----------------------------
(* The threads that use what kern/thread/synch.c offers. *)
CONSTANT Thread
=============================================================================
