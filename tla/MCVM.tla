-------------------------------- MODULE MCVM --------------------------------
(***************************************************************************)
(* Instances of VM: programs with a read-only segment and a stack, and     *)
(* several page tables.                                                    *)
(***************************************************************************)
EXTENDS VM, TLC

CONSTANTS text, stack, a1, a2

Text == <<[pages |-> {text}, write |-> 0]>>
StackRegion == [pages |-> {stack}, write |-> 1]
Values == 0 .. 1

(* Text and stack of an address space never meet, but the text of one      *)
(* address space shares a bucket with the stack of the other.              *)
Crossed == [a \in AddrSpace |-> [v \in Page |->
              IF (a = a1) = (v = text) THEN 1 ELSE 2]]

(* The pages of an address space share a bucket. *)
Together == [a \in AddrSpace |-> [v \in Page |-> IF a = a1 THEN 1 ELSE 2]]

Symmetry == Permutations(Frame) \union Permutations(Proc) \union Permutations(CPU)
=============================================================================
