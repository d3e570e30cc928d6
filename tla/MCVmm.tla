-------------------------------- MODULE MCVmm --------------------------------
(***************************************************************************)
(* Vmm on a small machine: page tables of 4 pages, a kernel space of five  *)
(* pages in two page tables, a user space of one page in a third.          *)
(***************************************************************************)
EXTENDS Vmm, TLC

MCStart == [s \in Spaces |-> IF s = "user" THEN 1 ELSE 4]
MCPages == [s \in Spaces |-> IF s = "user" THEN 1 ELSE 5]

Frames == Permutations(Frame)
==============================================================================
