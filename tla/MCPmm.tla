-------------------------------- MODULE MCPmm --------------------------------
(***************************************************************************)
(* Pmm on small machines: pages of 2 bytes, 12 pages of address space, the *)
(* first two of them mapped at boot.  Each map exercises one thing the     *)
(* scan of pmm_init does.                                                  *)
(***************************************************************************)
EXTENDS Pmm

Ram(a, l) == [addr_low |-> a, len_low |-> l, type |-> 1]
Reserved(a, l) == [addr_low |-> a, len_low |-> l, type |-> 2]

MCMaps == {
  \* low memory, then one region: pages 2..6
  <<Ram(0, 4), Ram(4, 10)>>,
  \* unaligned ends around a reserved hole: pages 3..4 and 7..9
  <<Ram(5, 5), Reserved(10, 2), Ram(13, 7)>>,
  \* two adjacent regions, the higher one first: pages 5..6 and 2..4
  <<Ram(10, 4), Ram(4, 6)>>,
  \* pages 2..3; a region that ends at the top of the address space is lost,
  \* and so is one whose start cannot be rounded up
  <<Ram(3, 5), Ram(16, 7 + 1), Ram(23, 1)>>,
  \* RAM only below FirstPage: nothing to manage
  <<Ram(0, 4)>> }
==============================================================================
