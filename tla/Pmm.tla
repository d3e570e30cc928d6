--------------------------------- MODULE Pmm ---------------------------------
(***************************************************************************)
(* The physical memory manager (kernel/arch/i386/pmm.c): a stack-like      *)
(* table of free blocks, filled from the Multiboot2 memory map, from which *)
(* alloc_page takes the highest page of the last block and to which        *)
(* free_page gives pages back one at a time; coalesce merges adjacent      *)
(* blocks among the entries it has not examined yet.                       *)
(*                                                                         *)
(* Addresses in the table are page numbers (addr / 4096): every address    *)
(* the table ever holds is page aligned.  Memory map entries are in bytes. *)
(* Table indices replace the pointers: i stands for &free_blocks[i].       *)
(***************************************************************************)
EXTENDS Integers, Sequences, FiniteSets

CONSTANTS
  MemoryMaps,    \* the maps a boot loader may pass: sequences of entries
  PageSize,      \* bytes of a page: 4096
  AddressSpace,  \* 2^32: addr_low, len_low and their sum keep 32 bits
  FirstPage      \* first page not mapped by the boot page tables: 4 MiB

Entry == [addr_low : 0..(AddressSpace - 1), len_low : 0..(AddressSpace - 1),
          type : Nat]

NULL == 0       \* a null page address; page 0 is below FirstPage
NoPtr == -1     \* the null coalesce_ptr before pmm_init
Frame == {p \in Nat : p >= FirstPage}
Block == [addr : Frame, len : Nat \ {0}]

------------------------------------------------------------------------------
(* What pmm_init makes of one entry of the memory map.                     *)

\* Mutant: a region starts at the page its first byte is in.
RoundedDown(e) ==
  LET aligned == e.addr_low \div PageSize
  IN  IF aligned < FirstPage THEN FirstPage ELSE aligned

\* Round up to a page; pages below FirstPage are already mapped.
RegionStart(e) ==
  LET aligned == (e.addr_low + PageSize - 1) \div PageSize
  IN  IF aligned < FirstPage THEN FirstPage ELSE aligned

\* Both operands are uint32_t: the sum wraps before it is widened, so the
\* clipping to 2^32 that follows in the code never happens.
RegionEnd(e) == (e.addr_low + e.len_low) % AddressSpace

RegionPages(e) ==
  IF RegionEnd(e) > RegionStart(e) * PageSize
  THEN (RegionEnd(e) - RegionStart(e) * PageSize) \div PageSize
  ELSE 0

\* Available RAM whose start can be rounded up without wrapping, and with a
\* whole page above FirstPage.
Usable(e) == /\ e.type = 1
             /\ e.addr_low <= AddressSpace - PageSize
             /\ RegionPages(e) > 0

Region(e) == IF Usable(e)
             THEN RegionStart(e) .. (RegionStart(e) + RegionPages(e) - 1)
             ELSE {}

ASSUME PmmAssumption ==
  /\ PageSize \in Nat \ {0} /\ AddressSpace \in Nat \ {0}
  /\ FirstPage \in Nat \ {0}
  /\ \A map \in MemoryMaps : map \in Seq(Entry)

\* The code relies on the firmware: the low words of two entries never
\* describe the same page (RAM above 4 GiB, whose high words the code drops,
\* would break this).
ASSUME MapAssumption ==
  \A map \in MemoryMaps : \A i, j \in 1..Len(map) :
    i # j => Region(map[i]) \cap Region(map[j]) = {}

------------------------------------------------------------------------------
VARIABLES
  memory_map,    \* the map of this boot
  entry,         \* the next entry pmm_init looks at
  free_blocks,   \* the table: entries 0..last_freed
  last_freed,    \* index of the last entry, -1 when the table is empty
  coalesce_ptr,  \* entries below it have been examined by coalesce
  pc,            \* "init", "ready", or "coalesce" inside coalesce()
  block,         \* the argument of the innermost coalesce_loop
  depth,         \* how many calls of coalesce_loop wait for it
  owned,         \* history: pages allocated and not freed
  ret            \* result of the last alloc_page

table == <<free_blocks, last_freed>>
scan == <<coalesce_ptr, pc, block, depth>>
vars == <<memory_map, entry, table, scan, owned, ret>>

BlockEnd(b) == b.addr + b.len
PagesOf(b) == b.addr .. (BlockEnd(b) - 1)
FreePages == UNION {PagesOf(free_blocks[i]) : i \in 0..last_freed}

\* The pages of the entries scanned so far.
Managed == UNION {Region(memory_map[i]) : i \in 1..(entry - 1)}

Init == /\ memory_map \in MemoryMaps
        /\ entry = 1
        /\ free_blocks = [i \in {} |-> 0] /\ last_freed = -1
        /\ coalesce_ptr = NoPtr
        /\ pc = "init" /\ block = 0 /\ depth = 0
        /\ owned = {} /\ ret = NULL

------------------------------------------------------------------------------
(* The table as the code changes it.                                       *)

Push(b) ==
  /\ last_freed' = last_freed + 1
  /\ free_blocks' = [i \in 0..(last_freed + 1) |->
                       IF i = last_freed + 1 THEN b ELSE free_blocks[i]]

Resize(n) == /\ free_blocks' = [free_blocks EXCEPT ![last_freed].len = n]
             /\ UNCHANGED last_freed

\* Mutant: an entry whose last page is taken stays in the table.
KeepEmpty == Resize(0)

Pop == /\ last_freed' = last_freed - 1
       /\ free_blocks' = [i \in 0..(last_freed - 1) |-> free_blocks[i]]

\* memmove(block, block + 1, ...) after entry into has become b.
Absorb(into, b, gone) ==
  /\ last_freed' = last_freed - 1
  /\ free_blocks' = [i \in 0..(last_freed - 1) |->
                       LET j == IF i < gone THEN i ELSE i + 1
                       IN  IF j = into THEN b ELSE free_blocks[j]]

------------------------------------------------------------------------------
(* pmm_init                                                                *)

ScanEntry ==
  /\ pc = "init" /\ entry <= Len(memory_map)
  /\ LET e == memory_map[entry]
     IN IF Usable(e)
        THEN Push([addr |-> RegionStart(e), len |-> RegionPages(e)])
        ELSE UNCHANGED table
  /\ entry' = entry + 1
  /\ UNCHANGED <<memory_map, scan, owned, ret>>

FinishInit ==
  /\ pc = "init" /\ entry > Len(memory_map)
  /\ coalesce_ptr' = last_freed + 1
  /\ pc' = "ready"
  /\ UNCHANGED <<memory_map, entry, table, block, depth, owned, ret>>

------------------------------------------------------------------------------
(* alloc_page                                                              *)

\* Mutant: the page after the one that was cut off is returned.
OneTooFar(b) == BlockEnd(b)

\* The page alloc_page takes from a block: its highest one.
TakenPage(b) == BlockEnd(b) - 1

AllocPage ==
  /\ pc = "ready" /\ last_freed >= 0
  /\ LET top == free_blocks[last_freed]
     IN /\ IF top.len = 1 THEN Pop ELSE Resize(top.len - 1)
        /\ ret' = TakenPage(top)
        /\ owned' = owned \cup {TakenPage(top)}
  /\ UNCHANGED <<memory_map, entry, scan>>

AllocPageNull ==
  /\ pc = "ready" /\ last_freed < 0
  /\ ret' = NULL
  /\ UNCHANGED <<memory_map, entry, table, scan, owned>>

------------------------------------------------------------------------------
(* free_page                                                               *)

\* With an empty table free_page reads free_blocks[-1]: the zero bytes that
\* precede the aligned table in .bss, whose end is page 0.
SlotBelow == [addr |-> 0, len |-> 0]

Top == IF last_freed >= 0 THEN free_blocks[last_freed] ELSE SlotBelow

\* Mutant: the page below the last block extends it upwards too.
EitherEnd(p) == p = BlockEnd(Top) \/ p + 1 = Top.addr

Extends(p) == p = BlockEnd(Top)

FreePage(p) ==
  /\ pc = "ready"
  /\ IF Extends(p) THEN Resize(Top.len + 1) ELSE Push([addr |-> p, len |-> 1])
  /\ owned' = owned \ {p}
  /\ UNCHANGED <<memory_map, entry, scan, ret>>

------------------------------------------------------------------------------
(* coalesce and coalesce_loop                                              *)

Adjacent(b, c) == BlockEnd(b) = c.addr \/ BlockEnd(c) = b.addr

\* Mutant: the loop does not skip the block it was called for.
SelfPartners ==
  {i \in 0..last_freed : i = block \/ Adjacent(free_blocks[i], free_blocks[block])}

Partners == {i \in 0..last_freed :
               i # block /\ Adjacent(free_blocks[i], free_blocks[block])}

FirstPartner(i) == i \in Partners /\ \A j \in Partners : i <= j

\* Mutant: the merged block keeps the address of the entry that survives.
KeepsAddr(b, c) == [addr |-> b.addr, len |-> b.len + c.len]

Merged(b, c) == [addr |-> IF BlockEnd(b) = c.addr THEN b.addr ELSE c.addr,
                 len |-> b.len + c.len]

\* An early return when exactly one entry is in the table.
CoalesceNothing ==
  /\ pc = "ready" /\ last_freed = 0
  /\ UNCHANGED vars

CoalesceStart ==
  /\ pc = "ready" /\ last_freed # 0
  /\ IF coalesce_ptr <= last_freed
     THEN /\ pc' = "coalesce" /\ block' = coalesce_ptr
          /\ UNCHANGED coalesce_ptr
     ELSE /\ coalesce_ptr' = last_freed + 1
          /\ UNCHANGED <<pc, block>>
  /\ UNCHANGED <<memory_map, entry, table, depth, owned, ret>>

\* One merge of coalesce_loop, which then calls itself on the merged entry.
Merge ==
  /\ pc = "coalesce"
  /\ \E i \in 0..last_freed :
       /\ FirstPartner(i)
       /\ Absorb(i, Merged(free_blocks[i], free_blocks[block]), block)
       /\ block' = IF i > block THEN i - 1 ELSE i
  /\ coalesce_ptr' = IF block < coalesce_ptr THEN coalesce_ptr - 1
                                             ELSE coalesce_ptr
  /\ depth' = depth + 1
  /\ UNCHANGED <<memory_map, entry, pc, owned, ret>>

\* Mutant: the pointer does not move on.
SamePtr == coalesce_ptr + depth

\* Every call of coalesce_loop that merged moves coalesce_ptr on as it
\* returns, and the loop of coalesce moves it once more.
NextPtr == coalesce_ptr + depth + 1

\* No partner is left: the calls return and coalesce goes on or ends.
NextBlock ==
  /\ pc = "coalesce" /\ Partners = {}
  /\ IF NextPtr <= last_freed
     THEN coalesce_ptr' = NextPtr /\ block' = NextPtr /\ UNCHANGED pc
     ELSE coalesce_ptr' = last_freed + 1 /\ block' = 0 /\ pc' = "ready"
  /\ depth' = 0
  /\ UNCHANGED <<memory_map, entry, table, owned, ret>>

------------------------------------------------------------------------------
Coalescing == Merge \/ NextBlock

Next == \/ ScanEntry \/ FinishInit
        \/ AllocPage \/ AllocPageNull
        \/ \E p \in owned : FreePage(p)
        \/ CoalesceNothing \/ CoalesceStart \/ Coalescing

Spec == Init /\ [][Next]_vars

\* A call of coalesce runs to its end: nothing in it waits.
FairSpec == Spec /\ WF_vars(Coalescing)

------------------------------------------------------------------------------
(* Properties                                                              *)

\* The state has the shape the code gives it; inside coalesce the block
\* being merged is always an entry of the table.
TypeOK ==
  /\ memory_map \in MemoryMaps
  /\ entry \in 1..(Len(memory_map) + 1)
  /\ last_freed \in Nat \cup {-1}
  /\ free_blocks \in [0..last_freed -> Block]
  /\ coalesce_ptr \in Nat \cup {NoPtr}
  /\ pc \in {"init", "ready", "coalesce"}
  /\ pc # "init" => entry = Len(memory_map) + 1 /\ coalesce_ptr \in Nat
  /\ block \in Nat /\ depth \in Nat
  /\ pc = "coalesce" => block \in 0..last_freed
  /\ owned \in SUBSET Frame
  /\ ret \in Frame \cup {NULL}

\* The blocks of the table never overlap.
BlocksDisjoint ==
  \A i, j \in 0..last_freed :
    i # j => PagesOf(free_blocks[i]) \cap PagesOf(free_blocks[j]) = {}

\* No page is free twice, and none is both free and in use: free_page,
\* alloc_page and every merge keep the blocks of the table disjoint from
\* each other and from the pages handed out.
NoDoubleOwnership == BlocksDisjoint /\ FreePages \cap owned = {}

\* No page is lost: at every step, inside coalesce too, each page of the
\* memory map is in the table or in use, and no other page is.
Conservation == FreePages \cup owned = Managed

\* Only whole pages of available RAM above the boot mapping are handed out:
\* the rounding of pmm_init never lets in a byte of a reserved hole.
OnlyWholeRamPages ==
  \A p \in FreePages \cup owned : \E i \in 1..Len(memory_map) :
    LET e == memory_map[i]
    IN  /\ e.type = 1 /\ e.addr_low <= p * PageSize
        /\ (p + 1) * PageSize <= e.addr_low + e.len_low

\* free_blocks has a fixed number of slots and no bound is checked before a
\* push: the table needs at most one slot per free page, so a machine with
\* no more pages than slots cannot overflow it.
SlotsFitPages == last_freed + 1 <= Cardinality(FreePages)

\* A call of coalesce() ends, although it skips entries and moves its
\* pointer back while it merges.
CoalesceEnds == (pc = "coalesce") ~> (pc = "ready")

\* alloc_page hands out any free page, fails only when no page is free, and
\* coalesce is invisible to callers.
PA == INSTANCE PageAllocator WITH
        Page <- Frame, free <- FreePages, held <- owned, booted <- (pc # "init")
PageAllocatorSpec == PA!Spec
==============================================================================
