----------------------------- MODULE Pmm_proofs ------------------------------
(***************************************************************************)
(* Theorems about Pmm, for every page size, address space and memory map   *)
(* that satisfy PmmAssumption and MapAssumption.                           *)
(***************************************************************************)
EXTENDS Pmm, FiniteSetTheorems, TLAPS

------------------------------------------------------------------------------
(* What the scan makes of an entry.                                        *)

\* A region starts above the boot mapping and has a natural number of pages.
LEMMA RegionTypes ==
  ASSUME NEW e \in Entry
  PROVE  RegionStart(e) \in Frame /\ RegionPages(e) \in Nat
<1>1. PageSize \in Nat /\ PageSize > 0 /\ AddressSpace \in Nat /\ AddressSpace > 0
      /\ FirstPage \in Nat
  BY PmmAssumption
<1>2. e.addr_low \in Nat /\ e.len_low \in Nat
  BY <1>1 DEF Entry
<1>3. (e.addr_low + PageSize - 1) \div PageSize \in Nat
  BY <1>1, <1>2
<1>4. RegionStart(e) \in Frame
  BY <1>1, <1>3 DEF RegionStart, Frame
<1>5. RegionEnd(e) \in Nat
  BY <1>1, <1>2 DEF RegionEnd
<1>6. RegionStart(e) * PageSize \in Nat
  BY <1>1, <1>4 DEF Frame
<1>7. RegionPages(e) \in Nat
  BY <1>1, <1>5, <1>6 DEF RegionPages
<1> QED
  BY <1>4, <1>7

\* The entry pmm_init looks at is one of the map.
LEMMA MapEntries ==
  ASSUME TypeOK, entry <= Len(memory_map)
  PROVE  memory_map[entry] \in Entry
<1>1. memory_map \in Seq(Entry) /\ entry \in 1..Len(memory_map)
  BY PmmAssumption DEF TypeOK
<1> QED
  BY <1>1

------------------------------------------------------------------------------
(* Type correctness                                                        *)

\* The zeroed table of .bss is well typed.
LEMMA InitTypeOK == Init => TypeOK
<1> SUFFICES ASSUME Init PROVE TypeOK
  OBVIOUS
<1>1. Len(memory_map) \in Nat
  BY PmmAssumption DEF Init
<1>2. free_blocks \in [0..last_freed -> Block]
  BY DEF Init
<1> QED
  BY <1>1, <1>2 DEF Init, TypeOK, NULL, NoPtr, Frame

\* A block pushed on the table leaves it well typed.
LEMMA PushTypes ==
  ASSUME TypeOK, NEW b \in Block, Push(b)
  PROVE  /\ last_freed' \in Nat
         /\ free_blocks' \in [0..last_freed' -> Block]
  BY DEF TypeOK, Push

\* Every step keeps the types; the merges are where the block that
\* coalesce_loop works on must stay in the table.
LEMMA StepTypeOK == TypeOK /\ [Next]_vars => TypeOK'
<1> SUFFICES ASSUME TypeOK, [Next]_vars PROVE TypeOK'
  OBVIOUS
<1> USE DEF TypeOK
<1>1. CASE ScanEntry
  <2>1. memory_map[entry] \in Entry
    BY <1>1, MapEntries DEF ScanEntry
  <2>2. Usable(memory_map[entry]) =>
          [addr |-> RegionStart(memory_map[entry]),
           len |-> RegionPages(memory_map[entry])] \in Block
    BY <2>1, RegionTypes DEF Usable, Block
  <2>3. last_freed' \in Nat \cup {-1} /\ free_blocks' \in [0..last_freed' -> Block]
    BY <1>1, <2>2, PushTypes DEF ScanEntry, table
  <2>4. Len(memory_map) \in Nat
    BY PmmAssumption
  <2> QED
    BY <1>1, <2>3, <2>4 DEF ScanEntry, scan
<1>2. CASE FinishInit
  BY <1>2 DEF FinishInit, table
<1>3. CASE AllocPage
  <2>1. free_blocks[last_freed] \in Block
    BY <1>3 DEF AllocPage
  <2>2. TakenPage(free_blocks[last_freed]) \in Frame
    <3>1. /\ free_blocks[last_freed].addr \in Frame
          /\ free_blocks[last_freed].len \in Nat \ {0}
      BY <2>1 DEF Block
    <3> DEFINE first == free_blocks[last_freed].addr
               n == free_blocks[last_freed].len
    <3>2. first \in Nat /\ n \in Nat /\ n > 0 /\ first >= FirstPage /\ FirstPage \in Nat
      BY <3>1, PmmAssumption DEF Frame
    <3>3. TakenPage(free_blocks[last_freed]) = (first + n) - 1
      BY DEF TakenPage, BlockEnd
    <3> HIDE DEF first, n
    <3>4. (first + n) - 1 \in Nat /\ (first + n) - 1 >= FirstPage
      BY <3>2
    <3> QED
      BY <3>3, <3>4 DEF Frame
  <2> DEFINE top == free_blocks[last_freed]
  <2>4. last_freed \in Nat /\ last_freed \in 0..last_freed
    BY <1>3 DEF AllocPage
  <2>3. last_freed' \in Nat \cup {-1} /\ free_blocks' \in [0..last_freed' -> Block]
    <3>1. CASE top.len = 1
      BY <1>3, <2>4, <3>1 DEF AllocPage, Pop
    <3>2. CASE top.len # 1
      <4>1. Resize(top.len - 1) /\ top.len - 1 \in Nat \ {0}
        BY <1>3, <3>2, <2>1 DEF AllocPage, Block
      <4>2. [top EXCEPT !.len = top.len - 1] \in Block
        BY <2>1, <4>1 DEF Block
      <4>3. /\ last_freed' = last_freed
            /\ free_blocks' = [free_blocks EXCEPT
                                 ![last_freed] = [top EXCEPT !.len = top.len - 1]]
        BY <4>1 DEF Resize
      <4> HIDE DEF top
      <4> QED
        BY <2>4, <4>2, <4>3
    <3> QED
      BY <3>1, <3>2
  <2> QED
    BY <1>3, <2>2, <2>3 DEF AllocPage, scan
<1>4. CASE AllocPageNull
  BY <1>4 DEF AllocPageNull, table, scan
<1>5. CASE \E p \in owned : FreePage(p)
  <2> PICK p \in owned : FreePage(p)
    BY <1>5
  <2>1. CASE Extends(p)
    <3>1. last_freed >= 0
      <4>1. p \in Nat /\ p # 0
        BY PmmAssumption DEF Frame
      <4>2. BlockEnd(SlotBelow) = 0
        BY DEF BlockEnd, SlotBelow
      <4>3. Top # SlotBelow
        BY <2>1, <4>1, <4>2 DEF Extends
      <4> QED
        BY <4>3 DEF Top
    <3>2. free_blocks[last_freed] \in Block
      BY <3>1
    <3>3. Resize(Top.len + 1) /\ Top = free_blocks[last_freed]
      BY <2>1, <3>1 DEF FreePage, Top
    <3> DEFINE grown == [free_blocks[last_freed] EXCEPT !.len = Top.len + 1]
    <3>4. grown \in Block
      BY <3>2, <3>3 DEF Block
    <3>5. /\ last_freed' = last_freed
          /\ free_blocks' = [free_blocks EXCEPT ![last_freed] = grown]
      BY <3>3 DEF Resize
    <3> HIDE DEF grown
    <3>6. last_freed' \in Nat \cup {-1} /\ free_blocks' \in [0..last_freed' -> Block]
      BY <3>1, <3>4, <3>5
    <3> QED
      BY <3>6 DEF FreePage, scan
  <2>2. CASE ~Extends(p)
    <3>1. [addr |-> p, len |-> 1] \in Block /\ Push([addr |-> p, len |-> 1])
      BY <2>2 DEF FreePage, Block
    <3>2. last_freed' \in Nat \cup {-1} /\ free_blocks' \in [0..last_freed' -> Block]
      BY <3>1, PushTypes
    <3> QED
      BY <3>2 DEF FreePage, scan
  <2> QED
    BY <2>1, <2>2
<1>6. CASE CoalesceNothing
  BY <1>6 DEF CoalesceNothing, vars, table, scan
<1>7. CASE CoalesceStart
  BY <1>7 DEF CoalesceStart, table
<1>8. CASE Merge
  <2> PICK i \in 0..last_freed :
        /\ FirstPartner(i)
        /\ Absorb(i, Merged(free_blocks[i], free_blocks[block]), block)
        /\ block' = IF i > block THEN i - 1 ELSE i
    BY <1>8 DEF Merge
  <2>1. block \in 0..last_freed /\ i # block /\ pc = "coalesce"
    BY <1>8 DEF Merge, FirstPartner, Partners
  <2>2. Merged(free_blocks[i], free_blocks[block]) \in Block
    BY <2>1 DEF Merged, Block
  <2>3. last_freed' \in Nat \cup {-1} /\ free_blocks' \in [0..last_freed' -> Block]
    BY <2>1, <2>2 DEF Absorb
  <2>4. block' \in 0..last_freed'
    BY <2>1 DEF Absorb
  <2>5. coalesce_ptr' \in Nat
    BY <1>8, <2>1 DEF Merge
  <2> QED
    BY <1>8, <2>3, <2>4, <2>5 DEF Merge
<1>9. CASE NextBlock
  BY <1>9 DEF NextBlock, NextPtr, table
<1>10. CASE UNCHANGED vars
  BY <1>10 DEF vars, table, scan
<1> QED
  BY <1>1, <1>2, <1>3, <1>4, <1>5, <1>6, <1>7, <1>8, <1>9, <1>10
     DEF Next, Coalescing

\* Type correctness: in every reachable state of every machine, addresses in
\* the table are above the boot mapping, no entry is empty, and the block
\* that coalesce_loop merges is an entry of the table.
THEOREM TypeCorrect == Spec => []TypeOK
<1>1. Init => TypeOK
  BY InitTypeOK
<1>2. TypeOK /\ [Next]_vars => TypeOK'
  BY StepTypeOK
<1> QED
  BY <1>1, <1>2, PTL DEF Spec

------------------------------------------------------------------------------
(* How each change of the table changes the set of free pages.             *)

\* A page is free exactly when some entry of the table covers it.
LEMMA PageIffBlock ==
  \A q : q \in FreePages <=> \E i \in 0..last_freed : q \in PagesOf(free_blocks[i])
BY DEF FreePages

\* A block disjoint from the free pages, pushed, adds exactly its pages.
LEMMA PushPages ==
  ASSUME TypeOK, BlocksDisjoint, NEW b \in Block, Push(b),
         PagesOf(b) \cap FreePages = {}
  PROVE  FreePages' = FreePages \cup PagesOf(b) /\ BlocksDisjoint'
<1>1. /\ last_freed \in Nat \cup {-1} /\ last_freed' = last_freed + 1
      /\ free_blocks'[last_freed'] = b
      /\ \A i \in 0..last_freed : i # last_freed' /\ i \in 0..last_freed'
                                  /\ free_blocks'[i] = free_blocks[i]
      /\ \A i \in 0..last_freed' : i = last_freed' \/ i \in 0..last_freed
  BY DEF TypeOK, Push
<1>2. \A q : q \in FreePages' <=> q \in FreePages \/ q \in PagesOf(b)
  <2>1. \A q : q \in FreePages' <=>
                 \E i \in 0..last_freed' : q \in PagesOf(free_blocks'[i])
    BY DEF FreePages, PagesOf, BlockEnd
  <2>2. last_freed' \in 0..last_freed'
    BY <1>1
  <2> QED
    BY <1>1, <2>1, <2>2, PageIffBlock
<1>3. BlocksDisjoint'
  <2> SUFFICES ASSUME NEW i \in 0..last_freed', NEW j \in 0..last_freed', i # j
               PROVE  PagesOf(free_blocks'[i]) \cap PagesOf(free_blocks'[j]) = {}
    BY DEF BlocksDisjoint, PagesOf, BlockEnd
  <2>1. CASE i \in 0..last_freed /\ j \in 0..last_freed
    BY <1>1, <2>1 DEF BlocksDisjoint
  <2>2. CASE i = last_freed' /\ j \in 0..last_freed
    BY <1>1, <2>2, PageIffBlock
  <2>3. CASE j = last_freed' /\ i \in 0..last_freed
    BY <1>1, <2>3, PageIffBlock
  <2> QED
    BY <1>1, <2>1, <2>2, <2>3
<1> QED
  BY <1>2, <1>3

\* alloc_page takes exactly one page, and it was free.
LEMMA TakePages ==
  ASSUME TypeOK, BlocksDisjoint, AllocPage
  PROVE  /\ ret' \in FreePages /\ owned' = owned \cup {ret'}
         /\ FreePages' = FreePages \ {ret'}
         /\ BlocksDisjoint'
<1> DEFINE k == last_freed
           top == free_blocks[k]
<1>1. k \in Nat /\ k \in 0..k /\ top \in Block
  BY DEF TypeOK, AllocPage
<1>2. ret' = TakenPage(top) /\ owned' = owned \cup {ret'}
  BY DEF AllocPage
<1>3. top.addr \in Nat /\ top.len \in Nat /\ top.len > 0
  BY <1>1 DEF Block, Frame
<1>4. ret' \in PagesOf(top)
  BY <1>2, <1>3 DEF TakenPage, PagesOf, BlockEnd
<1>5. \A i \in 0..k : i # k => PagesOf(free_blocks[i]) \cap PagesOf(top) = {}
  BY <1>1 DEF BlocksDisjoint
<1>6. \A q : q \in FreePages' <=>
              \E i \in 0..last_freed' : q \in PagesOf(free_blocks'[i])
  BY DEF FreePages, PagesOf, BlockEnd
<1>7. CASE top.len = 1
  <2>1. PagesOf(top) = {ret'}
    BY <1>2, <1>3, <1>7 DEF TakenPage, PagesOf, BlockEnd
  <2>2. /\ last_freed' = k - 1
        /\ \A i \in 0..last_freed' : i \in 0..k /\ i # k
                                    /\ free_blocks'[i] = free_blocks[i]
        /\ \A i \in 0..k : i # k => i \in 0..last_freed'
    BY <1>1, <1>7 DEF AllocPage, Pop
  <2>3. FreePages' = FreePages \ {ret'}
    BY <1>1, <1>5, <1>6, <2>1, <2>2, PageIffBlock
  <2>4. BlocksDisjoint'
    BY <2>2 DEF BlocksDisjoint, PagesOf, BlockEnd
  <2> QED
    BY <1>1, <1>2, <1>4, <2>3, <2>4, PageIffBlock
<1>8. CASE top.len # 1
  <2> DEFINE cut == [top EXCEPT !.len = top.len - 1]
  <2>1. /\ last_freed' = k /\ free_blocks'[k] = cut
        /\ \A i \in 0..k : i # k => free_blocks'[i] = free_blocks[i]
    <3>1. Resize(top.len - 1)
      BY <1>8 DEF AllocPage
    <3>2. last_freed' = k /\ free_blocks' = [free_blocks EXCEPT ![k] = cut]
      BY <3>1 DEF Resize
    <3>3. DOMAIN free_blocks = 0..k
      BY DEF TypeOK
    <3> HIDE DEF cut, top
    <3> QED
      BY <1>1, <3>2, <3>3
  <2>2. cut.addr = top.addr /\ cut.len = top.len - 1
    BY <1>1 DEF Block
  <2> HIDE DEF cut, top
  <2>3. PagesOf(cut) = PagesOf(top) \ {ret'}
    BY <1>2, <1>3, <2>2 DEF TakenPage, PagesOf, BlockEnd
  <2> USE DEF top
  <2>4. FreePages' = FreePages \ {ret'}
    BY <1>1, <1>4, <1>5, <1>6, <2>1, <2>3, PageIffBlock
  <2>5. BlocksDisjoint'
    <3> SUFFICES ASSUME NEW i \in 0..k, NEW j \in 0..k, i # j
                 PROVE  PagesOf(free_blocks'[i]) \cap PagesOf(free_blocks'[j]) = {}
      BY <2>1 DEF BlocksDisjoint, PagesOf, BlockEnd
    <3> QED
      BY <1>5, <2>1, <2>3 DEF BlocksDisjoint
  <2> QED
    BY <1>1, <1>2, <1>4, <2>4, <2>5, PageIffBlock
<1> QED
  BY <1>7, <1>8

\* A page that extends the last block is added to the free pages.
LEMMA ExtendPages ==
  ASSUME TypeOK, BlocksDisjoint, NEW p \in Frame, p \notin FreePages,
         Extends(p), Resize(Top.len + 1)
  PROVE  FreePages' = FreePages \cup {p} /\ BlocksDisjoint'
<1> DEFINE k == last_freed
           top == free_blocks[k]
           grown == [top EXCEPT !.len = top.len + 1]
<1>1. k \in Nat /\ k \in 0..k /\ Top = top
  BY PmmAssumption DEF TypeOK, Extends, Top, SlotBelow, BlockEnd, Frame
<1>2. top \in Block
  BY <1>1 DEF TypeOK
<1>3. top.addr \in Nat /\ top.len \in Nat /\ top.len > 0
  BY <1>2 DEF Block, Frame
<1>4. /\ last_freed' = k /\ free_blocks'[k] = grown
      /\ \A i \in 0..k : i # k => free_blocks'[i] = free_blocks[i]
  BY <1>1 DEF Resize, TypeOK
<1>5. grown.addr = top.addr /\ grown.len = top.len + 1
  BY <1>2 DEF Block
<1>6. PagesOf(grown) = PagesOf(top) \cup {p}
  BY <1>1, <1>3, <1>5 DEF Extends, PagesOf, BlockEnd
<1> HIDE DEF grown
<1>7. \A q : q \in FreePages' <=>
              \E i \in 0..last_freed' : q \in PagesOf(free_blocks'[i])
  BY DEF FreePages, PagesOf, BlockEnd
<1>8. FreePages' = FreePages \cup {p}
  BY <1>1, <1>4, <1>6, <1>7, PageIffBlock
<1>9. BlocksDisjoint'
  <2> SUFFICES ASSUME NEW i \in 0..k, NEW j \in 0..k, i # j
               PROVE  PagesOf(free_blocks'[i]) \cap PagesOf(free_blocks'[j]) = {}
    BY <1>4 DEF BlocksDisjoint, PagesOf, BlockEnd
  <2>1. p \notin PagesOf(free_blocks[i]) /\ p \notin PagesOf(free_blocks[j])
    BY PageIffBlock
  <2> QED
    BY <1>4, <1>6, <2>1 DEF BlocksDisjoint
<1> QED
  BY <1>8, <1>9

\* Two adjacent blocks together cover exactly what the merged one covers.
LEMMA MergedPages ==
  ASSUME NEW b \in Block, NEW c \in Block, Adjacent(b, c)
  PROVE  PagesOf(Merged(b, c)) = PagesOf(b) \cup PagesOf(c)
BY DEF Block, Frame, Adjacent, Merged, PagesOf, BlockEnd

\* A merge changes neither the free pages nor the disjointness of blocks.
LEMMA MergePages ==
  ASSUME TypeOK, BlocksDisjoint, Merge
  PROVE  FreePages' = FreePages /\ BlocksDisjoint'
<1> DEFINE k == last_freed
           old(m) == IF m < block THEN m ELSE m + 1
<1>1. PICK i \in 0..k :
        /\ FirstPartner(i)
        /\ Absorb(i, Merged(free_blocks[i], free_blocks[block]), block)
  BY DEF Merge
<1> DEFINE both == Merged(free_blocks[i], free_blocks[block])
<1>2. block \in 0..k /\ i # block /\ Adjacent(free_blocks[i], free_blocks[block])
      /\ k \in Nat
  BY <1>1 DEF Merge, TypeOK, FirstPartner, Partners
<1>3. PagesOf(both) = PagesOf(free_blocks[i]) \cup PagesOf(free_blocks[block])
  <2>1. free_blocks[i] \in Block /\ free_blocks[block] \in Block
    BY <1>2 DEF TypeOK
  <2> QED
    BY <1>2, <2>1, MergedPages
<1>4. /\ last_freed' = k - 1
      /\ \A m \in 0..(k - 1) :
           free_blocks'[m] = IF old(m) = i THEN both ELSE free_blocks[old(m)]
  BY <1>1 DEF Absorb
<1> HIDE DEF both
<1>5. \A m \in 0..(k - 1) : old(m) \in 0..k /\ old(m) # block
  BY <1>2
<1>6. \A m, n \in 0..(k - 1) : m # n => old(m) # old(n)
  BY <1>2
<1>7. \A j \in 0..k : j # block => \E m \in 0..(k - 1) : old(m) = j
  <2> TAKE j \in 0..k
  <2> HAVE j # block
  <2>1. CASE j < block
    BY <1>2, <2>1
  <2>2. CASE j > block
    <3>1. j - 1 \in 0..(k - 1) /\ old(j - 1) = j
      BY <1>2, <2>2
    <3> QED
      BY <3>1
  <2> QED
    BY <1>2, <2>1, <2>2
<1> HIDE DEF old
<1>8. \A q : q \in FreePages' <=>
              \E m \in 0..(k - 1) : q \in PagesOf(free_blocks'[m])
  BY <1>4 DEF FreePages, PagesOf, BlockEnd
<1>9. FreePages' = FreePages
  <2>1. ASSUME NEW q \in FreePages PROVE q \in FreePages'
    <3>1. PICK j \in 0..k : q \in PagesOf(free_blocks[j])
      BY <2>1, PageIffBlock
    <3>2. CASE j = block
      <4>1. PICK m \in 0..(k - 1) : old(m) = i
        BY <1>2, <1>7
      <4> QED
        BY <1>3, <1>4, <1>8, <3>1, <3>2, <4>1
    <3>3. CASE j # block
      <4>1. PICK m \in 0..(k - 1) : old(m) = j
        BY <1>7, <3>3
      <4> QED
        BY <1>3, <1>4, <1>8, <3>1, <4>1
    <3> QED
      BY <3>2, <3>3
  <2>2. ASSUME NEW q \in FreePages' PROVE q \in FreePages
    BY <1>2, <1>3, <1>4, <1>5, <1>8, <2>2, PageIffBlock
  <2> QED
    BY <2>1, <2>2
<1>10. BlocksDisjoint'
  <2> SUFFICES ASSUME NEW m \in 0..(k - 1), NEW n \in 0..(k - 1), m # n
               PROVE  PagesOf(free_blocks'[m]) \cap PagesOf(free_blocks'[n]) = {}
    BY <1>4 DEF BlocksDisjoint, PagesOf, BlockEnd
  <2>1. /\ old(m) \in 0..k /\ old(n) \in 0..k /\ old(m) # old(n)
        /\ old(m) # block /\ old(n) # block
    BY <1>5, <1>6
  <2>2. /\ PagesOf(free_blocks[old(m)]) \cap PagesOf(free_blocks[old(n)]) = {}
        /\ PagesOf(free_blocks[old(m)]) \cap PagesOf(free_blocks[block]) = {}
        /\ PagesOf(free_blocks[old(n)]) \cap PagesOf(free_blocks[block]) = {}
    BY <1>2, <2>1 DEF BlocksDisjoint
  <2> QED
    BY <1>3, <1>4, <2>1, <2>2
<1> QED
  BY <1>9, <1>10

------------------------------------------------------------------------------
(* The inductive invariant                                                 *)

\* Conservation and disjointness need each other: a page that is freed or
\* donated is outside the table only because no page is in two places.
IInv == TypeOK /\ NoDoubleOwnership /\ Conservation

\* The scan of an entry makes its pages managed, and none was before.
LEMMA ScanManaged ==
  ASSUME TypeOK, ScanEntry
  PROVE  /\ Managed' = Managed \cup Region(memory_map[entry])
         /\ Managed \cap Region(memory_map[entry]) = {}
<1>1. /\ memory_map' = memory_map /\ entry' = entry + 1
      /\ entry \in 1..Len(memory_map) /\ memory_map \in MemoryMaps
      /\ Len(memory_map) \in Nat
  BY PmmAssumption DEF TypeOK, ScanEntry
<1>2. 1..(entry' - 1) = 1..(entry - 1) \cup {entry}
  BY <1>1
<1>3. Managed' = Managed \cup Region(memory_map[entry])
  BY <1>1, <1>2 DEF Managed, Region, Usable, RegionStart, RegionPages, RegionEnd
<1>4. \A i \in 1..(entry - 1) : Region(memory_map[i]) \cap Region(memory_map[entry]) = {}
  BY <1>1, MapAssumption
<1> QED
  BY <1>3, <1>4 DEF Managed

\* At boot the table is empty and nothing is managed.
LEMMA InitIInv == Init => IInv
<1> SUFFICES ASSUME Init PROVE IInv
  OBVIOUS
<1>1. 0..last_freed = {} /\ 1..(entry - 1) = {}
  BY DEF Init
<1>2. FreePages = {} /\ Managed = {} /\ BlocksDisjoint
  BY <1>1 DEF FreePages, Managed, BlocksDisjoint
<1> QED
  BY <1>2, InitTypeOK DEF Init, IInv, NoDoubleOwnership, Conservation

\* Every step keeps the invariant: pages move between the table and their
\* holders, and a merge moves none.
LEMMA StepIInv == IInv /\ [Next]_vars => IInv'
<1> SUFFICES ASSUME IInv, [Next]_vars PROVE IInv'
  OBVIOUS
<1> USE DEF IInv, NoDoubleOwnership, Conservation
<1>1. TypeOK'
  BY StepTypeOK
<1>2. ASSUME UNCHANGED <<memory_map, entry>> PROVE Managed' = Managed
  BY <1>2 DEF Managed, Region, Usable, RegionStart, RegionPages, RegionEnd
<1>3. ASSUME UNCHANGED table PROVE FreePages' = FreePages /\ BlocksDisjoint'
  BY <1>3 DEF table, FreePages, BlocksDisjoint, PagesOf, BlockEnd
<1>4. CASE ScanEntry
  <2> DEFINE e == memory_map[entry]
             b == [addr |-> RegionStart(e), len |-> RegionPages(e)]
  <2>1. owned' = owned
    BY <1>4 DEF ScanEntry
  <2>2. CASE Usable(e)
    <3>1. e \in Entry
      BY <1>4, MapEntries DEF ScanEntry
    <3>2. /\ b \in Block
          /\ PagesOf(b) = Region(e)
          /\ Push(b)
      <4>1. RegionStart(e) \in Frame /\ RegionPages(e) \in Nat \ {0}
        BY <2>2, <3>1, RegionTypes DEF Usable
      <4>2. b \in Block
        BY <4>1 DEF Block
      <4>3. PagesOf(b) = Region(e)
        <5>1. b.addr = RegionStart(e) /\ b.len = RegionPages(e)
          OBVIOUS
        <5>2. Region(e) = RegionStart(e) .. (RegionStart(e) + RegionPages(e) - 1)
          BY <2>2 DEF Region
        <5>3. b.addr \in Int /\ b.len \in Int
          BY <4>1, <5>1 DEF Frame
        <5> HIDE DEF b, e
        <5> QED
          BY <5>1, <5>2, <5>3 DEF PagesOf, BlockEnd
      <4>4. Push(b)
        BY <1>4, <2>2 DEF ScanEntry
      <4> QED
        BY <4>2, <4>3, <4>4
    <3> HIDE DEF b
    <3> QED
      BY <1>1, <1>4, <2>1, <3>2, ScanManaged, PushPages
  <2>3. CASE ~Usable(e)
    <3>1. Region(e) = {} /\ UNCHANGED table
      BY <1>4, <2>3 DEF ScanEntry, Region
    <3> QED
      BY <1>1, <1>3, <1>4, <2>1, <3>1, ScanManaged
  <2> QED
    BY <2>2, <2>3
<1>5. CASE FinishInit
  BY <1>1, <1>2, <1>3, <1>5 DEF FinishInit
<1>6. CASE AllocPage
  <2>1. Managed' = Managed
    BY <1>2, <1>6 DEF AllocPage
  <2> QED
    BY <1>1, <1>6, <2>1, TakePages
<1>7. CASE AllocPageNull
  BY <1>1, <1>2, <1>3, <1>7 DEF AllocPageNull
<1>8. CASE \E p \in owned : FreePage(p)
  <2> PICK p \in owned : FreePage(p)
    BY <1>8
  <2>1. Managed' = Managed /\ owned' = owned \ {p}
    BY <1>2 DEF FreePage
  <2>2. p \in Frame /\ p \notin FreePages
    BY DEF TypeOK
  <2>3. FreePages' = FreePages \cup {p} /\ BlocksDisjoint'
    <3>1. CASE Extends(p)
      BY <2>2, <3>1, ExtendPages DEF FreePage
    <3>2. CASE ~Extends(p)
      <4> DEFINE b == [addr |-> p, len |-> 1]
      <4>1. b \in Block /\ PagesOf(b) = {p} /\ Push(b)
        BY <2>2, <3>2 DEF FreePage, Block, Frame, PagesOf, BlockEnd
      <4> HIDE DEF b
      <4> QED
        BY <2>2, <4>1, PushPages
    <3> QED
      BY <3>1, <3>2
  <2> QED
    BY <1>1, <2>1, <2>2, <2>3
<1>9. CASE CoalesceNothing
  BY <1>1, <1>2, <1>3, <1>9 DEF CoalesceNothing, vars
<1>10. CASE CoalesceStart
  BY <1>1, <1>2, <1>3, <1>10 DEF CoalesceStart
<1>11. CASE Merge
  <2>1. Managed' = Managed /\ owned' = owned
    BY <1>2, <1>11 DEF Merge
  <2> QED
    BY <1>1, <1>11, <2>1, MergePages
<1>12. CASE NextBlock
  BY <1>1, <1>2, <1>3, <1>12 DEF NextBlock
<1>13. CASE UNCHANGED vars
  BY <1>1, <1>2, <1>3, <1>13 DEF vars
<1> QED
  BY <1>4, <1>5, <1>6, <1>7, <1>8, <1>9, <1>10, <1>11, <1>12, <1>13
     DEF Next, Coalescing

\* The inductive invariant holds in every reachable state.
LEMMA Invariant == Spec => []IInv
<1>1. Init => IInv
  BY InitIInv
<1>2. IInv /\ [Next]_vars => IInv'
  BY StepIInv
<1> QED
  BY <1>1, <1>2, PTL DEF Spec

\* No page of RAM is free twice, or free and in use, on any machine and
\* after any sequence of allocations, frees and coalescing.
THEOREM NeverOwnedTwice == Spec => []NoDoubleOwnership
<1>1. IInv => NoDoubleOwnership
  BY DEF IInv
<1> QED
  BY <1>1, Invariant, PTL

\* No page of RAM is ever lost or invented: free and allocated pages
\* together are the pages of the memory map, inside coalesce too.
THEOREM PagesConserved == Spec => []Conservation
<1>1. IInv => Conservation
  BY DEF IInv
<1> QED
  BY <1>1, Invariant, PTL

------------------------------------------------------------------------------
(* Whole pages of RAM, and the number of slots the table needs             *)

\* Integer division rounds down by less than the divisor.
LEMMA DivBounds ==
  ASSUME NEW x \in Nat, NEW d \in Nat \ {0}
  PROVE  /\ x \div d \in Nat
         /\ (x \div d) * d <= x
         /\ x < (x \div d) * d + d
OBVIOUS

\* Multiplication by a natural number preserves order.
LEMMA TimesMonotone ==
  ASSUME NEW x \in Nat, NEW y \in Nat, x <= y, NEW d \in Nat \ {0}
  PROVE  x * d <= y * d
OBVIOUS

\* A sum that wraps is no larger than the sum.
LEMMA WrapShrinks ==
  ASSUME NEW x \in Nat, NEW d \in Nat \ {0}
  PROVE  x % d \in Nat /\ x % d <= x
OBVIOUS

\* Rounding its start up and its length down keeps a region inside its entry.
LEMMA RegionInside ==
  ASSUME NEW e \in Entry, NEW p \in Region(e)
  PROVE  /\ e.type = 1 /\ e.addr_low <= p * PageSize
         /\ (p + 1) * PageSize <= e.addr_low + e.len_low
<1> DEFINE from == RegionStart(e)
           n == RegionPages(e)
           up == (e.addr_low + PageSize - 1) \div PageSize
<1>1. /\ PageSize \in Nat \ {0} /\ AddressSpace \in Nat \ {0} /\ FirstPage \in Nat
      /\ e.addr_low \in Nat /\ e.len_low \in Nat
  BY PmmAssumption DEF Entry
<1>2. Usable(e) /\ p \in from .. (from + n - 1)
  BY DEF Region
<1>3. from \in Nat /\ n \in Nat /\ p \in Nat
  BY <1>2, RegionTypes DEF Frame
<1>4. e.addr_low <= p * PageSize
  <2> DEFINE last == e.addr_low + PageSize - 1
  <2>1. up \in Nat /\ last < up * PageSize + PageSize
    <3>1. last \in Nat /\ up = last \div PageSize
      BY <1>1
    <3> HIDE DEF last, up
    <3> QED
      BY <1>1, <3>1, DivBounds
  <2>2. up <= from
    BY <1>1, <2>1 DEF RegionStart
  <2>3. up <= p
    BY <1>2, <1>3, <2>1, <2>2
  <2>4. up * PageSize <= p * PageSize
    BY <1>1, <1>3, <2>1, <2>3, TimesMonotone
  <2>5. up * PageSize \in Nat /\ p * PageSize \in Nat
    BY <1>1, <1>3, <2>1
  <2> HIDE DEF up
  <2> QED
    BY <1>1, <2>1, <2>4, <2>5
<1>5. (p + 1) * PageSize <= e.addr_low + e.len_low
  <2>1. RegionEnd(e) \in Nat /\ RegionEnd(e) <= e.addr_low + e.len_low
    <3> DEFINE end == e.addr_low + e.len_low
    <3>1. end \in Nat
      BY <1>1
    <3>2. end % AddressSpace \in Nat /\ end % AddressSpace <= end
      <4> HIDE DEF end
      <4> QED
        BY <1>1, <3>1, WrapShrinks
    <3> QED
      BY <3>2 DEF RegionEnd
  <2>2. from * PageSize \in Nat /\ RegionEnd(e) > from * PageSize
    BY <1>1, <1>2, <1>3 DEF Usable, RegionPages
  <2>3. n = (RegionEnd(e) - from * PageSize) \div PageSize
    BY <2>2 DEF RegionPages
  <2>4. n * PageSize <= RegionEnd(e) - from * PageSize
    <3>1. RegionEnd(e) - from * PageSize \in Nat
      BY <2>1, <2>2
    <3> QED
      BY <1>1, <2>3, <3>1, DivBounds
  <2>5. p + 1 <= from + n
    BY <1>2, <1>3
  <2>6. (p + 1) * PageSize <= (from + n) * PageSize
    BY <1>1, <1>3, <2>5, TimesMonotone
  <2>7. (from + n) * PageSize = from * PageSize + n * PageSize
    BY <1>1, <1>3
  <2>8. (p + 1) * PageSize \in Nat /\ n * PageSize \in Nat
    BY <1>1, <1>3
  <2> HIDE DEF from, n
  <2> QED
    BY <1>1, <2>1, <2>2, <2>4, <2>6, <2>7, <2>8
<1> QED
  BY <1>2, <1>4, <1>5 DEF Usable

\* No page that is free or in use holds a byte outside an available entry of
\* the memory map, whatever the alignment of the entries.
THEOREM WholeRamPages == Spec => []OnlyWholeRamPages
<1>1. IInv => OnlyWholeRamPages
  <2> SUFFICES ASSUME IInv, NEW p \in FreePages \cup owned
               PROVE  \E i \in 1..Len(memory_map) :
                        LET e == memory_map[i]
                        IN  /\ e.type = 1 /\ e.addr_low <= p * PageSize
                            /\ (p + 1) * PageSize <= e.addr_low + e.len_low
    BY DEF OnlyWholeRamPages
  <2>1. PICK i \in 1..(entry - 1) : p \in Region(memory_map[i])
    BY DEF IInv, Conservation, Managed
  <2>2. /\ memory_map \in Seq(Entry) /\ Len(memory_map) \in Nat
        /\ entry \in 1..(Len(memory_map) + 1)
    BY PmmAssumption DEF IInv, TypeOK
  <2>3. i \in 1..Len(memory_map) /\ memory_map[i] \in Entry
    BY <2>2
  <2> QED
    BY <2>1, <2>3, RegionInside
<1> QED
  BY <1>1, Invariant, PTL

\* The table is a finite set of finite blocks.
LEMMA FreePagesFinite ==
  ASSUME TypeOK
  PROVE  IsFiniteSet(FreePages)
<1> DEFINE blocks == {PagesOf(free_blocks[i]) : i \in 0..last_freed}
           g == [i \in 0..last_freed |-> PagesOf(free_blocks[i])]
<1>1. IsFiniteSet(0..last_freed)
  BY FS_Interval DEF TypeOK
<1>2. g \in Surjection(0..last_freed, blocks)
  BY DEF Surjection
<1>3. IsFiniteSet(blocks)
  BY <1>1, <1>2, FS_Surjection
<1>4. \A b \in Block : IsFiniteSet(PagesOf(b))
  BY FS_Interval DEF Block, Frame, PagesOf, BlockEnd
<1>5. \A s \in blocks : IsFiniteSet(s)
  BY <1>4 DEF TypeOK
<1> HIDE DEF blocks
<1>6. IsFiniteSet(UNION blocks)
  BY <1>3, <1>5, FS_UNION
<1> QED
  BY <1>6 DEF FreePages, blocks

\* The table never needs more slots than there are free pages: disjoint
\* blocks start at different pages.
THEOREM SlotsSuffice == Spec => []SlotsFitPages
<1>1. IInv => SlotsFitPages
  <2> SUFFICES ASSUME IInv PROVE SlotsFitPages
    OBVIOUS
  <2> DEFINE f == [i \in 0..last_freed |-> free_blocks[i].addr]
  <2>1. TypeOK /\ BlocksDisjoint
    BY DEF IInv, NoDoubleOwnership
  <2>2. \A i \in 0..last_freed : free_blocks[i].addr \in PagesOf(free_blocks[i])
    BY <2>1 DEF TypeOK, Block, Frame, PagesOf, BlockEnd
  <2>3. f \in [0..last_freed -> FreePages]
    BY <2>2, PageIffBlock
  <2>4. \A i, j \in 0..last_freed : f[i] = f[j] => i = j
    BY <2>1, <2>2 DEF BlocksDisjoint
  <2>5. f \in Injection(0..last_freed, FreePages)
    BY <2>3, <2>4 DEF Injection, IsInjective
  <2>6. IsFiniteSet(FreePages)
    BY <2>1, FreePagesFinite
  <2>7. Cardinality(0..last_freed) <= Cardinality(FreePages)
    BY <2>5, <2>6, FS_Injection
  <2>8. Cardinality(0..last_freed) = last_freed + 1
    BY <2>1, FS_Interval DEF TypeOK
  <2> QED
    BY <2>7, <2>8 DEF SlotsFitPages
<1> QED
  BY <1>1, Invariant, PTL

------------------------------------------------------------------------------
(* Pmm implements PageAllocator                                            *)

\* The table is empty exactly when no page is free.
LEMMA EmptyTable ==
  ASSUME TypeOK, last_freed < 0
  PROVE  FreePages = {}
<1>1. 0..last_freed = {}
  BY DEF TypeOK
<1> QED
  BY <1>1 DEF FreePages

\* Boot starts with no free page and none in use.
LEMMA RefinesInit == Init => PA!Init
<1>1. Init => 0..last_freed = {}
  BY DEF Init
<1> QED
  BY <1>1 DEF Init, PA!Init, FreePages

\* Each step of the table manager is a step of the abstract allocator, or
\* changes nothing a caller can see.
LEMMA RefinesStep ==
  ASSUME IInv, IInv', [Next]_vars
  PROVE  [PA!Next]_PA!vars
<1> USE DEF IInv, NoDoubleOwnership, Conservation
<1>1. FreePages \in SUBSET Frame /\ FreePages' \in SUBSET Frame
  <2>1. \A b \in Block : PagesOf(b) \subseteq Frame
    BY PmmAssumption DEF Block, Frame, PagesOf, BlockEnd
  <2>2. FreePages \in SUBSET Frame
    BY <2>1, PageIffBlock DEF TypeOK
  <2>3. \A q : q \in FreePages' <=>
                 \E i \in 0..last_freed' : q \in PagesOf(free_blocks'[i])
    BY DEF FreePages, PagesOf, BlockEnd
  <2>4. free_blocks' \in [0..last_freed' -> Block]
    BY DEF TypeOK, Block, Frame
  <2>5. FreePages' \in SUBSET Frame
    BY <2>1, <2>3, <2>4
  <2> QED
    BY <2>2, <2>5
<1>2. ASSUME UNCHANGED <<table, owned, ret>>, (pc # "init")' = (pc # "init")
      PROVE  UNCHANGED PA!vars
  BY <1>2 DEF PA!vars, table, FreePages, PagesOf, BlockEnd
<1>3. CASE ScanEntry
  <2>1. UNCHANGED <<owned, ret, pc, memory_map>> /\ pc = "init"
    BY <1>3 DEF ScanEntry, scan
  <2>2. Managed \subseteq Managed'
    BY <1>3, ScanManaged
  <2>3. FreePages \subseteq FreePages'
    BY <2>1, <2>2
  <2> QED
    BY <1>1, <2>1, <2>3 DEF PA!Next, PA!Donate
<1>4. CASE FinishInit
  <2>1. FreePages' = FreePages
    BY <1>4 DEF FinishInit, table, FreePages, PagesOf, BlockEnd
  <2> QED
    BY <1>4, <2>1 DEF FinishInit, PA!Next, PA!Boot
<1>5. CASE AllocPage
  <2>1. ret' \in FreePages /\ PA!Alloc(ret')
    BY <1>5, TakePages DEF AllocPage, scan, PA!Alloc
  <2> QED
    BY <2>1 DEF PA!Next
<1>6. CASE AllocPageNull
  <2>1. FreePages = {} /\ FreePages' = FreePages
    BY <1>6, EmptyTable DEF AllocPageNull, table, FreePages, PagesOf, BlockEnd
  <2> QED
    BY <1>6, <2>1 DEF AllocPageNull, scan, PA!Next, PA!AllocFails
<1>7. CASE \E p \in owned : FreePage(p)
  <2> PICK p \in owned : FreePage(p)
    BY <1>7
  <2>1. owned' = owned \ {p} /\ Managed' = Managed
    BY DEF FreePage, Managed, Region, Usable, RegionStart, RegionPages, RegionEnd
  <2>2. FreePages' = FreePages \cup {p}
    BY <2>1
  <2>3. PA!Free(p)
    BY <2>1, <2>2 DEF FreePage, scan, PA!Free
  <2> QED
    BY <2>3 DEF PA!Next
<1>8. CASE CoalesceNothing
  BY <1>2, <1>8 DEF CoalesceNothing, vars, scan
<1>9. CASE CoalesceStart
  BY <1>2, <1>9 DEF CoalesceStart
<1>10. CASE Merge
  <2>1. FreePages' = FreePages
    BY <1>10, MergePages
  <2> QED
    BY <1>10, <2>1 DEF Merge, PA!vars
<1>11. CASE NextBlock
  BY <1>2, <1>11 DEF NextBlock
<1>12. CASE UNCHANGED vars
  BY <1>2, <1>12 DEF vars, scan
<1> QED
  BY <1>3, <1>4, <1>5, <1>6, <1>7, <1>8, <1>9, <1>10, <1>11, <1>12
     DEF Next, Coalescing

\* The table manager implements the abstract allocator: alloc_page returns
\* any page that is free, NULL only when none is, free_page makes exactly
\* its page free, and coalesce is a stutter.
THEOREM ImplementsPageAllocator == Spec => PageAllocatorSpec
<1>1. Init => PA!Init
  BY RefinesInit
<1>2. IInv /\ IInv' /\ [Next]_vars => [PA!Next]_PA!vars
  BY RefinesStep
<1> QED
  BY <1>1, <1>2, Invariant, PTL DEF Spec, PageAllocatorSpec, PA!Spec
==============================================================================
