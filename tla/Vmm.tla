--------------------------------- MODULE Vmm ---------------------------------
(***************************************************************************)
(* The virtual memory manager (kernel/arch/i386/vmm.c): two tables of free *)
(* virtual ranges sorted by size, the page directory and page tables, the  *)
(* TLB, and alloc_block / free_block, which reserve a range and map its    *)
(* pages one by one, undoing the work when a page cannot be had.           *)
(*                                                                         *)
(* Addresses are page numbers.  The physical allocator is the set of free  *)
(* frames that PageAllocator specifies.  Threads are preempted between the *)
(* helper calls (a table operation, an alloc_page, a map_page, ...).  The  *)
(* kernel has one today: only the thread of kernel_main allocates ranges.  *)
(***************************************************************************)
EXTENDS Integers, FiniteSets

CONSTANTS
  Threads,      \* callers
  Spaces,       \* the tables: kernel_space and user_space
  SpaceStart,   \* first page of each space, a function of Spaces
  SpacePages,   \* its pages: 260096 and 785408
  SPACE_SIZE,   \* slots of a table: 512
  TablePages,   \* pages a page table maps: 1024
  Frame,        \* physical pages
  Sizes,        \* sizes callers ask for (a bound of the model)
  None          \* no frame

SpaceRange(s) == SpaceStart[s] .. (SpaceStart[s] + SpacePages[s] - 1)
VPage == UNION {SpaceRange(s) : s \in Spaces}
TableOf(v) == v \div TablePages
Table == {TableOf(v) : v \in VPage}

ASSUME VmmAssumption ==
  /\ Spaces # {}
  /\ SpaceStart \in [Spaces -> Nat] /\ SpacePages \in [Spaces -> Nat \ {0}]
  /\ \A s, u \in Spaces : s # u => SpaceRange(s) \cap SpaceRange(u) = {}
  /\ SPACE_SIZE \in Nat \ {0} /\ TablePages \in Nat \ {0}
  /\ Sizes \subseteq Nat \ {0}
  /\ None \notin Frame

Slot == 0..(SPACE_SIZE - 1)
Block == [space : Spaces, addr : Nat, size : Nat]
NoCall == [op |-> "none", space |-> CHOOSE s \in Spaces : TRUE, addr |-> 0, size |-> 0]

VARIABLES
  blocks,   \* the slots of each table, those above its end included
  end,      \* kernel_space_end and user_space_end as indices
  pd,       \* page directory: the frame of each page table, or None
  pt,       \* page tables: the frame a page is mapped to, or None
  tlb,      \* what the processor has cached of pt
  free,     \* the free frames of the physical allocator
  pc,       \* where each thread is
  call,     \* its arguments
  fb,       \* its local free_block: a slot
  done,     \* pages it has mapped or unmapped so far
  frame,    \* its local phys_addr
  allocs    \* history: the ranges callers hold

tables == <<blocks, end>>
paging == <<pd, pt, tlb>>
locals == <<call, fb, done, frame>>
vars == <<tables, paging, free, pc, locals, allocs>>

Pages(r) == r.addr .. (r.addr + r.size - 1)
Stop(b) == b.addr + b.size

\* Slots a table has never used hold the zeros of .bss.
Init ==
  /\ blocks = [s \in Spaces |-> [k \in Slot |->
       IF k = 0 THEN [addr |-> SpaceStart[s], size |-> SpacePages[s]]
                ELSE [addr |-> 0, size |-> 0]]]
  /\ end = [s \in Spaces |-> 0]
  /\ pd = [d \in Table |-> None] /\ pt = [v \in VPage |-> None]
  /\ tlb = [v \in VPage |-> None]
  /\ free = Frame
  /\ pc = [t \in Threads |-> "idle"] /\ call = [t \in Threads |-> NoCall]
  /\ fb = [t \in Threads |-> 0] /\ done = [t \in Threads |-> 0]
  /\ frame = [t \in Threads |-> None]
  /\ allocs = {}

------------------------------------------------------------------------------
(* Operations on a table a whose last entry is e.                          *)

\* The entry at slot i ends up at slot p; those between move by one.
Moved(a, i, p) ==
  [k \in DOMAIN a |-> CASE k = p -> a[i]
                        [] i <= k /\ k < p -> a[k + 1]
                        [] p < k /\ k <= i -> a[k - 1]
                        [] OTHER -> a[k]]

\* Mutant: an entry that has grown stays where it is.
NeverRises(a, i) == i

\* Where check_lower moves the entry at slot i: below every entry that is
\* larger, up to the end of the table.
SinksTo(a, e, i) ==
  CHOOSE p \in i..e :
    /\ p = e \/ a[i].size >= a[p + 1].size
    /\ \A k \in (i + 1)..p : a[i].size < a[k].size

\* Where the first loop of check_upper moves it.
RisesTo(a, i) ==
  CHOOSE p \in 0..i :
    /\ p = 0 \/ a[i].size <= a[p - 1].size
    /\ \A k \in p..(i - 1) : a[i].size > a[k].size

\* Mutant: only the entry below is merged with.
Follows(b, c) == Stop(b) = c.addr

Adjacent(b, c) == Stop(b) = c.addr \/ Stop(c) = b.addr

\* Mutant: the address of the entry that stays is kept.
KeepsAddr(b, c) == [addr |-> b.addr, size |-> b.size + c.size]

Merged(b, c) == [addr |-> IF Stop(b) = c.addr THEN b.addr ELSE c.addr,
                 size |-> b.size + c.size]

\* memmove over the entry at slot gone.
Without(a, e, gone) ==
  [k \in DOMAIN a |-> IF gone <= k /\ k < e THEN a[k + 1] ELSE a[k]]

Partners(a, e, i) == {k \in 0..e : k # i /\ Adjacent(a[k], a[i])}
Lowest(S) == CHOOSE k \in S : \A m \in S : k <= m
Highest(S) == CHOOSE k \in S : \A m \in S : k >= m

------------------------------------------------------------------------------
(* alloc_block                                                             *)

Fits(s, n) == {k \in 0..end[s] : blocks[s][k].size >= n}

\* Mutant: the first n pages are handed out, and the last n taken off.
FromFront(b, n) == b.addr

\* free_block->addr + free_block->size, once the size is less by n.
TakenAt(b, n) == Stop(b) - n

\* The search runs from the smallest entry; its top n pages are taken.
AllocTake(t, s, n) ==
  /\ pc[t] = "idle" /\ Fits(s, n) # {}
  /\ LET k == Highest(Fits(s, n))
         b == blocks[s][k]
         cut == [blocks[s] EXCEPT ![k].size = @ - n]
         p == SinksTo(cut, end[s], k)
     IN /\ blocks' = [blocks EXCEPT ![s] = Moved(cut, k, p)]
        /\ fb' = [fb EXCEPT ![t] = p]
        /\ call' = [call EXCEPT ![t] = [op |-> "alloc", space |-> s,
                                        addr |-> TakenAt(b, n), size |-> n]]
  /\ pc' = [pc EXCEPT ![t] = "frame"]
  /\ UNCHANGED <<end, paging, free, done, frame, allocs>>

\* No entry is large enough: NULL, and nothing has changed.
AllocNoFit(t, s, n) ==
  /\ pc[t] = "idle" /\ Fits(s, n) = {}
  /\ UNCHANGED vars

AllocFrame(t) ==
  /\ pc[t] = "frame" /\ done[t] < call[t].size
  /\ \E f \in free : free' = free \ {f} /\ frame' = [frame EXCEPT ![t] = f]
  /\ pc' = [pc EXCEPT ![t] = "map"]
  /\ UNCHANGED <<tables, paging, call, fb, done, allocs>>

PageAt(t) == call[t].addr + done[t]

\* map_page when the page table is there; a mapping that is present would be
\* overwritten and the TLB flushed.
SetEntry(t, tbl) ==
  /\ pt' = [tbl EXCEPT ![PageAt(t)] = frame[t]]
  /\ tlb' = IF tbl[PageAt(t)] # None THEN [v \in VPage |-> None] ELSE tlb
  /\ done' = [done EXCEPT ![t] = @ + 1]
  /\ frame' = [frame EXCEPT ![t] = None]
  /\ pc' = [pc EXCEPT ![t] = "frame"]
  /\ UNCHANGED <<tables, call, fb, allocs>>

MapPage(t) ==
  /\ pc[t] = "map" /\ pd[TableOf(PageAt(t))] # None
  /\ SetEntry(t, pt)
  /\ UNCHANGED <<pd, free>>

\* map_page allocates the page table first and clears its entries.
MapPageNewTable(t) ==
  /\ pc[t] = "map" /\ pd[TableOf(PageAt(t))] = None
  /\ \E f \in free : /\ free' = free \ {f}
                     /\ pd' = [pd EXCEPT ![TableOf(PageAt(t))] = f]
  /\ SetEntry(t, [v \in VPage |->
                    IF TableOf(v) = TableOf(PageAt(t)) THEN None ELSE pt[v]])

\* Mutant: the frame that could not be mapped is forgotten.
Forgotten(t) == {}

\* free_page(phys_addr) if there is one.
InHand(t) == {frame[t]} \ {None}

\* Mutant: the pages mapped so far are not returned to the range.
OnlyTheRest(t) == call[t].size - done[t]

\* free_block->size += size
GivenBack(t) == call[t].size

\* alloc_page or map_page fails: the range goes back to its entry, which
\* check_upper then moves, and the pages mapped so far are undone.
AllocFails(t) ==
  /\ \/ pc[t] = "frame" /\ done[t] < call[t].size
     \/ pc[t] = "map" /\ pd[TableOf(PageAt(t))] = None
  /\ free = {}
  /\ free' = free \cup InHand(t)
  /\ blocks' = [blocks EXCEPT ![call[t].space][fb[t]].size = @ + GivenBack(t)]
  /\ frame' = [frame EXCEPT ![t] = None]
  /\ call' = [call EXCEPT ![t].op = "undo", ![t].size = done[t]]
  /\ done' = [done EXCEPT ![t] = 0]
  /\ pc' = [pc EXCEPT ![t] = "settle"]
  /\ UNCHANGED <<end, paging, fb, allocs>>

Return(t) ==
  /\ pc' = [pc EXCEPT ![t] = "idle"] /\ call' = [call EXCEPT ![t] = NoCall]
  /\ fb' = [fb EXCEPT ![t] = 0] /\ done' = [done EXCEPT ![t] = 0]
  /\ UNCHANGED frame

RangeOf(t) == [space |-> call[t].space, addr |-> call[t].addr, size |-> call[t].size]

\* All pages are mapped; an entry that is used up is dropped with the end of
\* the table, where it is expected to be.
AllocReturn(t) ==
  /\ pc[t] = "frame" /\ done[t] = call[t].size
  /\ LET s == call[t].space
     IN end' = IF blocks[s][fb[t]].size = 0 THEN [end EXCEPT ![s] = @ - 1] ELSE end
  /\ allocs' = allocs \cup {RangeOf(t)}
  /\ Return(t)
  /\ UNCHANGED <<blocks, paging, free>>

------------------------------------------------------------------------------
(* free_block                                                              *)

Mapped(r) == \A v \in Pages(r) : pt[v] # None

\* Mutant: the end of the table is not checked.
AnySlot(s) == TRUE

HasSlot(s) == end[s] + 1 < SPACE_SIZE

\* Entries next to the range, when the table is full.
Neighbours(r) == {k \in 0..end[r.space] : Adjacent(blocks[r.space][k], r)}

Publish(t, r, k, b) ==
  /\ blocks' = [blocks EXCEPT ![r.space][k] = b]
  /\ fb' = [fb EXCEPT ![t] = k]
  /\ call' = [call EXCEPT ![t] = [op |-> "free", space |-> r.space,
                                  addr |-> r.addr, size |-> r.size]]
  /\ pc' = [pc EXCEPT ![t] = "settle"]
  /\ allocs' = allocs \ {r}
  /\ UNCHANGED <<paging, free, done, frame>>

FreeBlock(t, r) ==
  /\ pc[t] = "idle" /\ Mapped(r) /\ HasSlot(r.space)
  /\ end' = [end EXCEPT ![r.space] = @ + 1]
  /\ Publish(t, r, end[r.space] + 1, [addr |-> r.addr, size |-> r.size])

\* The table is full: the range must extend an entry.
FreeBlockFull(t, r) ==
  /\ pc[t] = "idle" /\ Mapped(r) /\ ~HasSlot(r.space) /\ Neighbours(r) # {}
  /\ LET k == Highest(Neighbours(r))
     IN Publish(t, r, k, Merged(blocks[r.space][k], r))
  /\ UNCHANGED end

\* false: a page is not mapped, or the table is full and nothing is next to
\* the range.  Nothing has changed.
FreeBlockFalse(t, r) ==
  /\ pc[t] = "idle"
  /\ ~Mapped(r) \/ (~HasSlot(r.space) /\ Neighbours(r) = {})
  /\ UNCHANGED vars

------------------------------------------------------------------------------
(* check_upper, called by the rollback and by free_block                   *)

\* check_upper returns at once for a slot that is not in the table.
InTable(t) == fb[t] \in 0..end[call[t].space]

Risen(t) ==
  LET a == blocks[call[t].space] IN Moved(a, fb[t], RisesTo(a, fb[t]))

RisenSlot(t) == RisesTo(blocks[call[t].space], fb[t])

RisenPartners(t) == Partners(Risen(t), end[call[t].space], RisenSlot(t))

\* Merge with the first adjacent entry and start again from it.
SettleMerge(t) ==
  /\ pc[t] = "settle" /\ InTable(t) /\ RisenPartners(t) # {}
  /\ LET s == call[t].space
         a == Risen(t)
         p == RisenSlot(t)
         q == Lowest(RisenPartners(t))
     IN /\ blocks' = [blocks EXCEPT ![s] =
                        Without([a EXCEPT ![q] = Merged(a[q], a[p])], end[s], p)]
        /\ end' = [end EXCEPT ![s] = @ - 1]
        /\ fb' = [fb EXCEPT ![t] = IF q > p THEN q - 1 ELSE q]
  /\ UNCHANGED <<paging, free, pc, call, done, frame, allocs>>

SettleDone(t) ==
  /\ pc[t] = "settle"
  /\ InTable(t) => RisenPartners(t) = {}
  /\ blocks' = IF InTable(t) THEN [blocks EXCEPT ![call[t].space] = Risen(t)]
                             ELSE blocks
  /\ pc' = [pc EXCEPT ![t] = "unmap"]
  /\ UNCHANGED <<end, paging, free, locals, allocs>>

------------------------------------------------------------------------------
(* Unmapping, in the rollback and in free_block: free_page, unmap_page     *)

\* Mutant: the last page is left mapped.
AllButLast(t) == call[t].size - 1

ToUnmap(t) == call[t].size

UnmapPage(t) ==
  /\ pc[t] = "unmap" /\ done[t] < ToUnmap(t)
  /\ free' = free \cup ({pt[PageAt(t)]} \ {None})
  /\ pt' = [pt EXCEPT ![PageAt(t)] = None]
  /\ done' = [done EXCEPT ![t] = @ + 1]
  /\ UNCHANGED <<tables, pd, tlb, pc, call, fb, frame, allocs>>

\* Mutant: the flush is forgotten.
KeptTlb == tlb

Flushed == [v \in VPage |-> None]

\* coalesce() does not change the free frames; then flush_tlb and return.
UnmapReturn(t) ==
  /\ pc[t] = "unmap" /\ done[t] >= ToUnmap(t)
  /\ tlb' = Flushed
  /\ Return(t)
  /\ UNCHANGED <<tables, pd, pt, free, allocs>>

------------------------------------------------------------------------------
\* The processor may cache a present mapping at any time.
TlbFill(v) ==
  /\ pt[v] # None /\ tlb[v] = None
  /\ tlb' = [tlb EXCEPT ![v] = pt[v]]
  /\ UNCHANGED <<tables, pd, pt, free, pc, locals, allocs>>

\* Callers free what they hold, or a page that is no longer mapped.
Unmapped == {[space |-> s, addr |-> v, size |-> 1] : s \in Spaces,
             v \in {u \in VPage : pt[u] = None}}

Call(t) ==
  \/ \E s \in Spaces, n \in Sizes : AllocTake(t, s, n) \/ AllocNoFit(t, s, n)
  \/ \E r \in allocs : FreeBlock(t, r) \/ FreeBlockFull(t, r)
  \/ \E r \in allocs \cup Unmapped : FreeBlockFalse(t, r)

Step(t) == \/ AllocFrame(t) \/ MapPage(t) \/ MapPageNewTable(t)
           \/ AllocFails(t) \/ AllocReturn(t)
           \/ SettleMerge(t) \/ SettleDone(t)
           \/ UnmapPage(t) \/ UnmapReturn(t)

Next == \/ \E t \in Threads : Call(t) \/ Step(t)
        \/ \E v \in VPage : TlbFill(v)

Spec == Init /\ [][Next]_vars

------------------------------------------------------------------------------
(* Properties                                                              *)

Idle == \A t \in Threads : pc[t] = "idle"

\* Every index stays in its table and every thread in its call.
TypeOK ==
  /\ blocks \in [Spaces -> [Slot -> [addr : Nat, size : Nat]]]
  /\ end \in [Spaces -> Slot \cup {-1}]
  /\ pd \in [Table -> Frame \cup {None}]
  /\ pt \in [VPage -> Frame \cup {None}] /\ tlb \in [VPage -> Frame \cup {None}]
  /\ free \in SUBSET Frame
  /\ pc \in [Threads -> {"idle", "frame", "map", "settle", "unmap"}]
  /\ call \in [Threads -> [op : {"none", "alloc", "undo", "free"},
                           space : Spaces, addr : Nat, size : Nat]]
  /\ fb \in [Threads -> Slot] /\ done \in [Threads -> Nat]
  /\ frame \in [Threads -> Frame \cup {None}]
  /\ allocs \in SUBSET Block

Places(f) == {<<"free", 0>> : x \in free \cap {f}}
             \cup {<<"page", v>> : v \in {u \in VPage : pt[u] = f}}
             \cup {<<"table", d>> : d \in {u \in Table : pd[u] = f}}
             \cup {<<"hand", t>> : t \in {u \in Threads : frame[u] = f}}

\* Every physical page is in exactly one place at every step: free, mapped
\* at one virtual page, a page table, or in alloc_block's hand.  Nothing is
\* lost when an allocation fails half way, and nothing is freed twice.
FramesOnce == \A f \in Frame : Cardinality(Places(f)) = 1

Reserved == {RangeOf(t) : t \in {u \in Threads : pc[u] \in {"frame", "map"}}}

\* The free entries of a table, the ranges callers hold and those being
\* mapped tile the space: they never overlap and nothing falls between them.
SpaceTiled ==
  \A s \in Spaces : \A v \in SpaceRange(s) :
    Cardinality({k \in 0..end[s] : v \in Pages(blocks[s][k])})
    + Cardinality({r \in allocs \cup Reserved : r.space = s /\ v \in Pages(r)}) = 1

\* Between calls exactly the pages callers hold are mapped: a failed
\* alloc_block and a free_block leave no page behind.
MappedExactly ==
  Idle => {v \in VPage : pt[v] # None} = UNION {Pages(r) : r \in allocs}

\* Between calls a table is sorted by size, the largest first, and has no
\* empty entry: the search of alloc_block relies on both.
SortedBySize ==
  Idle => \A s \in Spaces : \A k \in 0..end[s] :
            /\ blocks[s][k].size > 0
            /\ k < end[s] => blocks[s][k].size >= blocks[s][k + 1].size

\* alloc_block finds an entry whenever that many contiguous pages of the
\* space are free: free ranges that touch have been merged.
FitsWhenRoom ==
  Idle => \A s \in Spaces : \A v \in SpaceRange(s), n \in 1..SpacePages[s] :
            LET want == v .. (v + n - 1)
            IN  (/\ want \subseteq SpaceRange(s)
                 /\ \A r \in allocs : Pages(r) \cap want = {}) => Fits(s, n) # {}

\* The TLB never holds a stale translation of a page a caller holds, nor any
\* translation of an unmapped page between calls: unmap_page does not flush,
\* every caller of it must.
TlbCoherent ==
  /\ \A r \in allocs : \A v \in Pages(r) : tlb[v] \in {None, pt[v]}
  /\ Idle => \A v \in VPage : tlb[v] \in {None, pt[v]}

\* alloc_block hands out ranges of either space that nobody holds, and
\* free_block takes back what it is given, through every failure in between.
Ranges == INSTANCE RangeAllocator WITH
  Pool <- VPage, held <- {[addr |-> r.addr, size |-> r.size] : r \in allocs}
RangeAllocatorSpec == Ranges!Spec
==============================================================================
