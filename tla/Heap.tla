--------------------------------- MODULE Heap ---------------------------------
(***************************************************************************)
(* The kernel heap (kernel/arch/i386/heap.c): a doubly linked list of      *)
(* blocks, each a header followed by its payload, from which kmalloc cuts  *)
(* the first block that suits and into which kfree merges a block with the *)
(* free blocks it touches.  When no block suits, kmalloc asks alloc_block  *)
(* for pages and appends them to the list.                                 *)
(*                                                                         *)
(* Addresses and sizes are in units of 8 bytes, the alignment of the heap; *)
(* requests are in bytes.  hdr[h] is the header whose first byte is at h:  *)
(* the model holds as long as no two headers in use overlap, which         *)
(* BlocksTile states.  kmalloc masks interrupts and is one step; kfree     *)
(* does not, and is a step per block it merges.                            *)
(***************************************************************************)
EXTENDS Integers, Sequences, FiniteSets

CONSTANTS
  Space,         \* pages of the kernel space that are left for the heap
  InitPages,     \* pages heap_init asks for: 16
  PageUnits,     \* units of a page: 512
  AddressSpace,  \* units of the address space, 2^29: sizes and addresses wrap
  Leftover,      \* what memory holds where the next field of a new region goes
  Sizes          \* bytes callers ask for (a bound of the model)

HEADER == 2      \* sizeof(heap_header_t) is 16 bytes
NULL == 0        \* page 0 is never in Space

UnitsOf(p) == (p * PageUnits) .. (p * PageUnits + PageUnits - 1)
Addr == UNION {UnitsOf(p) : p \in Space}

\* First pages of the runs of n pages in S, one of which alloc_block returns.
Runs(n, S) == {p \in S : p .. (p + n - 1) \subseteq S}

ASSUME HeapAssumption ==
  /\ Space \subseteq Nat \ {0} /\ IsFiniteSet(Space)
  /\ InitPages \in Nat \ {0} /\ Runs(InitPages, Space) # {}
  /\ PageUnits \in Nat /\ PageUnits > HEADER
  /\ AddressSpace \in Nat /\ \A a \in Addr : a < AddressSpace
  /\ Sizes \subseteq 0..(8 * (AddressSpace - PageUnits - HEADER) - 7)

VARIABLES
  hdr,      \* memory, as the headers it holds or once held
  start,    \* start_header
  pages,    \* pages of the heap
  regions,  \* history: first units of the regions alloc_block returned
  live,     \* history: what callers hold
  calls,    \* history: how many allocations have not been freed
  pc,       \* kfree: "idle", or in its loops "prev" and "next"
  cur       \* its current_header

vars == <<hdr, start, pages, regions, live, calls, pc, cur>>

NoHeader == [size |-> 0, status |-> "none", next |-> NULL, prev |-> NULL]

\* heap_init: alloc_block hands out the highest pages first.
Init ==
  \E p \in Runs(InitPages, Space) :
    /\ \A r \in Runs(InitPages, Space) : r <= p
    /\ pages = p .. (p + InitPages - 1)
    /\ start = p * PageUnits /\ regions = {start}
    /\ hdr = [a \in Addr |->
                IF a = start
                THEN [size |-> InitPages * PageUnits - HEADER, status |-> "FREE",
                      next |-> NULL, prev |-> NULL]
                ELSE NoHeader]
    /\ live = {} /\ calls = 0 /\ pc = "idle" /\ cur = NULL

------------------------------------------------------------------------------
(* The list                                                                *)

MaxBlocks == Cardinality(Addr) \div HEADER

\* The blocks from start_header on, as the next fields link them.
List ==
  LET chain[k \in 1..MaxBlocks] ==
        IF k = 1 THEN <<start>>
        ELSE LET l == chain[k - 1]
                 b == hdr[l[Len(l)]].next
             IN  IF b = NULL THEN l ELSE Append(l, b)
  IN  chain[MaxBlocks]

Last == List[Len(List)]

\* One past the last unit of the block at h.
Stop(h) == h + HEADER + hdr[h].size

------------------------------------------------------------------------------
(* kmalloc                                                                 *)

AlignedSize(n) == (n + 7) \div 8

\* Mutant: a used block may be taken.
AnyStatus(h, a) == hdr[h].size = a \/ hdr[h].size >= a + HEADER

Suits(h, a) ==
  /\ hdr[h].status = "FREE"
  /\ hdr[h].size = a \/ hdr[h].size >= a + HEADER

\* The places in the list of the blocks that suit, and the first such block.
Fitting(a) == LET l == List IN {k \in 1..Len(l) : Suits(l[k], a)}
FirstFit(a) == List[CHOOSE k \in Fitting(a) : \A j \in Fitting(a) : k <= j]

Hand(h, n) ==
  /\ live' = live \cup {[addr |-> h + HEADER, bytes |-> n]}
  /\ calls' = calls + 1
  /\ UNCHANGED <<start, pc, cur>>

\* header->size -= size + sizeof(heap_header_t), in 32 bits.
Rest(size, a) == (size - (a + HEADER)) % AddressSpace

LastUnits(h, a, m) == (h + HEADER + Rest(m[h].size, a)) % AddressSpace

\* Mutant: the block after the new one still points to the old one.
NoBackLink(m, b, p) == m

BackLink(m, b, p) == IF b # NULL THEN [m EXCEPT ![b].prev = p] ELSE m

\* split_header: the last a units of the block at h become a used block.
Split(h, a, m) ==
  LET t == LastUnits(h, a, m)
      cut == [m EXCEPT ![h].size = Rest(@, a)]
      new == [cut EXCEPT ![t] = [size |-> a, status |-> "USED", prev |-> h,
                                 next |-> cut[h].next]]
  IN  [BackLink(new, new[t].next, t) EXCEPT ![h].next = t]

TakeExact(n) ==
  /\ pc = "idle" /\ Fitting(AlignedSize(n)) # {}
  /\ LET h == FirstFit(AlignedSize(n))
     IN /\ hdr[h].size = AlignedSize(n)
        /\ hdr' = [hdr EXCEPT ![h].status = "USED"]
        /\ Hand(h, n)
  /\ UNCHANGED <<pages, regions>>

TakeSplit(n) ==
  /\ pc = "idle" /\ Fitting(AlignedSize(n)) # {}
  /\ LET h == FirstFit(AlignedSize(n))
     IN /\ hdr[h].size # AlignedSize(n)
        /\ hdr' = Split(h, AlignedSize(n), hdr)
        /\ Hand(LastUnits(h, AlignedSize(n), hdr), n)
  /\ UNCHANGED <<pages, regions>>

PagesFor(a) == (a + HEADER + PageUnits - 1) \div PageUnits

\* No block suits: the new pages are one free block behind the last one of the
\* list, wherever they lie in memory, and its end is taken.  Its next is not
\* set: it is what the memory holds, which may be a frame in use before.
Grow(n) ==
  LET a == AlignedSize(n)
  IN /\ pc = "idle" /\ Fitting(a) = {}
     /\ \E p \in Runs(PagesFor(a), Space \ pages) :
          LET h == p * PageUnits
              linked == [hdr EXCEPT
                           ![Last].next = h, ![h].prev = Last, ![h].next = Leftover,
                           ![h].status = "FREE",
                           ![h].size = PagesFor(a) * PageUnits - HEADER]
          IN /\ hdr' = Split(h, a, linked)
             /\ pages' = pages \cup (p .. (p + PagesFor(a) - 1))
             /\ regions' = regions \cup {h}
             /\ Hand(LastUnits(h, a, linked), n)

\* alloc_block returns NULL: no range is left, or no frames are.
GrowFails(n) ==
  /\ pc = "idle" /\ Fitting(AlignedSize(n)) = {}
  /\ UNCHANGED vars

------------------------------------------------------------------------------
(* kfree                                                                   *)

\* Callers free what they hold; its header always passes the check of the
\* status.
Free(x) ==
  /\ pc = "idle" /\ hdr[x.addr - HEADER].status \in {"FREE", "USED"}
  /\ hdr' = [hdr EXCEPT ![x.addr - HEADER].status = "FREE"]
  /\ live' = live \ {x} /\ calls' = calls - 1
  /\ pc' = "prev" /\ cur' = x.addr - HEADER
  /\ UNCHANGED <<start, pages, regions>>

\* Mutant: blocks behind the freed one are not merged.
NeverMerged(b) == FALSE

\* The block b follows h in memory, and both are free.
Touches(h, b) ==
  /\ h # NULL /\ b # NULL
  /\ hdr[h].status = "FREE" /\ hdr[b].status = "FREE" /\ Stop(h) = b

\* Mutant: the header of the block that is merged is lost.
PayloadOnly(b) == hdr[b].size

Gained(b) == HEADER + hdr[b].size

\* h takes over the block b behind it.  What is left of b's header is now
\* payload: no call reads it again, and the model forgets it.
Swallow(h, b) ==
  hdr' = BackLink([hdr EXCEPT ![h].size = @ + Gained(b), ![h].next = hdr[b].next,
                              ![b] = NoHeader], hdr[b].next, h)

Prev == hdr[cur].prev

\* Mutant: the loop goes on from the block that was merged away.
Swallowed == cur

Survivor == Prev

MergePrev ==
  /\ pc = "prev" /\ Touches(Prev, cur)
  /\ Swallow(Prev, cur) /\ cur' = Survivor
  /\ UNCHANGED <<start, pages, regions, live, calls, pc>>

PrevDone ==
  /\ pc = "prev" /\ ~Touches(Prev, cur)
  /\ pc' = "next"
  /\ UNCHANGED <<hdr, start, pages, regions, live, calls, cur>>

\* The second loop merges with the block behind while it is free.
MergesNext(b) == Touches(cur, b)

MergeNext ==
  /\ pc = "next" /\ MergesNext(hdr[cur].next)
  /\ Swallow(cur, hdr[cur].next)
  /\ UNCHANGED <<start, pages, regions, live, calls, pc, cur>>

NextDone ==
  /\ pc = "next" /\ ~MergesNext(hdr[cur].next)
  /\ pc' = "idle" /\ cur' = NULL
  /\ UNCHANGED <<hdr, start, pages, regions, live, calls>>

Kmalloc(n) == TakeExact(n) \/ TakeSplit(n) \/ Grow(n) \/ GrowFails(n)
Merging == MergePrev \/ PrevDone \/ MergeNext \/ NextDone

Next == \/ \E n \in Sizes : Kmalloc(n)
        \/ \E x \in live : Free(x)
        \/ Merging

Spec == Init /\ [][Next]_vars

------------------------------------------------------------------------------
(* Properties                                                              *)

\* Sizes and addresses keep their width, and the header kfree works on is a
\* free block of the list.
TypeOK ==
  /\ hdr \in [Addr -> [size : 0..(AddressSpace - 1), status : {"none", "FREE", "USED"},
                       next : Addr \cup {NULL}, prev : Addr \cup {NULL}]]
  /\ start \in Addr /\ pages \in SUBSET Space /\ regions \in SUBSET Addr
  /\ live \in SUBSET [addr : Nat, bytes : Nat] /\ calls \in Nat
  /\ pc \in {"idle", "prev", "next"}
  /\ cur \in Addr \cup {NULL}
  /\ pc # "idle" => hdr[cur].status = "FREE"

Blocks == LET l == List IN {l[k] : k \in 1..Len(l)}

\* The list has each block once, ends, and reads the same backwards.  Its used
\* blocks are exactly what callers hold, each large enough for its request and
\* handed out once, whatever is split or merged around it.
ListLinked ==
  LET l == List
  IN /\ \A j, k \in 1..Len(l) : j # k => l[j] # l[k]
     /\ hdr[start].prev = NULL /\ hdr[l[Len(l)]].next = NULL
     /\ \A k \in 2..Len(l) : hdr[l[k]].prev = l[k - 1]
     /\ {h \in Blocks : hdr[h].status = "USED"} = {x.addr - HEADER : x \in live}
     /\ \A x \in live : 8 * hdr[x.addr - HEADER].size >= x.bytes
     /\ Cardinality(live) = calls

Span(h) == h .. (Stop(h) - 1)

\* "uint32_t size; //Size of usable block, not including header" (heap.h:16):
\* headers and payloads tile the pages of the heap.  No block reaches into
\* another or out of the heap, and no byte is lost.
BlocksTile ==
  LET blocks == Blocks
      used == UNION {UnitsOf(p) : p \in pages}
  IN \A a \in Addr : Cardinality({h \in blocks : a \in Span(h)})
                     = IF a \in used THEN 1 ELSE 0

\* kmalloc hands out bytes of the heap's pages that no caller holds, and kfree
\* takes back what it is given.
Bytes == INSTANCE RangeAllocator WITH
  Pool <- {8 * a + k : a \in Addr, k \in 0..7},
  held <- {[addr |-> 8 * x.addr, size |-> x.bytes] : x \in live}
RangeAllocatorSpec == Bytes!Spec

\* test_heap checks that once everything is freed the list is what it was, in
\* whichever order the blocks were freed: of the cuts kmalloc made none is left.
\* Each block begins where a region of alloc_block begins, so that without
\* growth the list is heap_init's one block again; and none begins where the
\* one before it in the list ends.  This is all kfree sees to: a region that
\* lies below an earlier one follows it in the list and touches it from the
\* other side, and the two stay apart.
MergedWhenFree ==
  LET l == List
  IN (pc = "idle" /\ live = {}) =>
       /\ \A k \in 1..Len(l) : l[k] \in regions
       /\ \A k \in 2..Len(l) : Stop(l[k - 1]) # l[k]
==============================================================================
