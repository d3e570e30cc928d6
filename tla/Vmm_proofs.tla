------------------------------ MODULE Vmm_proofs ------------------------------
(***************************************************************************)
(* Theorems about Vmm, for spaces, tables and machines of any size, with   *)
(* one thread that allocates ranges.                                       *)
(***************************************************************************)
EXTENDS Vmm, FiniteSetTheorems, WellFoundedInduction, TLAPS

------------------------------------------------------------------------------
(***************************************************************************)
(* The inductive invariant.  First that of a table a whose last entry is e *)
(* and whose free pages are rest.                                          *)

Entry == [addr : Nat, size : Nat]
Last == Slot \cup {-1}

\* The entries are apart and cover the free pages.
Tiling(a, e, rest) ==
  /\ \A k \in 0..e : Pages(a[k]) \subseteq rest
  /\ \A k, l \in 0..e : k # l => Pages(a[k]) \cap Pages(a[l]) = {}
  /\ \A v \in rest : \E k \in 0..e : v \in Pages(a[k])

\* The largest first; only the entry at x may be larger than some before it.
Sorted(a, e, x) == \A k, l \in 0..e : k < l /\ l # x => a[k].size >= a[l].size

\* Free ranges that touch have been merged; only the one at x may touch others.
Apart(a, e, x) ==
  \A k, l \in 0..e : k # l /\ k # x /\ l # x => ~Adjacent(a[k], a[l])

\* Only the entry at z may be empty.
Filled(a, e, z) == \A k \in 0..e : a[k].size > 0 \/ k = z

GoodTable(a, e, rest, x, z) ==
  Tiling(a, e, rest) /\ Sorted(a, e, x) /\ Apart(a, e, x) /\ Filled(a, e, z)

\* kernel_main's thread is the one that allocates ranges.
OneCaller == \E t : Threads = {t}
Caller == CHOOSE t \in Threads : TRUE

At(places) == pc[Caller] \in places
C == call[Caller]
K == fb[Caller]
D == done[Caller]

\* The pages of the call that are mapped: those so far, or those left.
MappedPart ==
  IF At({"frame", "map"}) THEN C.addr .. (C.addr + D - 1)
  ELSE IF At({"settle", "unmap"}) THEN (C.addr + D) .. (C.addr + C.size - 1)
  ELSE {}

\* Where alloc_block or free_block is, and what its locals point to.
CallInv ==
  /\ At({"idle", "settle"}) => D = 0
  /\ ~At({"idle"}) => D <= C.size /\ Pages(C) \subseteq SpaceRange(C.space)
  /\ At({"map"}) <=> frame[Caller] # None
  /\ At({"map"}) => D < C.size
  /\ At({"frame", "map", "settle"}) => K \in 0..end[C.space]
  /\ At({"frame", "map"}) =>
       /\ C.size >= 1
       /\ Stop(blocks[C.space][K]) = C.addr
       /\ blocks[C.space][K].size = 0 => K = end[C.space]

\* The ranges callers hold lie in their spaces, apart from each other and
\* from the one that is being mapped or unmapped.
HeldInv ==
  /\ \A r \in allocs : r.size >= 1 /\ Pages(r) \subseteq SpaceRange(r.space)
  /\ \A r, q \in allocs : r # q => Pages(r) \cap Pages(q) = {}
  /\ ~At({"idle"}) => \A r \in allocs : Pages(r) \cap Pages(C) = {}

\* The entry that check_upper is about to move and to merge.
Unsettled(s) == IF At({"settle"}) /\ s = C.space THEN K ELSE -1

\* The entry that alloc_block has cut, and has not dropped yet.
Emptied(s) == IF At({"frame", "map"}) /\ s = C.space THEN K ELSE -1

\* The pages of a space that the ranges of H take.
OfSpace(H, s) == UNION {Pages(r) : r \in {q \in H : q.space = s}}

HeldPages(s) ==
  OfSpace(allocs, s)
  \cup (IF At({"frame", "map"}) /\ s = C.space THEN Pages(C) ELSE {})

TablesInv ==
  \A s \in Spaces : GoodTable(blocks[s], end[s], SpaceRange(s) \ HeldPages(s),
                              Unsettled(s), Emptied(s))

\* What is mapped is held or on its way, and has a page table.
MapInv ==
  /\ \A v \in VPage : pt[v] # None <=> \/ \E r \in allocs : v \in Pages(r)
                                       \/ v \in MappedPart
  /\ \A v \in VPage : pt[v] # None => pd[TableOf(v)] # None

\* Only pages that were just unmapped may be stale in the TLB.
TlbInv ==
  \A v \in VPage : \/ tlb[v] = None \/ tlb[v] = pt[v]
                   \/ At({"unmap"}) /\ v \in C.addr .. (C.addr + D - 1)

\* Each frame has a place, and no two places have the same frame.
FrameInv ==
  /\ \A u, v \in VPage : pt[u] = pt[v] /\ pt[u] # None => u = v
  /\ \A d, e \in Table : pd[d] = pd[e] /\ pd[d] # None => d = e
  /\ \A v \in VPage : pt[v] # None =>
       /\ pt[v] \notin free /\ pt[v] # frame[Caller]
       /\ \A d \in Table : pt[v] # pd[d]
  /\ \A d \in Table : pd[d] # None => pd[d] \notin free /\ pd[d] # frame[Caller]
  /\ frame[Caller] \notin free
  /\ \A f \in Frame : \/ f \in free \/ f = frame[Caller]
                      \/ \E v \in VPage : pt[v] = f
                      \/ \E d \in Table : pd[d] = f

VmmInv == TypeOK /\ CallInv /\ HeldInv /\ TablesInv /\ MapInv /\ TlbInv /\ FrameInv

------------------------------------------------------------------------------
(***************************************************************************)
(* The operators on tables.                                                *)

\* A set of naturals that is not empty has a least element.
LEMMA Least ==
  ASSUME NEW T, T \subseteq Nat, T # {}
  PROVE  \E x \in T : \A y \in T : x <= y
<1> DEFINE U == {0..x : x \in T}
           R == StrictSubsetOrdering(Nat)
<1>1. U # {} /\ U \subseteq FiniteSubsetsOf(Nat)
  <2>1. \A x \in T : IsFiniteSet(0..x) /\ 0..x \subseteq Nat
    BY FS_Interval
  <2> QED
    BY <2>1 DEF FiniteSubsetsOf
<1>2. \E u \in U : \A w \in U : ~ (<<w, u>> \in R)
  <2>1. IsWellFoundedOn(R, FiniteSubsetsOf(Nat))
    BY FS_StrictSubsetOrderingWellFounded
  <2> HIDE DEF U, R
  <2> QED
    BY <1>1, <2>1, WFMin
<1>3. PICK x \in T : \A y \in T : ~ (<<0..y, 0..x>> \in R)
  BY <1>2
<1>4. SUFFICES ASSUME NEW y \in T, y < x PROVE FALSE
  BY <1>3
<1>5. 0..y \subseteq 0..x /\ 0..y # 0..x
  BY <1>4
<1>6. <<0..y, 0..x>> \in R
  BY <1>5 DEF StrictSubsetOrdering
<1> QED
  BY <1>3, <1>6

\* So do the elements below a bound have a greatest.
LEMMA Greatest ==
  ASSUME NEW T, NEW e \in Nat, T \subseteq 0..e, T # {}
  PROVE  \E x \in T : \A y \in T : x >= y
<1> DEFINE U == {e - x : x \in T}
<1>0. \A y \in T : y \in Nat /\ e - y \in Nat
  <2>1. \A y \in 0..e : y \in Nat /\ e - y \in Nat
    OBVIOUS
  <2> QED
    BY <2>1
<1>1. U \subseteq Nat /\ U # {}
  BY <1>0
<1>2. PICK u \in U : \A w \in U : u <= w
  <2> HIDE DEF U
  <2> QED
    BY <1>1, Least
<1>3. PICK x \in T : u = e - x
  BY <1>2
<1>4. \A y \in T : e - x <= e - y
  BY <1>2, <1>3
<1> QED
  BY <1>0, <1>4

\* Lowest and Highest find what they are named for, as the loops do that
\* stop at the first entry that fits.
LEMMA Extremes ==
  ASSUME NEW T, NEW e \in Nat, T \subseteq 0..e, T # {}
  PROVE  /\ Lowest(T) \in T
         /\ Highest(T) \in T /\ \A k \in T : Highest(T) >= k
<1>1. \E x \in T : \A y \in T : x <= y
  <2>1. T \subseteq Nat
    OBVIOUS
  <2> QED
    BY <2>1, Least
<1>2. \E x \in T : \A y \in T : x >= y
  BY Greatest
<1> QED
  BY <1>1, <1>2 DEF Lowest, Highest

\* check_upper raises an entry to a slot below which nothing is smaller.
LEMMA Rises ==
  ASSUME NEW a \in [Slot -> Entry], NEW i \in Slot
  PROVE  LET p == RisesTo(a, i) IN
         /\ p \in 0..i
         /\ p = 0 \/ a[i].size <= a[p - 1].size
         /\ \A k \in p..(i - 1) : a[i].size > a[k].size
<1> DEFINE T == {p \in 0..i : \A k \in p..(i - 1) : a[i].size > a[k].size}
<1>0. i \in Nat /\ 0..i \subseteq Slot
  BY VmmAssumption DEF Slot
<1>1. T \subseteq Nat /\ i \in T
  BY <1>0
<1>2. PICK p \in T : \A y \in T : p <= y
  <2> HIDE DEF T
  <2> QED
    BY <1>1, Least
<1>3. p = 0 \/ a[i].size <= a[p - 1].size
  <2> SUFFICES ASSUME p # 0, ~(a[i].size <= a[p - 1].size) PROVE FALSE
    OBVIOUS
  <2>1. p - 1 \in 0..i /\ p - 1 \in Slot
    BY <1>0, VmmAssumption DEF Slot
  <2>2. a[i].size > a[p - 1].size
    BY <2>1 DEF Entry
  <2>3. \A k \in (p - 1)..(i - 1) : k = p - 1 \/ k \in p..(i - 1)
    BY <1>0
  <2>4. p - 1 \in T
    BY <2>1, <2>2, <2>3
  <2> QED
    BY <1>2, <2>4, <1>0
<1> QED
  BY <1>2, <1>3, <1>0 DEF RisesTo

\* check_lower sinks an entry to a slot above which nothing is larger.
LEMMA Sinks ==
  ASSUME NEW a \in [Slot -> Entry], NEW e \in Slot, NEW i \in 0..e
  PROVE  LET p == SinksTo(a, e, i) IN
         /\ p \in i..e
         /\ p = e \/ a[i].size >= a[p + 1].size
         /\ \A k \in (i + 1)..p : a[i].size < a[k].size
<1> DEFINE T == {p \in i..e : \A k \in (i + 1)..p : a[i].size < a[k].size}
<1>0. i \in Nat /\ e \in Nat /\ 0..e \subseteq Slot
  BY VmmAssumption DEF Slot
<1>1. T \subseteq 0..e /\ i \in T
  BY <1>0
<1>2. PICK p \in T : \A y \in T : p >= y
  <2> HIDE DEF T
  <2> QED
    BY <1>0, <1>1, Greatest
<1>3. p = e \/ a[i].size >= a[p + 1].size
  <2> SUFFICES ASSUME p # e, ~(a[i].size >= a[p + 1].size) PROVE FALSE
    OBVIOUS
  <2>1. p + 1 \in i..e /\ p + 1 \in Slot /\ i \in Slot
    BY <1>0
  <2>2. a[i].size < a[p + 1].size
    BY <2>1 DEF Entry
  <2>3. \A k \in (i + 1)..(p + 1) : k = p + 1 \/ k \in (i + 1)..p
    BY <1>0
  <2>4. p + 1 \in T
    BY <2>1, <2>2, <2>3
  <2> QED
    BY <1>2, <2>4, <1>0
<1> QED
  BY <1>2, <1>3, <1>0 DEF SinksTo

\* Where the entry at slot k was before the one at i moved to p.
Source(i, p, k) == CASE k = p -> i
                     [] i <= k /\ k < p -> k + 1
                     [] p < k /\ k <= i -> k - 1
                     [] OTHER -> k

\* Indices of a table are slots, and slots hold entries.
LEMMA Entries ==
  ASSUME NEW a \in [Slot -> Entry], NEW e \in Last
  PROVE  /\ e \in Int /\ e + 1 \in Nat
         /\ \A k \in 0..e : k \in Slot /\ k \in Nat /\ k <= e /\ e \in Slot
         /\ \A k \in Slot : /\ k \in Nat /\ a[k] \in Entry
                            /\ a[k].addr \in Nat /\ a[k].size \in Nat
BY VmmAssumption DEF Slot, Last, Entry

\* The move is a permutation; the order of two entries that stay is kept.
Rearranges(e, i, p) ==
  /\ \A k \in 0..e : Source(i, p, k) \in 0..e
  /\ \A k, l \in 0..e : k # l => Source(i, p, k) # Source(i, p, l)
  /\ \A k \in 0..e : k # p => Source(i, p, k) # i
  /\ \A k, l \in 0..e : k < l /\ k # p /\ l # p =>
                          Source(i, p, k) < Source(i, p, l)
  /\ \A m \in 0..e : \E k \in 0..e : Source(i, p, k) = m

\* Each entry of a table comes from one slot of it.
LEMMA Sources ==
  ASSUME NEW e \in Int, NEW i \in 0..e, NEW p \in 0..e
  PROVE  Rearranges(e, i, p)
<1>1. i \in Int /\ p \in Int /\ \A k \in 0..e : k \in Int
  OBVIOUS
<1>2. \A k \in 0..e : Source(i, p, k) =
          IF k = p THEN i ELSE IF i <= k /\ k < p THEN k + 1
          ELSE IF p < k /\ k <= i THEN k - 1 ELSE k
  <2> TAKE k \in 0..e
  <2>1. CASE k = p
    BY <1>1, <2>1 DEF Source
  <2>2. CASE k < p /\ i <= k
    BY <1>1, <2>2 DEF Source
  <2>3. CASE k < p /\ ~(i <= k)
    BY <1>1, <2>3 DEF Source
  <2>4. CASE p < k /\ k <= i
    BY <1>1, <2>4 DEF Source
  <2>5. CASE p < k /\ ~(k <= i)
    BY <1>1, <2>5 DEF Source
  <2> QED
    BY <1>1, <2>1, <2>2, <2>3, <2>4, <2>5
<1>3. ASSUME NEW m \in 0..e
      PROVE  \E k \in 0..e : Source(i, p, k) = m
  <2>1. CASE m = i
    BY <1>2, <2>1
  <2>2. CASE m < i /\ p <= m
    <3>1. m + 1 \in 0..e /\ Source(i, p, m + 1) = m
      BY <1>1, <1>2, <2>2
    <3> QED
      BY <3>1
  <2>3. CASE i < m /\ m <= p
    <3>1. m - 1 \in 0..e /\ Source(i, p, m - 1) = m
      BY <1>1, <1>2, <2>3
    <3> QED
      BY <3>1
  <2>4. CASE (m < i /\ m < p) \/ (i < m /\ p < m)
    BY <1>1, <1>2, <2>4
  <2> QED
    BY <1>1, <2>1, <2>2, <2>3, <2>4
<1> QED
  BY <1>1, <1>2, <1>3 DEF Rearranges

\* The table after the move, slot by slot.
LEMMA MovedEntries ==
  ASSUME NEW a \in [Slot -> Entry], NEW e \in Last, NEW i \in 0..e, NEW p \in 0..e
  PROVE  /\ Moved(a, i, p) \in [Slot -> Entry]
         /\ \A k \in 0..e : Moved(a, i, p)[k] = a[Source(i, p, k)]
<1>1. /\ e \in Int /\ i \in Int /\ p \in Int
      /\ \A k \in 0..e : k \in Slot /\ k \in Int
  BY Entries
<1>2. /\ DOMAIN a = Slot
      /\ \A k \in Slot : k \in Int /\ a[k] \in Entry
  BY Entries
<1>3. ASSUME NEW k \in Slot
      PROVE  /\ Moved(a, i, p)[k] = a[Source(i, p, k)]
             /\ Source(i, p, k) \in Slot
  <2>0. Moved(a, i, p)[k] = CASE k = p -> a[i]
                        [] i <= k /\ k < p -> a[k + 1]
                        [] p < k /\ k <= i -> a[k - 1]
                        [] OTHER -> a[k]
    BY <1>2 DEF Moved
  <2>1. CASE k = p
    <3>1. Source(i, p, k) = i
      BY <1>1, <1>2, <2>1 DEF Source
    <3>2. Moved(a, i, p)[k] = a[i]
      BY <1>1, <1>2, <2>1, <2>0
    <3> QED
      BY <3>1, <3>2, <1>1
  <2>2. CASE k < p /\ i <= k
    <3>1. Source(i, p, k) = k + 1
      BY <1>1, <1>2, <2>2 DEF Source
    <3>2. Moved(a, i, p)[k] = a[k + 1]
      BY <1>1, <1>2, <2>2, <2>0
    <3>3. k + 1 \in 0..e
      BY <1>1, <1>2, <2>2
    <3> QED
      BY <3>1, <3>2, <3>3, <1>1
  <2>3. CASE k < p /\ ~(i <= k)
    <3>1. Source(i, p, k) = k
      BY <1>1, <1>2, <2>3 DEF Source
    <3>2. Moved(a, i, p)[k] = a[k]
      BY <1>1, <1>2, <2>3, <2>0
    <3> QED
      BY <3>1, <3>2
  <2>4. CASE p < k /\ k <= i
    <3>1. Source(i, p, k) = k - 1
      BY <1>1, <1>2, <2>4 DEF Source
    <3>2. Moved(a, i, p)[k] = a[k - 1]
      BY <1>1, <1>2, <2>4, <2>0
    <3>3. k - 1 \in 0..e
      BY <1>1, <1>2, <2>4
    <3> QED
      BY <3>1, <3>2, <3>3, <1>1
  <2>5. CASE p < k /\ ~(k <= i)
    <3>1. Source(i, p, k) = k
      BY <1>1, <1>2, <2>5 DEF Source
    <3>2. Moved(a, i, p)[k] = a[k]
      BY <1>1, <1>2, <2>5, <2>0
    <3> QED
      BY <3>1, <3>2
  <2> QED
    BY <1>1, <1>2, <2>1, <2>2, <2>3, <2>4, <2>5
<1>4. Moved(a, i, p) = [k \in Slot |-> Moved(a, i, p)[k]]
  BY <1>2 DEF Moved
<1> QED
  BY <1>1, <1>2, <1>3, <1>4

\* Moving an entry leaves the ranges of the table as they are.
LEMMA MovedTable ==
  ASSUME NEW a \in [Slot -> Entry], NEW e \in Last, NEW i \in 0..e, NEW p \in 0..e,
         NEW rest, Tiling(a, e, rest)
  PROVE  LET b == Moved(a, i, p) IN
         /\ b \in [Slot -> Entry] /\ b[p] = a[i]
         /\ Tiling(b, e, rest)
         /\ Apart(a, e, i) => Apart(b, e, p)
         /\ Apart(a, e, -1) => Apart(b, e, -1)
         /\ Filled(a, e, i) => Filled(b, e, p)
         /\ Filled(a, e, -1) => Filled(b, e, -1)
<1> DEFINE b == Moved(a, i, p)
           src(k) == Source(i, p, k)
<1>0. e \in Int /\ i \in 0..e /\ p \in 0..e
  BY Entries
<1>1. \A k \in 0..e : k >= 0 /\ k # -1
  BY <1>0
<1>2. /\ \A k \in 0..e : src(k) \in 0..e
      /\ \A k, l \in 0..e : k # l => src(k) # src(l)
      /\ \A k \in 0..e : k # p => src(k) # i
      /\ \A m \in 0..e : \E k \in 0..e : src(k) = m
  <2>1. Rearranges(e, i, p)
    BY <1>0, Sources
  <2> QED
    BY <2>1 DEF Rearranges
<1>3. b \in [Slot -> Entry] /\ \A k \in 0..e : b[k] = a[src(k)]
  BY MovedEntries
<1>4. b[p] = a[i]
  BY <1>3 DEF Source
<1> HIDE DEF b, src
<1>5. Tiling(b, e, rest)
  <2>1. \A k \in 0..e : Pages(b[k]) \subseteq rest
    BY <1>2, <1>3 DEF Tiling
  <2>2. ASSUME NEW k \in 0..e, NEW l \in 0..e, k # l
        PROVE  Pages(b[k]) \cap Pages(b[l]) = {}
    <3>1. src(k) \in 0..e /\ src(l) \in 0..e /\ src(k) # src(l)
      BY <1>2, <2>2
    <3>2. b[k] = a[src(k)] /\ b[l] = a[src(l)]
      BY <1>3
    <3> QED
      BY <3>1, <3>2 DEF Tiling
  <2>3. \A v \in rest : \E k \in 0..e : v \in Pages(b[k])
    BY <1>2, <1>3 DEF Tiling
  <2> QED
    BY <2>1, <2>2, <2>3 DEF Tiling
<1>6. Apart(a, e, i) => Apart(b, e, p)
  BY <1>2, <1>3 DEF Apart
<1>7. Apart(a, e, -1) => Apart(b, e, -1)
  BY <1>1, <1>2, <1>3 DEF Apart
<1>8. Filled(a, e, i) => Filled(b, e, p)
  BY <1>2, <1>3 DEF Filled
<1>9. Filled(a, e, -1) => Filled(b, e, -1)
  BY <1>1, <1>2, <1>3 DEF Filled
<1> QED
  BY <1>3, <1>4, <1>5, <1>6, <1>7, <1>8, <1>9 DEF b

\* A table with one entry that is too far up is sorted once it has sunk.
LEMMA SinkSorts ==
  ASSUME NEW a \in [Slot -> Entry], NEW e \in Slot, NEW i \in 0..e,
         \A k, l \in 0..e : k < l /\ k # i => a[k].size >= a[l].size
  PROVE  /\ SinksTo(a, e, i) \in i..e
         /\ Sorted(Moved(a, i, SinksTo(a, e, i)), e, -1)
<1> DEFINE p == SinksTo(a, e, i)
           b == Moved(a, i, p)
           src(k) == Source(i, p, k)
<1>0. e \in Last /\ e \in Int /\ i \in Nat
  BY Entries DEF Last
<1>1. \A k \in 0..e : k \in Nat /\ a[k].size \in Nat
  BY <1>0, Entries
<1>2. /\ p \in i..e
      /\ p = e \/ a[i].size >= a[p + 1].size
      /\ \A k \in (i + 1)..p : a[i].size < a[k].size
  BY Sinks
<1>3. p \in 0..e /\ p \in Nat
  BY <1>0, <1>2
<1>4. /\ \A k \in 0..e : src(k) \in 0..e
      /\ \A k \in 0..e : k # p => src(k) # i
      /\ \A k, l \in 0..e : k < l /\ k # p /\ l # p => src(k) < src(l)
  BY <1>0, <1>3, Sources DEF Rearranges
<1>5. \A k \in 0..e : b[k] = a[src(k)]
  BY <1>0, <1>3, MovedEntries
<1>6. /\ src(p) = i
      /\ \A k \in 0..e : k > p => src(k) = k
      /\ \A k \in 0..e : k < i => src(k) = k
      /\ \A k \in 0..e : i <= k /\ k < p => src(k) = k + 1
  <2>1. src(p) = i
    BY <1>0, <1>3 DEF Source
  <2>2. ASSUME NEW k \in 0..e, k > p PROVE src(k) = k
    BY <1>0, <1>1, <1>2, <1>3, <2>2 DEF Source
  <2>3. ASSUME NEW k \in 0..e, k < i PROVE src(k) = k
    BY <1>0, <1>1, <1>2, <1>3, <2>3 DEF Source
  <2>4. ASSUME NEW k \in 0..e, i <= k, k < p PROVE src(k) = k + 1
    BY <1>0, <1>1, <1>2, <1>3, <2>4 DEF Source
  <2> QED
    BY <2>1, <2>2, <2>3, <2>4
<1> HIDE DEF p, b, src
<1>7. ASSUME NEW k \in 0..e, NEW l \in 0..e, k < l
      PROVE  b[k].size >= b[l].size
  <2>1. CASE k # p /\ l # p
    BY <1>4, <1>5, <1>7, <2>1
  <2>2. CASE k = p
    <3>1. b[l] = a[l] /\ b[k] = a[i]
      BY <1>5, <1>6, <1>7, <2>2
    <3>2. p + 1 \in 0..e /\ p + 1 <= l /\ p + 1 # i /\ p # e
      BY <1>0, <1>1, <1>2, <1>3, <1>7, <2>2
    <3>3. a[p + 1].size >= a[l].size
      BY <1>1, <3>2
    <3> QED
      BY <1>1, <1>2, <3>1, <3>2, <3>3
  <2>3. CASE l = p /\ k < i
    <3>1. b[k] = a[k] /\ b[l] = a[i]
      BY <1>5, <1>6, <2>3
    <3> QED
      BY <1>0, <1>1, <2>3, <3>1
  <2>4. CASE l = p /\ ~(k < i)
    <3>1. b[k] = a[k + 1] /\ b[l] = a[i] /\ k + 1 \in (i + 1)..p /\ k + 1 \in 0..e
      BY <1>0, <1>1, <1>3, <1>5, <1>6, <1>7, <2>4
    <3> QED
      BY <1>1, <1>2, <3>1
  <2> QED
    BY <2>1, <2>2, <2>3, <2>4
<1>8. Sorted(b, e, -1)
  BY <1>7 DEF Sorted
<1> QED
  BY <1>2, <1>8 DEF b, p

\* A table with one entry that is too far down is sorted once it has risen.
LEMMA RiseSorts ==
  ASSUME NEW a \in [Slot -> Entry], NEW e \in Slot, NEW i \in 0..e, Sorted(a, e, i)
  PROVE  /\ RisesTo(a, i) \in 0..i
         /\ Sorted(Moved(a, i, RisesTo(a, i)), e, -1)
<1> DEFINE p == RisesTo(a, i)
           b == Moved(a, i, p)
           src(k) == Source(i, p, k)
<1>0. e \in Last /\ e \in Int /\ i \in Nat /\ i \in Slot
  BY Entries DEF Last
<1>1. \A k \in 0..e : k \in Nat /\ a[k].size \in Nat
  BY <1>0, Entries
<1>2. /\ p \in 0..i
      /\ p = 0 \/ a[i].size <= a[p - 1].size
      /\ \A k \in p..(i - 1) : a[i].size > a[k].size
  BY <1>0, Rises
<1>3. p \in 0..e /\ p \in Nat
  BY <1>0, <1>2
<1>4. /\ \A k \in 0..e : src(k) \in 0..e
      /\ \A k \in 0..e : k # p => src(k) # i
      /\ \A k, l \in 0..e : k < l /\ k # p /\ l # p => src(k) < src(l)
  BY <1>0, <1>3, Sources DEF Rearranges
<1>5. \A k \in 0..e : b[k] = a[src(k)]
  BY <1>0, <1>3, MovedEntries
<1>6. /\ src(p) = i
      /\ \A k \in 0..e : k < p => src(k) = k
      /\ \A k \in 0..e : k > i => src(k) = k
      /\ \A k \in 0..e : p < k /\ k <= i => src(k) = k - 1
  <2>1. src(p) = i
    BY <1>0, <1>3 DEF Source
  <2>2. ASSUME NEW k \in 0..e, k < p PROVE src(k) = k
    BY <1>0, <1>1, <1>2, <1>3, <2>2 DEF Source
  <2>3. ASSUME NEW k \in 0..e, k > i PROVE src(k) = k
    BY <1>0, <1>1, <1>2, <1>3, <2>3 DEF Source
  <2>4. ASSUME NEW k \in 0..e, p < k, k <= i PROVE src(k) = k - 1
    BY <1>0, <1>1, <1>2, <1>3, <2>4 DEF Source
  <2> QED
    BY <2>1, <2>2, <2>3, <2>4
<1> HIDE DEF p, b, src
<1>7. ASSUME NEW k \in 0..e, NEW l \in 0..e, k < l
      PROVE  b[k].size >= b[l].size
  <2>1. CASE k # p /\ l # p
    BY <1>4, <1>5, <1>7, <2>1 DEF Sorted
  <2>2. CASE l = p
    <3>1. b[k] = a[k] /\ b[l] = a[i]
      BY <1>5, <1>6, <1>7, <2>2
    <3>2. p - 1 \in 0..e /\ k <= p - 1 /\ p - 1 # i /\ p # 0
      BY <1>0, <1>1, <1>2, <1>3, <1>7, <2>2
    <3>3. a[k].size >= a[p - 1].size
      BY <1>1, <3>2 DEF Sorted
    <3> QED
      BY <1>1, <1>2, <3>1, <3>2, <3>3
  <2>3. CASE k = p /\ l > i
    <3>1. b[l] = a[l] /\ b[k] = a[i]
      BY <1>5, <1>6, <2>3
    <3> QED
      BY <1>0, <1>1, <2>3, <3>1 DEF Sorted
  <2>4. CASE k = p /\ ~(l > i)
    <3>1. b[l] = a[l - 1] /\ b[k] = a[i] /\ l - 1 \in p..(i - 1) /\ l - 1 \in 0..e
      BY <1>0, <1>1, <1>3, <1>5, <1>6, <1>7, <2>4
    <3> QED
      BY <1>1, <1>2, <3>1
  <2> QED
    BY <2>1, <2>2, <2>3, <2>4
<1>8. Sorted(b, e, -1)
  BY <1>7 DEF Sorted
<1> QED
  BY <1>2, <1>8 DEF b, p

\* A range and the one it touches make up one range.
LEMMA MergedPages ==
  ASSUME NEW b, NEW c, b.addr \in Nat, b.size \in Nat, c.addr \in Nat, c.size \in Nat,
         Adjacent(b, c)
  PROVE  /\ Merged(b, c) \in Entry
         /\ Merged(b, c).size = b.size + c.size
         /\ Pages(Merged(b, c)) = Pages(b) \cup Pages(c)
<1>1. CASE Stop(b) = c.addr
  <2>1. Merged(b, c) = [addr |-> b.addr, size |-> b.size + c.size]
    BY <1>1 DEF Merged
  <2> QED
    BY <1>1, <2>1 DEF Pages, Stop, Entry
<1>2. CASE Stop(b) # c.addr /\ Stop(c) = b.addr
  <2>1. Merged(b, c) = [addr |-> c.addr, size |-> b.size + c.size]
    BY <1>2 DEF Merged
  <2> QED
    BY <1>2, <2>1 DEF Pages, Stop, Entry
<1> QED
  BY <1>1, <1>2 DEF Adjacent

\* alloc_block takes the top n pages of an entry that has them.
LEMMA CutTable ==
  ASSUME NEW a \in [Slot -> Entry], NEW e \in Slot, NEW rest,
         GoodTable(a, e, rest, -1, -1),
         NEW k \in 0..e, NEW n \in Nat \ {0}, a[k].size >= n
  PROVE  LET cut == [a EXCEPT ![k].size = @ - n]
             p == SinksTo(cut, e, k)
             b == Moved(cut, k, p)
             top == TakenAt(a[k], n)
         IN /\ b \in [Slot -> Entry] /\ p \in 0..e
            /\ top \in Nat /\ top .. (top + n - 1) \subseteq rest
            /\ Stop(b[p]) = top
            /\ b[p].size = 0 => p = e
            /\ GoodTable(b, e, rest \ (top .. (top + n - 1)), -1, p)
<1> DEFINE cut == [a EXCEPT ![k].size = @ - n]
           p == SinksTo(cut, e, k)
           b == Moved(cut, k, p)
           top == TakenAt(a[k], n)
           taken == top .. (top + n - 1)
<1>0. e \in Last /\ e \in Nat /\ k \in Slot /\ \A j \in 0..e : j \in Nat /\ j \in Slot
  BY Entries, VmmAssumption DEF Last, Slot
<1>1. \A j \in Slot : a[j].addr \in Nat /\ a[j].size \in Nat
  BY <1>0, Entries
<1>2. /\ cut[k] = [addr |-> a[k].addr, size |-> a[k].size - n]
      /\ \A j \in Slot : j # k => cut[j] = a[j]
      /\ cut \in [Slot -> Entry]
  BY <1>0, <1>1 DEF Entry
<1>3. /\ top \in Nat /\ Stop(cut[k]) = top
      /\ Pages(a[k]) = Pages(cut[k]) \cup taken
      /\ Pages(cut[k]) \cap taken = {}
  <2>1. a[k].addr \in Nat /\ a[k].size \in Nat /\ n \in Nat /\ n <= a[k].size
    BY <1>0, <1>1
  <2>2. cut[k].addr = a[k].addr /\ cut[k].size = a[k].size - n
    BY <1>2
  <2>3. top = (a[k].addr + a[k].size) - n
    BY Zenon DEF TakenAt, Stop
  <2> HIDE DEF cut, top
  <2>4. top \in Nat /\ Stop(cut[k]) = top
    BY <2>1, <2>2, <2>3 DEF Stop
  <2>5. Pages(cut[k]) = a[k].addr .. (top - 1)
    <3>1. cut[k].addr + cut[k].size - 1 = top - 1
      BY <2>1, <2>2, <2>3
    <3> QED
      BY <2>2, <3>1, Zenon DEF Pages
  <2>6. Pages(a[k]) = a[k].addr .. (top + n - 1)
    <3>1. a[k].addr + a[k].size - 1 = top + n - 1
      BY <2>1, <2>3
    <3> QED
      BY <3>1, Zenon DEF Pages
  <2> DEFINE low == a[k].addr
  <2>7. low \in Nat /\ top \in Nat /\ n \in Nat /\ n > 0 /\ low <= top
    BY <2>1, <2>3, <2>4
  <2> HIDE DEF low
  <2>8. (low .. (top - 1)) \cup taken = low .. (top + n - 1)
    BY <2>7
  <2>9. (low .. (top - 1)) \cap taken = {}
    BY <2>7
  <2> USE DEF low
  <2> HIDE DEF taken
  <2> QED
    BY <2>4, <2>5, <2>6, <2>8, <2>9
<1> HIDE DEF cut, top
<1>4. taken \subseteq rest
  BY <1>3 DEF GoodTable, Tiling
<1>5. Tiling(cut, e, rest \ taken)
  <2>1. ASSUME NEW j \in 0..e PROVE Pages(cut[j]) \subseteq rest \ taken
    <3>1. CASE j = k
      BY <1>3, <3>1 DEF GoodTable, Tiling
    <3>2. CASE j # k
      <4>1. cut[j] = a[j] /\ Pages(a[j]) \cap Pages(a[k]) = {} /\ Pages(a[j]) \subseteq rest
        BY <1>0, <1>2, <3>2 DEF GoodTable, Tiling
      <4> QED
        BY <1>3, <4>1
    <3> QED
      BY <3>1, <3>2
  <2>2. ASSUME NEW j \in 0..e, NEW l \in 0..e, j # l
        PROVE  Pages(cut[j]) \cap Pages(cut[l]) = {}
    <3>1. Pages(cut[j]) \subseteq Pages(a[j]) /\ Pages(cut[l]) \subseteq Pages(a[l])
      BY <1>0, <1>2, <1>3
    <3>2. Pages(a[j]) \cap Pages(a[l]) = {}
      BY <2>2 DEF GoodTable, Tiling
    <3> QED
      BY <3>1, <3>2
  <2>3. ASSUME NEW v \in rest \ taken PROVE \E j \in 0..e : v \in Pages(cut[j])
    <3>1. PICK j \in 0..e : v \in Pages(a[j])
      BY DEF GoodTable, Tiling
    <3>2. v \in Pages(cut[j])
      BY <1>0, <1>2, <1>3, <3>1
    <3> QED
      BY <3>2
  <2> HIDE DEF taken
  <2> QED
    BY <2>1, <2>2, <2>3 DEF Tiling
<1>6. \A i, l \in 0..e : i < l /\ i # k => cut[i].size >= cut[l].size
  <2> TAKE i, l \in 0..e
  <2> HAVE i < l /\ i # k
  <2>1. cut[i] = a[i] /\ a[i].size >= a[l].size
    BY <1>0, <1>2 DEF GoodTable, Sorted
  <2>2. cut[l].size <= a[l].size /\ cut[l].size \in Nat
    BY <1>0, <1>1, <1>2 DEF Entry
  <2> QED
    BY <1>0, <1>1, <2>1, <2>2
<1>7. p \in k..e /\ Sorted(b, e, -1)
  BY <1>2, <1>6, SinkSorts
<1>8. p \in 0..e
  BY <1>0, <1>7
<1>9. Apart(cut, e, -1)
  <2> SUFFICES ASSUME NEW i \in 0..e, NEW l \in 0..e, i # l, Adjacent(cut[i], cut[l])
               PROVE  FALSE
    BY DEF Apart
  <2>1. ~Adjacent(a[i], a[l]) /\ ~Adjacent(a[l], a[i])
    BY <1>0 DEF GoodTable, Apart
  <2>2. Pages(a[i]) \cap Pages(a[l]) = {} /\ a[i].size > 0 /\ a[l].size > 0
    BY <1>0 DEF GoodTable, Tiling, Filled
  <2>3. CASE i # k /\ l # k
    BY <1>0, <1>2, <2>1, <2>3
  <2>4. CASE i = k
    <3>1. cut[l] = a[l] /\ cut[i].addr = a[i].addr /\ Stop(cut[i]) = top
      BY <1>0, <1>2, <1>3, <2>4
    <3>2. a[l].addr = top
      BY <2>1, <3>1 DEF Adjacent
    <3>3. a[l].addr \in Pages(a[l]) /\ top \in Pages(a[k])
      BY <1>0, <1>1, <1>3, <2>2 DEF Pages
    <3> QED
      BY <2>2, <2>4, <3>2, <3>3
  <2>5. CASE l = k
    <3>1. cut[i] = a[i] /\ cut[l].addr = a[l].addr /\ Stop(cut[l]) = top
      BY <1>0, <1>2, <1>3, <2>5
    <3>2. a[i].addr = top
      BY <2>1, <3>1 DEF Adjacent
    <3>3. a[i].addr \in Pages(a[i]) /\ top \in Pages(a[k])
      BY <1>0, <1>1, <1>3, <2>2 DEF Pages
    <3> QED
      BY <2>2, <2>5, <3>2, <3>3
  <2> QED
    BY <2>3, <2>4, <2>5
<1>10. Filled(cut, e, k)
  BY <1>0, <1>2 DEF GoodTable, Filled
<1> HIDE DEF taken
<1>11. /\ b \in [Slot -> Entry] /\ b[p] = cut[k]
       /\ Tiling(b, e, rest \ taken) /\ Apart(b, e, -1) /\ Filled(b, e, p)
  BY <1>0, <1>2, <1>5, <1>8, <1>9, <1>10, MovedTable
<1>12. b[p].size = 0 => p = e
  <2> SUFFICES ASSUME b[p].size = 0, p # e PROVE FALSE
    OBVIOUS
  <2>1. p + 1 \in 0..e /\ p + 1 # k /\ p + 1 \in Slot
    BY <1>0, <1>7, <1>8
  <2>2. cut[k].size >= cut[p + 1].size
    BY <1>0, <1>2, <1>7, Sinks
  <2>3. cut[p + 1] = a[p + 1] /\ a[p + 1].size > 0 /\ a[p + 1].size \in Nat
    BY <1>1, <1>2, <2>1 DEF GoodTable, Filled
  <2> QED
    BY <1>11, <2>2, <2>3
<1>13. GoodTable(b, e, rest \ taken, -1, p)
  BY <1>7, <1>11 DEF GoodTable
<1> QED
  BY <1>3, <1>4, <1>8, <1>11, <1>12, <1>13 DEF cut, p, b, top, taken

\* An entry takes in a range next to it, which was not free.
LEMMA GrowTable ==
  ASSUME NEW a \in [Slot -> Entry], NEW e \in Slot, NEW rest, NEW k \in 0..e,
         GoodTable(a, e, rest, -1, k),
         NEW c, c.addr \in Nat, c.size \in Nat \ {0}, Adjacent(a[k], c),
         Pages(c) \cap rest = {}
  PROVE  LET g == [a EXCEPT ![k] = Merged(a[k], c)]
         IN g \in [Slot -> Entry] /\ GoodTable(g, e, rest \cup Pages(c), k, -1)
<1> DEFINE g == [a EXCEPT ![k] = Merged(a[k], c)]
<1>0. e \in Last /\ k \in Slot /\ \A j \in 0..e : j \in Nat /\ j \in Slot
  BY Entries, VmmAssumption DEF Last, Slot
<1>1. \A j \in Slot : a[j].addr \in Nat /\ a[j].size \in Nat
  BY <1>0, Entries
<1>2. /\ Merged(a[k], c) \in Entry
      /\ Merged(a[k], c).size = a[k].size + c.size
      /\ Pages(Merged(a[k], c)) = Pages(a[k]) \cup Pages(c)
  BY <1>0, <1>1, MergedPages
<1>3. /\ g \in [Slot -> Entry]
      /\ g[k].size = a[k].size + c.size /\ Pages(g[k]) = Pages(a[k]) \cup Pages(c)
      /\ \A j \in 0..e : j # k => g[j] = a[j]
  BY <1>0, <1>2
<1> HIDE DEF g
<1>4. Tiling(g, e, rest \cup Pages(c))
  <2>1. \A j \in 0..e : Pages(g[j]) \subseteq rest \cup Pages(c)
    BY <1>3 DEF GoodTable, Tiling
  <2>2. ASSUME NEW j \in 0..e, NEW l \in 0..e, j # l
        PROVE  Pages(g[j]) \cap Pages(g[l]) = {}
    <3>1. /\ Pages(a[j]) \cap Pages(a[l]) = {}
          /\ Pages(a[j]) \subseteq rest /\ Pages(a[l]) \subseteq rest
      BY <2>2 DEF GoodTable, Tiling
    <3>2. CASE j = k
      BY <1>3, <2>2, <3>1, <3>2
    <3>3. CASE j # k
      BY <1>3, <2>2, <3>1, <3>3
    <3> QED
      BY <3>2, <3>3
  <2>3. \A v \in rest \cup Pages(c) : \E j \in 0..e : v \in Pages(g[j])
    <3>1. \A v \in rest : \E j \in 0..e : v \in Pages(a[j])
      BY DEF GoodTable, Tiling
    <3>2. \A j \in 0..e : Pages(a[j]) \subseteq Pages(g[j])
      BY <1>3
    <3> QED
      BY <1>3, <3>1, <3>2
  <2> QED
    BY <2>1, <2>2, <2>3 DEF Tiling
<1>5. Sorted(g, e, k)
  BY <1>0, <1>1, <1>3 DEF GoodTable, Sorted
<1>6. Apart(g, e, k)
  BY <1>0, <1>3 DEF GoodTable, Apart
<1>7. Filled(g, e, -1)
  BY <1>0, <1>1, <1>3 DEF GoodTable, Filled
<1> QED
  BY <1>3, <1>4, <1>5, <1>6, <1>7 DEF GoodTable, g

\* free_block puts a range at the end of the table.
LEMMA AppendTable ==
  ASSUME NEW a \in [Slot -> Entry], NEW e \in Last, NEW rest, e + 1 \in Slot,
         GoodTable(a, e, rest, -1, -1),
         NEW c \in Entry, c.size > 0, Pages(c) \cap rest = {}
  PROVE  LET g == [a EXCEPT ![e + 1] = c]
         IN /\ g \in [Slot -> Entry]
            /\ GoodTable(g, e + 1, rest \cup Pages(c), e + 1, -1)
<1> DEFINE g == [a EXCEPT ![e + 1] = c]
<1>0. /\ e \in Int
      /\ \A j \in 0..e : j # e + 1
      /\ \A j \in 0..(e + 1) : j # e + 1 => j \in 0..e
      /\ \A j \in 0..e : j \in 0..(e + 1)
      /\ e + 1 \in 0..(e + 1)
      /\ \A j \in 0..(e + 1) : j >= 0 /\ j <= e + 1 /\ j \in Int
  BY Entries
<1>1. /\ g \in [Slot -> Entry] /\ g[e + 1] = c
      /\ \A j \in 0..e : g[j] = a[j] /\ j \in Slot
  BY <1>0, Entries
<1> HIDE DEF g
<1>2. Tiling(g, e + 1, rest \cup Pages(c))
  <2>1. \A j \in 0..(e + 1) : Pages(g[j]) \subseteq rest \cup Pages(c)
    BY <1>0, <1>1 DEF GoodTable, Tiling
  <2>2. ASSUME NEW j \in 0..(e + 1), NEW l \in 0..(e + 1), j # l
        PROVE  Pages(g[j]) \cap Pages(g[l]) = {}
    <3>1. CASE j = e + 1
      <4>1. l \in 0..e /\ g[l] = a[l] /\ g[j] = c
        BY <1>0, <1>1, <2>2, <3>1
      <4> QED
        BY <4>1 DEF GoodTable, Tiling
    <3>2. CASE l = e + 1
      <4>1. j \in 0..e /\ g[j] = a[j] /\ g[l] = c
        BY <1>0, <1>1, <2>2, <3>2
      <4> QED
        BY <4>1 DEF GoodTable, Tiling
    <3>3. CASE j # e + 1 /\ l # e + 1
      <4>1. j \in 0..e /\ l \in 0..e /\ g[j] = a[j] /\ g[l] = a[l]
        BY <1>0, <1>1, <3>3
      <4> QED
        BY <2>2, <4>1 DEF GoodTable, Tiling
    <3> QED
      BY <3>1, <3>2, <3>3
  <2>3. \A v \in rest \cup Pages(c) : \E j \in 0..(e + 1) : v \in Pages(g[j])
    <3>1. \A v \in rest : \E j \in 0..e : v \in Pages(a[j])
      BY DEF GoodTable, Tiling
    <3> QED
      BY <1>0, <1>1, <3>1
  <2> QED
    BY <2>1, <2>2, <2>3 DEF Tiling
<1>3. Sorted(g, e + 1, e + 1)
  <2> SUFFICES ASSUME NEW j \in 0..(e + 1), NEW l \in 0..(e + 1), j < l, l # e + 1
               PROVE  g[j].size >= g[l].size
    BY DEF Sorted
  <2>1. j \in 0..e /\ l \in 0..e /\ l # -1
    BY <1>0
  <2> QED
    BY <1>1, <2>1 DEF GoodTable, Sorted
<1>4. Apart(g, e + 1, e + 1)
  <2> SUFFICES ASSUME NEW j \in 0..(e + 1), NEW l \in 0..(e + 1), j # l,
                      j # e + 1, l # e + 1
               PROVE  ~Adjacent(g[j], g[l])
    BY DEF Apart
  <2>1. j \in 0..e /\ l \in 0..e /\ j # -1 /\ l # -1
    BY <1>0
  <2> QED
    BY <1>1, <2>1 DEF GoodTable, Apart
<1>5. Filled(g, e + 1, -1)
  <2> SUFFICES ASSUME NEW j \in 0..(e + 1) PROVE g[j].size > 0
    BY DEF Filled
  <2>1. CASE j = e + 1
    BY <1>1, <2>1
  <2>2. CASE j # e + 1
    <3>1. j \in 0..e /\ j # -1
      BY <1>0, <2>2
    <3> QED
      BY <1>1, <3>1 DEF GoodTable, Filled
  <2> QED
    BY <2>1, <2>2
<1> QED
  BY <1>1, <1>2, <1>3, <1>4, <1>5 DEF GoodTable, g

\* check_upper merges the entry at p into the one at q, and takes p out.
LEMMA MergeTable ==
  ASSUME NEW a \in [Slot -> Entry], NEW e \in Slot, NEW rest,
         NEW p \in 0..e, NEW q \in 0..e, p # q,
         GoodTable(a, e, rest, p, -1), Sorted(a, e, -1), Adjacent(a[q], a[p])
  PROVE  LET b == Without([a EXCEPT ![q] = Merged(a[q], a[p])], e, p)
             w == IF q > p THEN q - 1 ELSE q
         IN /\ b \in [Slot -> Entry] /\ w \in 0..(e - 1)
            /\ GoodTable(b, e - 1, rest, w, -1)
<1> DEFINE g == [a EXCEPT ![q] = Merged(a[q], a[p])]
           b == Without(g, e, p)
           w == IF q > p THEN q - 1 ELSE q
           src(k) == IF p <= k THEN k + 1 ELSE k
<1>0. /\ e \in Last /\ e \in Nat /\ p \in Nat /\ q \in Nat /\ p \in Slot /\ q \in Slot
      /\ \A j \in 0..e : j \in Nat /\ j \in Slot /\ j <= e
      /\ \A j \in 0..(e - 1) : j \in Nat /\ j \in 0..e
  BY Entries, VmmAssumption DEF Last, Slot
<1>1. \A j \in Slot : a[j].addr \in Nat /\ a[j].size \in Nat
  BY <1>0, Entries
<1>2. /\ Merged(a[q], a[p]) \in Entry
      /\ Merged(a[q], a[p]).size = a[q].size + a[p].size
      /\ Pages(Merged(a[q], a[p])) = Pages(a[q]) \cup Pages(a[p])
  BY <1>0, <1>1, MergedPages
<1>3. /\ g \in [Slot -> Entry]
      /\ g[q].size = a[q].size + a[p].size /\ Pages(g[q]) = Pages(a[q]) \cup Pages(a[p])
      /\ \A j \in Slot : j # q => g[j] = a[j]
  BY <1>0, <1>2
<1> HIDE DEF g
<1>4. /\ b \in [Slot -> Entry]
      /\ \A k \in 0..(e - 1) : b[k] = g[src(k)]
  <2>1. \A k \in Slot : k \in Nat /\ b[k] = IF p <= k /\ k < e THEN g[k + 1] ELSE g[k]
    BY <1>0, <1>3, Entries DEF Without
  <2>2. \A k \in Slot : k < e => k + 1 \in Slot
    BY <1>0, <2>1
  <2>3. b = [k \in Slot |-> b[k]]
    BY <1>3 DEF Without
  <2>4. \A k \in 0..(e - 1) : k < e /\ k \in Slot
    BY <1>0
  <2> HIDE DEF b
  <2> QED
    BY <1>3, <2>1, <2>2, <2>3, <2>4
<1>5. /\ \A k \in 0..(e - 1) : src(k) \in 0..e /\ src(k) # p
      /\ \A k, l \in 0..(e - 1) : k < l => src(k) < src(l)
      /\ \A k, l \in 0..(e - 1) : k # l => src(k) # src(l)
  BY <1>0
<1>6. w \in 0..(e - 1) /\ src(w) = q
  BY <1>0
<1>7. \A m \in 0..e : m # p => \E k \in 0..(e - 1) : src(k) = m
  <2> SUFFICES ASSUME NEW m \in 0..e, m # p
               PROVE  \E k \in 0..(e - 1) : src(k) = m
    OBVIOUS
  <2>1. CASE m < p
    BY <1>0, <2>1
  <2>2. CASE p < m
    <3>1. m - 1 \in 0..(e - 1) /\ src(m - 1) = m
      BY <1>0, <2>2
    <3> QED
      BY <3>1
  <2> QED
    BY <1>0, <2>1, <2>2
<1> HIDE DEF b, w, src
<1>8. \A k \in 0..(e - 1) : k # w => src(k) # q /\ b[k] = a[src(k)]
  BY <1>0, <1>3, <1>4, <1>5, <1>6
<1>9. b[w] = g[q]
  BY <1>4, <1>6
<1>10. Tiling(b, e - 1, rest)
  <2>1. ASSUME NEW k \in 0..(e - 1) PROVE Pages(b[k]) \subseteq rest
    <3>1. CASE k = w
      BY <1>3, <1>9, <3>1 DEF GoodTable, Tiling
    <3>2. CASE k # w
      BY <1>5, <1>8, <3>2 DEF GoodTable, Tiling
    <3> QED
      BY <3>1, <3>2
  <2>2. ASSUME NEW k \in 0..(e - 1), k # w PROVE Pages(b[k]) \cap Pages(b[w]) = {}
    <3>1. src(k) \in 0..e /\ src(k) # q /\ src(k) # p
      BY <1>5, <1>8, <2>2
    <3>2. /\ Pages(a[src(k)]) \cap Pages(a[q]) = {}
          /\ Pages(a[src(k)]) \cap Pages(a[p]) = {}
      BY <3>1 DEF GoodTable, Tiling
    <3> QED
      BY <1>3, <1>8, <1>9, <2>2, <3>2
  <2>3. ASSUME NEW k \in 0..(e - 1), NEW l \in 0..(e - 1), k # l, k # w, l # w
        PROVE  Pages(b[k]) \cap Pages(b[l]) = {}
    <3>1. src(k) \in 0..e /\ src(l) \in 0..e /\ src(k) # src(l)
      BY <1>5, <2>3
    <3>2. b[k] = a[src(k)] /\ b[l] = a[src(l)]
      BY <1>8, <2>3
    <3> QED
      BY <3>1, <3>2 DEF GoodTable, Tiling
  <2>4. \A k, l \in 0..(e - 1) : k # l => Pages(b[k]) \cap Pages(b[l]) = {}
    BY <2>2, <2>3
  <2>5. ASSUME NEW v \in rest PROVE \E k \in 0..(e - 1) : v \in Pages(b[k])
    <3>1. PICK m \in 0..e : v \in Pages(a[m])
      BY DEF GoodTable, Tiling
    <3>2. CASE m \in {p, q}
      BY <1>3, <1>6, <1>9, <3>1, <3>2
    <3>3. CASE m \notin {p, q}
      <4>1. PICK k \in 0..(e - 1) : src(k) = m
        BY <1>7, <3>3
      <4> QED
        BY <1>6, <1>8, <3>1, <3>3, <4>1
    <3> QED
      BY <3>2, <3>3
  <2> QED
    BY <2>1, <2>4, <2>5 DEF Tiling
<1>11. Sorted(b, e - 1, w)
  <2> SUFFICES ASSUME NEW k \in 0..(e - 1), NEW l \in 0..(e - 1), k < l, l # w
               PROVE  b[k].size >= b[l].size
    BY DEF Sorted
  <2>1. src(k) \in 0..e /\ src(l) \in 0..e /\ src(k) < src(l) /\ src(l) # -1
    BY <1>0, <1>5
  <2>2. a[src(k)].size >= a[src(l)].size
    BY <2>1 DEF Sorted
  <2>3. b[l] = a[src(l)]
    BY <1>8
  <2>4. CASE k # w
    BY <1>8, <2>2, <2>3, <2>4
  <2>5. CASE k = w
    <3>1. b[k].size = a[q].size + a[p].size /\ src(k) = q
      BY <1>3, <1>6, <1>9, <2>5
    <3>2. a[q].size \in Nat /\ a[p].size \in Nat /\ a[src(l)].size \in Nat
      BY <1>0, <1>1, <2>1
    <3> QED
      BY <2>2, <2>3, <3>1, <3>2
  <2> QED
    BY <2>4, <2>5
<1>12. Apart(b, e - 1, w)
  <2> SUFFICES ASSUME NEW k \in 0..(e - 1), NEW l \in 0..(e - 1), k # l, k # w, l # w
               PROVE  ~Adjacent(b[k], b[l])
    BY DEF Apart
  <2>1. /\ src(k) \in 0..e /\ src(l) \in 0..e /\ src(k) # src(l)
        /\ src(k) # p /\ src(l) # p
    BY <1>5
  <2>2. b[k] = a[src(k)] /\ b[l] = a[src(l)]
    BY <1>8
  <2> QED
    BY <2>1, <2>2 DEF GoodTable, Apart
<1>13. Filled(b, e - 1, -1)
  <2> SUFFICES ASSUME NEW k \in 0..(e - 1) PROVE b[k].size > 0
    BY DEF Filled
  <2>1. \A m \in 0..e : a[m].size > 0 /\ a[m].size \in Nat
    BY <1>0, <1>1 DEF GoodTable, Filled
  <2>2. CASE k = w
    BY <1>3, <1>9, <2>1, <2>2
  <2>3. CASE k # w
    BY <1>5, <1>8, <2>1, <2>3
  <2> QED
    BY <2>2, <2>3
<1> QED
  BY <1>4, <1>6, <1>10, <1>11, <1>12, <1>13 DEF GoodTable, g, b, w

\* check_upper moves the entry and goes on only if it touches another.
LEMMA RiseTable ==
  ASSUME NEW a \in [Slot -> Entry], NEW e \in Slot, NEW rest, NEW i \in 0..e,
         GoodTable(a, e, rest, i, -1)
  PROVE  LET p == RisesTo(a, i)
             b == Moved(a, i, p)
         IN /\ b \in [Slot -> Entry] /\ p \in 0..e
            /\ GoodTable(b, e, rest, p, -1) /\ Sorted(b, e, -1)
            /\ Partners(b, e, p) = {} => GoodTable(b, e, rest, -1, -1)
<1> DEFINE p == RisesTo(a, i)
           b == Moved(a, i, p)
<1>0. e \in Last /\ e \in Nat /\ i \in Nat
  BY Entries, VmmAssumption DEF Last, Slot
<1>1. p \in 0..i /\ Sorted(b, e, -1)
  BY RiseSorts DEF GoodTable
<1>2. p \in 0..e
  BY <1>0, <1>1
<1> HIDE DEF p, b
<1>3. /\ b \in [Slot -> Entry] /\ Tiling(b, e, rest)
      /\ Apart(b, e, p) /\ Filled(b, e, -1)
  BY <1>0, <1>2, MovedTable DEF GoodTable, b
<1>4. Sorted(b, e, p)
  <2>1. \A k \in 0..e : k # -1
    BY <1>0
  <2> QED
    BY <1>1, <2>1 DEF Sorted
<1>5. ASSUME Partners(b, e, p) = {} PROVE Apart(b, e, -1)
  <2>1. \A k \in 0..e : k # p => ~Adjacent(b[k], b[p]) /\ ~Adjacent(b[p], b[k])
    BY <1>5 DEF Partners, Adjacent
  <2> QED
    BY <1>3, <2>1 DEF Apart
<1> QED
  BY <1>1, <1>2, <1>3, <1>4, <1>5 DEF GoodTable, p, b

\* alloc_block drops its entry when that is used up, and keeps it if not.
LEMMA DropTable ==
  ASSUME NEW a \in [Slot -> Entry], NEW e \in Slot, NEW rest, NEW k \in 0..e,
         GoodTable(a, e, rest, -1, k)
  PROVE  /\ a[k].size # 0 => GoodTable(a, e, rest, -1, -1)
         /\ a[k].size = 0 /\ k = e => GoodTable(a, e - 1, rest, -1, -1)
<1>0. /\ e \in Last /\ e \in Nat /\ k \in Slot
      /\ \A j \in 0..e : j \in Slot
      /\ \A j \in 0..(e - 1) : j \in 0..e /\ j # e
      /\ \A j \in 0..e : j # e => j \in 0..(e - 1)
  BY Entries, VmmAssumption DEF Last, Slot
<1>1. \A j \in Slot : a[j].addr \in Nat /\ a[j].size \in Nat
  BY <1>0, Entries
<1>2. a[k].size # 0 => Filled(a, e, -1)
  BY <1>0, <1>1 DEF GoodTable, Filled
<1>3. ASSUME a[k].size = 0, k = e PROVE GoodTable(a, e - 1, rest, -1, -1)
  <2>1. Pages(a[e]) = {}
    BY <1>0, <1>1, <1>3 DEF Pages
  <2>2. Tiling(a, e - 1, rest)
    <3>1. \A v \in rest : \E j \in 0..(e - 1) : v \in Pages(a[j])
      BY <1>0, <2>1 DEF GoodTable, Tiling
    <3> QED
      BY <1>0, <3>1 DEF GoodTable, Tiling
  <2>3. Sorted(a, e - 1, -1)
    BY <1>0 DEF GoodTable, Sorted
  <2>4. Apart(a, e - 1, -1)
    BY <1>0 DEF GoodTable, Apart
  <2>5. Filled(a, e - 1, -1)
    BY <1>0, <1>3 DEF GoodTable, Filled
  <2> QED
    BY <2>2, <2>3, <2>4, <2>5 DEF GoodTable
<1> QED
  BY <1>2, <1>3 DEF GoodTable

------------------------------------------------------------------------------
(***************************************************************************)
(* The steps keep the invariant, one lemma for each.                       *)

\* What TypeOK says of the caller's locals and of a table.
LEMMA Types ==
  ASSUME OneCaller, TypeOK
  PROVE  /\ Threads = {Caller} /\ Caller \in Threads
         /\ pc[Caller] \in {"idle", "frame", "map", "settle", "unmap"}
         /\ C.space \in Spaces /\ C.addr \in Nat /\ C.size \in Nat
         /\ K \in Slot /\ D \in Nat /\ frame[Caller] \in Frame \cup {None}
         /\ \A s \in Spaces : blocks[s] \in [Slot -> Entry] /\ end[s] \in Last
         /\ \A r \in allocs : r.space \in Spaces /\ r.addr \in Nat /\ r.size \in Nat
<1>1. Threads = {Caller} /\ Caller \in Threads
  BY DEF OneCaller, Caller
<1> QED
  BY <1>1 DEF TypeOK, Entry, Last, Block, C, K, D

\* The pages of a space are its own, and each has an entry in a page table.
LEMMA Space ==
  /\ \A s \in Spaces : SpaceRange(s) \subseteq VPage /\ SpaceRange(s) \subseteq Nat
  /\ \A s, u \in Spaces : s # u => SpaceRange(s) \cap SpaceRange(u) = {}
  /\ \A v \in VPage : TableOf(v) \in Table
<1>1. \A s \in Spaces : SpaceStart[s] \in Nat /\ SpacePages[s] \in Nat
  BY VmmAssumption
<1> QED
  BY <1>1, VmmAssumption DEF VPage, SpaceRange, Table

\* alloc_block takes the top pages of an entry and starts to map them.
LEMMA AllocTakeKeeps ==
  ASSUME OneCaller, VmmInv, NEW s \in Spaces, NEW n \in Sizes, AllocTake(Caller, s, n)
  PROVE  VmmInv'
<1> DEFINE a == blocks[s]
           e == end[s]
           k == Highest(Fits(s, n))
           cut == [a EXCEPT ![k].size = @ - n]
           p == SinksTo(cut, e, k)
           b == Moved(cut, k, p)
           top == TakenAt(a[k], n)
           rest == SpaceRange(s) \ HeldPages(s)
           call1 == [op |-> "alloc", space |-> s, addr |-> top, size |-> n]
<1>0. TypeOK /\ CallInv /\ HeldInv /\ TablesInv /\ MapInv /\ TlbInv /\ FrameInv
  BY DEF VmmInv
<1>1. /\ Threads = {Caller} /\ Caller \in Threads /\ a \in [Slot -> Entry] /\ e \in Last
      /\ n \in Nat \ {0}
      /\ \A r \in allocs : r.space \in Spaces
  BY <1>0, Types, VmmAssumption
<1>2. /\ pc[Caller] = "idle" /\ Fits(s, n) # {}
      /\ blocks' = [blocks EXCEPT ![s] = b]
      /\ fb' = [fb EXCEPT ![Caller] = p]
      /\ call' = [call EXCEPT ![Caller] = call1]
      /\ pc' = [pc EXCEPT ![Caller] = "frame"]
      /\ UNCHANGED <<end, pd, pt, tlb, free, done, frame, allocs>>
  BY DEF AllocTake, paging
<1>3. k \in 0..e /\ a[k].size >= n /\ e \in Slot
  <2>1. Fits(s, n) \subseteq 0..e
    BY DEF Fits
  <2>2. e \in Slot /\ e \in Nat
    <3>1. 0..e # {}
      BY <1>2, <2>1
    <3>2. e # -1
      BY <3>1
    <3> QED
      BY <1>1, <3>2, VmmAssumption DEF Last, Slot
  <2>3. k \in Fits(s, n)
    BY <1>2, <2>1, <2>2, Extremes
  <2> QED
    BY <2>2, <2>3 DEF Fits
<1>4. GoodTable(a, e, rest, -1, -1)
  BY <1>0, <1>2 DEF TablesInv, Unsettled, Emptied, At
<1> HIDE DEF k, rest, a, e
<1>5. /\ b \in [Slot -> Entry] /\ p \in 0..e
      /\ top \in Nat /\ top .. (top + n - 1) \subseteq rest
      /\ Stop(b[p]) = top
      /\ b[p].size = 0 => p = e
      /\ GoodTable(b, e, rest \ (top .. (top + n - 1)), -1, p)
  BY <1>1, <1>3, <1>4, CutTable
<1> HIDE DEF p, b, top
<1>6. /\ C' = call1 /\ K' = p /\ D' = D /\ pc'[Caller] = "frame"
      /\ C'.space = s /\ C'.addr = top /\ C'.size = n
      /\ Pages(C') = top .. (top + n - 1)
      /\ blocks'[s] = b /\ \A u \in Spaces : u # s => blocks'[u] = blocks[u]
      /\ p \in Slot
  <2>1. C' = call1 /\ K' = p /\ D' = D /\ pc'[Caller] = "frame"
    BY <1>0, <1>1, <1>2 DEF C, K, D, TypeOK
  <2>2. blocks'[s] = b /\ \A u \in Spaces : u # s => blocks'[u] = blocks[u]
    BY <1>0, <1>2 DEF TypeOK
  <2>3. p \in Slot
    BY <1>1, <1>5, Entries
  <2> QED
    BY <2>1, <2>2, <2>3 DEF Pages
<1>7. TypeOK'
  <2>1. call1 \in [op : {"none", "alloc", "undo", "free"},
                   space : Spaces, addr : Nat, size : Nat]
    BY <1>1, <1>5
  <2>2. blocks' \in [Spaces -> [Slot -> [addr : Nat, size : Nat]]]
    BY <1>0, <1>2, <1>5 DEF TypeOK, Entry
  <2> HIDE DEF call1
  <2> QED
    BY <1>0, <1>1, <1>2, <1>6, <2>1, <2>2 DEF TypeOK
<1>8. rest \subseteq SpaceRange(s) /\ rest \cap OfSpace(allocs, s) = {}
  BY <1>2 DEF rest, HeldPages
<1>9. CallInv'
  <2>1. D = 0 /\ frame'[Caller] = None
    BY <1>0, <1>2 DEF CallInv, At
  <2>2. end' = end /\ e = end[s]
    BY <1>2 DEF e
  <2> QED
    BY <1>1, <1>5, <1>6, <1>8, <2>1, <2>2 DEF CallInv, At
<1>10. HeldInv'
  <2>1. \A r \in allocs : Pages(r) \cap Pages(C') = {}
    <3> TAKE r \in allocs
    <3>1. Pages(C') \subseteq rest
      BY <1>5, <1>6
    <3>2. CASE r.space = s
      BY <1>8, <3>1, <3>2 DEF OfSpace
    <3>3. CASE r.space # s
      BY <1>0, <1>1, <1>8, <3>1, <3>3, Space DEF HeldInv
    <3> QED
      BY <3>2, <3>3
  <2> QED
    BY <1>0, <1>2, <2>1 DEF HeldInv
<1>11. TablesInv'
  <2>1. SpaceRange(s) \ HeldPages(s)' = rest \ (top .. (top + n - 1))
    BY <1>2, <1>6 DEF rest, HeldPages, At
  <2>2. Unsettled(s)' = -1 /\ Emptied(s)' = p
    BY <1>6 DEF Unsettled, Emptied, At
  <2>3. ASSUME NEW u \in Spaces, u # s
        PROVE  /\ HeldPages(u)' = HeldPages(u) /\ Unsettled(u)' = Unsettled(u)
               /\ Emptied(u)' = Emptied(u)
    BY <1>2, <1>6, <2>3 DEF HeldPages, Unsettled, Emptied, At
  <2>4. blocks'[s] = b /\ end'[s] = e
    BY <1>2, <1>6 DEF e
  <2>5. GoodTable(blocks'[s], end'[s], SpaceRange(s) \ HeldPages(s)',
                  Unsettled(s)', Emptied(s)')
    BY <1>5, <2>1, <2>2, <2>4
  <2>6. ASSUME NEW u \in Spaces, u # s
        PROVE  GoodTable(blocks'[u], end'[u], SpaceRange(u) \ HeldPages(u)',
                         Unsettled(u)', Emptied(u)')
    BY <1>0, <1>2, <1>6, <2>3, <2>6 DEF TablesInv
  <2> QED
    BY <2>5, <2>6 DEF TablesInv
<1>12. MapInv'
  <2>1. MappedPart = {} /\ MappedPart' = {}
    <3>1. D = 0
      BY <1>0, <1>2 DEF CallInv, At
    <3>2. top .. (top + 0 - 1) = {}
      BY <1>5
    <3> QED
      BY <1>2, <1>6, <3>1, <3>2 DEF MappedPart, At
  <2> QED
    BY <1>0, <1>2, <2>1 DEF MapInv
<1>13. TlbInv'
  BY <1>0, <1>2, <1>6 DEF TlbInv, At
<1>14. FrameInv'
  BY <1>0, <1>2 DEF FrameInv
<1> QED
  BY <1>7, <1>9, <1>10, <1>11, <1>12, <1>13, <1>14 DEF VmmInv

\* A step that leaves the tables and the call alone keeps what they satisfy.
LEMMA SameCall ==
  ASSUME OneCaller, VmmInv, UNCHANGED <<blocks, end, call, fb, allocs>>,
         pc[Caller] \in {"frame", "map"}, pc'[Caller] \in {"frame", "map"}
  PROVE  HeldInv' /\ TablesInv'
<1>1. At({"frame", "map"})' /\ At({"frame", "map"}) /\ C' = C /\ K' = K
  BY DEF At, C, K
<1>2. ~At({"idle"})' /\ ~At({"idle"}) /\ ~At({"settle"})' /\ ~At({"settle"})
  BY DEF At
<1>3. HeldInv'
  BY <1>1, <1>2 DEF VmmInv, HeldInv
<1>4. \A s \in Spaces : /\ HeldPages(s)' = HeldPages(s)
                        /\ Unsettled(s)' = Unsettled(s) /\ Emptied(s)' = Emptied(s)
  BY <1>1, <1>2 DEF HeldPages, Unsettled, Emptied
<1>5. TablesInv'
  BY <1>4 DEF VmmInv, TablesInv
<1> QED
  BY <1>3, <1>5

\* alloc_page gives alloc_block a frame.
LEMMA AllocFrameKeeps ==
  ASSUME OneCaller, VmmInv, AllocFrame(Caller)
  PROVE  VmmInv'
<1>0. TypeOK /\ CallInv /\ MapInv /\ TlbInv /\ FrameInv
  BY DEF VmmInv
<1>1. Threads = {Caller} /\ Caller \in Threads /\ C.size \in Nat /\ D \in Nat
  BY <1>0, Types
<1>2. PICK f \in free : free' = free \ {f} /\ frame' = [frame EXCEPT ![Caller] = f]
  BY DEF AllocFrame
<1>3. /\ pc[Caller] = "frame" /\ D < C.size
      /\ pc' = [pc EXCEPT ![Caller] = "map"]
      /\ UNCHANGED <<blocks, end, pd, pt, tlb, call, fb, done, allocs>>
  BY DEF AllocFrame, tables, paging, C, D
<1>4. /\ pc'[Caller] = "map" /\ frame'[Caller] = f /\ C' = C /\ K' = K /\ D' = D
      /\ f \in Frame /\ f # None
  BY <1>0, <1>1, <1>2, <1>3, VmmAssumption DEF TypeOK, C, K, D
<1>5. TypeOK'
  BY <1>0, <1>1, <1>2, <1>3, <1>4 DEF TypeOK
<1>6. CallInv'
  <2>1. Pages(C') = Pages(C)
    BY <1>4
  <2> QED
    BY <1>0, <1>3, <1>4, <2>1 DEF CallInv, At
<1>7. HeldInv' /\ TablesInv'
  BY <1>3, <1>4, SameCall
<1>8. MapInv'
  <2>1. MappedPart' = MappedPart
    BY <1>3, <1>4 DEF MappedPart, At
  <2> QED
    BY <1>0, <1>3, <2>1 DEF MapInv
<1>9. TlbInv'
  BY <1>0, <1>3, <1>4 DEF TlbInv, At
<1>10. FrameInv'
  <2>1. frame[Caller] = None
    BY <1>0, <1>3 DEF CallInv, At
  <2> QED
    BY <1>0, <1>2, <1>3, <1>4, <2>1, VmmAssumption DEF FrameInv
<1> QED
  BY <1>5, <1>6, <1>7, <1>8, <1>9, <1>10 DEF VmmInv

\* The page that map_page is about to map is in the range of the call, and
\* not mapped yet.
LEMMA NextPage ==
  ASSUME OneCaller, VmmInv, pc[Caller] = "map"
  PROVE  /\ PageAt(Caller) = C.addr + D /\ PageAt(Caller) \in Pages(C)
         /\ PageAt(Caller) \in VPage /\ TableOf(PageAt(Caller)) \in Table
         /\ pt[PageAt(Caller)] = None /\ PageAt(Caller) \notin MappedPart
         /\ \A r \in allocs : PageAt(Caller) \notin Pages(r)
         /\ frame[Caller] \in Frame /\ frame[Caller] # None
<1> DEFINE v == PageAt(Caller)
<1>0. TypeOK /\ CallInv /\ HeldInv /\ MapInv
  BY DEF VmmInv
<1>1. C.space \in Spaces /\ C.addr \in Nat /\ C.size \in Nat /\ D \in Nat
  BY <1>0, Types
<1>2. v = C.addr + D
  BY DEF PageAt, C, D
<1>3. D < C.size /\ Pages(C) \subseteq SpaceRange(C.space) /\ frame[Caller] # None
  BY <1>0 DEF CallInv, At
<1>4. v \in Pages(C)
  BY <1>1, <1>2, <1>3 DEF Pages
<1>5. v \in VPage /\ TableOf(v) \in Table
  BY <1>1, <1>3, <1>4, Space
<1>6. MappedPart = C.addr .. (C.addr + D - 1)
  BY DEF MappedPart, At
<1>7. v \notin MappedPart
  BY <1>1, <1>2, <1>6
<1>8. \A r \in allocs : v \notin Pages(r)
  BY <1>0, <1>4 DEF HeldInv, At
<1>9. pt[v] = None
  BY <1>0, <1>5, <1>7, <1>8 DEF MapInv
<1>10. frame[Caller] \in Frame
  BY <1>0, <1>3, Types
<1> QED
  BY <1>2, <1>3, <1>4, <1>5, <1>7, <1>8, <1>9, <1>10

\* What map_page does once the page table is there.
LEMMA SetEntryKeeps ==
  ASSUME OneCaller, VmmInv, pc[Caller] = "map", SetEntry(Caller, pt),
         pd' \in [Table -> Frame \cup {None}], free' \in SUBSET Frame,
         \A d \in Table : pd[d] # None => pd'[d] # None,
         pd'[TableOf(PageAt(Caller))] # None
  PROVE  /\ TypeOK' /\ CallInv' /\ HeldInv' /\ TablesInv' /\ MapInv' /\ TlbInv'
         /\ pt' = [pt EXCEPT ![PageAt(Caller)] = frame[Caller]]
         /\ frame'[Caller] = None
<1> DEFINE v == PageAt(Caller)
<1>0. TypeOK /\ CallInv /\ HeldInv /\ MapInv /\ TlbInv /\ FrameInv
  BY DEF VmmInv
<1>1. /\ Threads = {Caller} /\ Caller \in Threads /\ C.size \in Nat /\ D \in Nat
      /\ C.addr \in Nat
  BY <1>0, Types
<1>2. /\ v = C.addr + D /\ v \in Pages(C) /\ v \in VPage
      /\ pt[v] = None /\ v \notin MappedPart
      /\ \A r \in allocs : v \notin Pages(r)
      /\ frame[Caller] \in Frame /\ frame[Caller] # None
  BY NextPage
<1> HIDE DEF v
<1>3. /\ pt' = [pt EXCEPT ![v] = frame[Caller]]
      /\ tlb' = tlb
      /\ done' = [done EXCEPT ![Caller] = @ + 1]
      /\ frame' = [frame EXCEPT ![Caller] = None]
      /\ pc' = [pc EXCEPT ![Caller] = "frame"]
      /\ UNCHANGED <<blocks, end, call, fb, allocs>>
  BY <1>2 DEF SetEntry, tables, v
<1>4. /\ pc'[Caller] = "frame" /\ frame'[Caller] = None
      /\ C' = C /\ K' = K /\ D' = D + 1 /\ D' \in Nat
      /\ pt'[v] = frame[Caller] /\ \A u \in VPage : u # v => pt'[u] = pt[u]
  BY <1>0, <1>1, <1>2, <1>3 DEF TypeOK, C, K, D
<1>5. TypeOK'
  <2>1. pt' \in [VPage -> Frame \cup {None}] /\ tlb' \in [VPage -> Frame \cup {None}]
    BY <1>0, <1>2, <1>3 DEF TypeOK
  <2>2. done' \in [Threads -> Nat]
    BY <1>0, <1>1, <1>3 DEF TypeOK, D
  <2>3. frame' \in [Threads -> Frame \cup {None}]
    BY <1>0, <1>3 DEF TypeOK
  <2>4. pc' \in [Threads -> {"idle", "frame", "map", "settle", "unmap"}]
    BY <1>0, <1>3 DEF TypeOK
  <2> QED
    BY <1>0, <1>3, <2>1, <2>2, <2>3, <2>4 DEF TypeOK
<1>6. CallInv'
  <2>1. Pages(C') = Pages(C)
    BY <1>4
  <2>2. D < C.size
    BY <1>0 DEF CallInv, At
  <2>3. D' <= C'.size
    BY <1>1, <1>4, <2>2
  <2> QED
    BY <1>0, <1>3, <1>4, <2>1, <2>3 DEF CallInv, At
<1>7. HeldInv' /\ TablesInv'
  BY <1>3, <1>4, SameCall
<1>8. MapInv'
  <2>1. MappedPart = C.addr .. (C.addr + D - 1)
    BY DEF MappedPart, At
  <2>2. MappedPart' = C.addr .. (C.addr + (D + 1) - 1)
    BY <1>4 DEF MappedPart, At
  <2>3. MappedPart' = MappedPart \cup {v}
    BY <1>1, <1>2, <2>1, <2>2
  <2>4. ASSUME NEW u \in VPage
        PROVE  /\ pt'[u] # None <=> \/ \E r \in allocs' : u \in Pages(r)
                                    \/ u \in MappedPart'
               /\ pt'[u] # None => pd'[TableOf(u)] # None
    <3>1. CASE u = v
      BY <1>2, <1>3, <1>4, <2>3, <3>1 DEF v
    <3>2. CASE u # v
      BY <1>0, <1>3, <1>4, <2>3, <3>2, Space DEF MapInv
    <3> QED
      BY <3>1, <3>2
  <2> QED
    BY <2>4 DEF MapInv
<1>9. TlbInv'
  BY <1>0, <1>2, <1>3, <1>4 DEF TlbInv, At
<1> QED
  BY <1>3, <1>4, <1>5, <1>6, <1>7, <1>8, <1>9 DEF v

\* map_page with a page table that is there.
LEMMA MapPageKeeps ==
  ASSUME OneCaller, VmmInv, MapPage(Caller)
  PROVE  VmmInv'
<1>0. TypeOK /\ FrameInv
  BY DEF VmmInv
<1>1. pc[Caller] = "map" /\ pd[TableOf(PageAt(Caller))] # None
      /\ SetEntry(Caller, pt) /\ pd' = pd /\ free' = free
  BY DEF MapPage
<1>2. pd' \in [Table -> Frame \cup {None}] /\ free' \in SUBSET Frame
  BY <1>0, <1>1 DEF TypeOK
<1>3. /\ TypeOK' /\ CallInv' /\ HeldInv' /\ TablesInv' /\ MapInv' /\ TlbInv'
      /\ pt' = [pt EXCEPT ![PageAt(Caller)] = frame[Caller]] /\ frame'[Caller] = None
  BY <1>1, <1>2, SetEntryKeeps
<1>4. /\ PageAt(Caller) \in VPage /\ pt[PageAt(Caller)] = None
      /\ frame[Caller] \in Frame /\ frame[Caller] # None
  BY <1>1, NextPage
<1> DEFINE v == PageAt(Caller)
<1> HIDE DEF v
<1>5. v \in VPage /\ pt'[v] = frame[Caller] /\ \A u \in VPage : u # v => pt'[u] = pt[u]
  BY <1>0, <1>3, <1>4 DEF TypeOK, v
<1>6. FrameInv'
  <2>1. \A u, w \in VPage : pt'[u] = pt'[w] /\ pt'[u] # None => u = w
    BY <1>0, <1>4, <1>5 DEF FrameInv
  <2>2. \A u \in VPage : pt'[u] # None =>
          /\ pt'[u] \notin free' /\ pt'[u] # frame'[Caller]
          /\ \A d \in Table : pt'[u] # pd'[d]
    BY <1>0, <1>1, <1>3, <1>4, <1>5 DEF FrameInv
  <2>3. \A d \in Table : pd'[d] # None => pd'[d] \notin free' /\ pd'[d] # frame'[Caller]
    BY <1>0, <1>1, <1>3 DEF FrameInv
  <2>4. frame'[Caller] \notin free'
    BY <1>0, <1>1, <1>3, VmmAssumption DEF TypeOK
  <2>5. \A f \in Frame : \/ f \in free' \/ f = frame'[Caller]
                         \/ \E u \in VPage : pt'[u] = f
                         \/ \E d \in Table : pd'[d] = f
    <3> TAKE f \in Frame
    <3>1. CASE f = frame[Caller]
      BY <1>5, <3>1
    <3>2. CASE \E u \in VPage : pt[u] = f
      <4>1. PICK u \in VPage : pt[u] = f
        BY <3>2
      <4>2. u # v
        BY <1>4, <4>1, VmmAssumption DEF v
      <4> QED
        BY <1>5, <4>1, <4>2
    <3>3. CASE f \in free \/ \E d \in Table : pd[d] = f
      BY <1>1, <3>3
    <3> QED
      BY <1>0, <3>1, <3>2, <3>3 DEF FrameInv
  <2> QED
    BY <1>0, <1>1, <2>1, <2>2, <2>3, <2>4, <2>5 DEF FrameInv
<1> QED
  BY <1>3, <1>6 DEF VmmInv

\* map_page with a page table of its own making: clearing the entries of the
\* new table changes none, for nothing was mapped there.
LEMMA MapPageNewTableKeeps ==
  ASSUME OneCaller, VmmInv, MapPageNewTable(Caller)
  PROVE  VmmInv'
<1> DEFINE v == PageAt(Caller)
           d0 == TableOf(v)
<1>0. TypeOK /\ MapInv /\ FrameInv
  BY DEF VmmInv
<1>1. pc[Caller] = "map" /\ pd[d0] = None
  BY DEF MapPageNewTable
<1>2. /\ v \in VPage /\ d0 \in Table /\ pt[v] = None
      /\ frame[Caller] \in Frame /\ frame[Caller] # None
  BY <1>1, NextPage
<1>3. PICK f0 \in free : free' = free \ {f0} /\ pd' = [pd EXCEPT ![d0] = f0]
  BY DEF MapPageNewTable
<1>4. [u \in VPage |-> IF TableOf(u) = d0 THEN None ELSE pt[u]] = pt
  <2>1. \A u \in VPage : TableOf(u) = d0 => pt[u] = None
    BY <1>0, <1>1 DEF MapInv
  <2>2. pt = [u \in VPage |-> pt[u]]
    BY <1>0 DEF TypeOK
  <2> HIDE DEF d0
  <2> QED
    BY <2>1, <2>2
<1>5. SetEntry(Caller, pt)
  <2>1. SetEntry(Caller, [u \in VPage |-> IF TableOf(u) = d0 THEN None ELSE pt[u]])
    BY DEF MapPageNewTable
  <2> QED
    BY <1>4, <2>1
<1> HIDE DEF d0, v
<1>6. /\ f0 \in Frame /\ f0 # None
      /\ pd'[d0] = f0 /\ \A d \in Table : d # d0 => pd'[d] = pd[d]
      /\ pd' \in [Table -> Frame \cup {None}] /\ free' \in SUBSET Frame
  BY <1>0, <1>2, <1>3, VmmAssumption DEF TypeOK
<1>7. /\ TypeOK' /\ CallInv' /\ HeldInv' /\ TablesInv' /\ MapInv' /\ TlbInv'
      /\ pt' = [pt EXCEPT ![v] = frame[Caller]] /\ frame'[Caller] = None
  BY <1>1, <1>5, <1>6, SetEntryKeeps DEF d0, v
<1>8. pt'[v] = frame[Caller] /\ \A u \in VPage : u # v => pt'[u] = pt[u]
  BY <1>0, <1>2, <1>7 DEF TypeOK
<1>9. FrameInv'
  <2>1. \A u, w \in VPage : pt'[u] = pt'[w] /\ pt'[u] # None => u = w
    BY <1>0, <1>2, <1>8 DEF FrameInv
  <2>2. \A d, e \in Table : pd'[d] = pd'[e] /\ pd'[d] # None => d = e
    BY <1>0, <1>3, <1>6 DEF FrameInv
  <2>3. ASSUME NEW u \in VPage, pt'[u] # None
        PROVE  /\ pt'[u] \notin free' /\ pt'[u] # frame'[Caller]
               /\ \A d \in Table : pt'[u] # pd'[d]
    <3>1. CASE u = v
      BY <1>0, <1>2, <1>3, <1>6, <1>7, <1>8, <3>1 DEF FrameInv
    <3>2. CASE u # v
      BY <1>0, <1>3, <1>6, <1>7, <1>8, <2>3, <3>2 DEF FrameInv
    <3> QED
      BY <3>1, <3>2
  <2>4. ASSUME NEW d \in Table, pd'[d] # None
        PROVE  pd'[d] \notin free' /\ pd'[d] # frame'[Caller]
    BY <1>0, <1>3, <1>6, <1>7, <2>4 DEF FrameInv
  <2>5. frame'[Caller] \notin free'
    BY <1>6, <1>7, VmmAssumption
  <2>6. \A f \in Frame : \/ f \in free' \/ f = frame'[Caller]
                         \/ \E u \in VPage : pt'[u] = f
                         \/ \E d \in Table : pd'[d] = f
    <3> TAKE f \in Frame
    <3>1. CASE f = frame[Caller]
      BY <1>2, <1>8, <3>1
    <3>2. CASE \E u \in VPage : pt[u] = f
      <4>1. PICK u \in VPage : pt[u] = f
        BY <3>2
      <4>2. u # v
        BY <1>2, <4>1, VmmAssumption
      <4> QED
        BY <1>8, <4>1, <4>2
    <3>3. CASE f \in free
      BY <1>2, <1>3, <1>6, <3>3
    <3>4. CASE \E d \in Table : pd[d] = f
      <4>1. PICK d \in Table : pd[d] = f
        BY <3>4
      <4>2. d # d0
        BY <1>1, <4>1, VmmAssumption DEF d0
      <4> QED
        BY <1>6, <4>1, <4>2
    <3> QED
      BY <1>0, <3>1, <3>2, <3>3, <3>4 DEF FrameInv
  <2> QED
    BY <2>1, <2>2, <2>3, <2>4, <2>5, <2>6 DEF FrameInv
<1> QED
  BY <1>7, <1>9 DEF VmmInv

\* A page cannot be had: the range goes back to the entry it came from.
LEMMA AllocFailsKeeps ==
  ASSUME OneCaller, VmmInv, AllocFails(Caller)
  PROVE  VmmInv'
<1>0. TypeOK /\ CallInv /\ HeldInv /\ TablesInv /\ MapInv /\ TlbInv /\ FrameInv
  BY DEF VmmInv
<1>s. PICK s \in Spaces : s = C.space
  BY <1>0, Types
<1> DEFINE a == blocks[s]
           e == end[s]
           rest == SpaceRange(s) \ HeldPages(s)
           g == [a EXCEPT ![K] = Merged(a[K], C)]
<1>1. /\ Threads = {Caller} /\ Caller \in Threads /\ s \in Spaces
      /\ C.addr \in Nat /\ C.size \in Nat /\ D \in Nat /\ K \in Slot
      /\ a \in [Slot -> Entry] /\ e \in Last
      /\ frame[Caller] \in Frame \cup {None}
  BY <1>0, <1>s, Types
<1>2. /\ pc[Caller] \in {"frame", "map"} /\ free = {}
      /\ free' = {frame[Caller]} \ {None}
      /\ blocks' = [blocks EXCEPT ![s][K].size = @ + C.size]
      /\ frame' = [frame EXCEPT ![Caller] = None]
      /\ call' = [call EXCEPT ![Caller].op = "undo", ![Caller].size = D]
      /\ done' = [done EXCEPT ![Caller] = 0]
      /\ pc' = [pc EXCEPT ![Caller] = "settle"]
      /\ UNCHANGED <<end, pd, pt, tlb, fb, allocs>>
  BY <1>s DEF AllocFails, InHand, GivenBack, paging, C, K, D
<1>3. /\ C.size >= 1 /\ K \in 0..e /\ Stop(a[K]) = C.addr
      /\ D <= C.size /\ Pages(C) \subseteq SpaceRange(s)
  BY <1>0, <1>2, <1>s DEF CallInv, At
<1>4. /\ pc'[Caller] = "settle" /\ frame'[Caller] = None /\ D' = 0 /\ K' = K
      /\ C' \in [op : {"none", "alloc", "undo", "free"},
                space : Spaces, addr : Nat, size : Nat]
      /\ C'.space = s /\ C'.addr = C.addr /\ C'.size = D
  <2>1. pc'[Caller] = "settle" /\ frame'[Caller] = None /\ D' = 0 /\ K' = K
    BY <1>0, <1>1, <1>2 DEF TypeOK, K, D
  <2>2. call'[Caller] = [C EXCEPT !.op = "undo", !.size = D]
    BY <1>0, <1>1, <1>2 DEF TypeOK, C
  <2>3. C \in [op : {"none", "alloc", "undo", "free"},
              space : Spaces, addr : Nat, size : Nat]
    BY <1>0, <1>1 DEF TypeOK, C
  <2>4. /\ C'.space = s /\ C'.addr = C.addr /\ C'.size = D
        /\ C' \in [op : {"none", "alloc", "undo", "free"},
                  space : Spaces, addr : Nat, size : Nat]
    <3>1. C' = [C EXCEPT !.op = "undo", !.size = D]
      BY <2>2 DEF C
    <3> QED
      BY <1>1, <1>s, <2>3, <3>1
  <2> QED
    BY <2>1, <2>4
<1>5. blocks'[s] = g /\ \A u \in Spaces : u # s => blocks'[u] = blocks[u]
  <2>1. a[K] \in Entry
    BY <1>1
  <2>2. [a[K] EXCEPT !.size = @ + C.size] = Merged(a[K], C)
    BY <1>1, <1>3, <2>1 DEF Merged, Entry
  <2> QED
    BY <1>0, <1>1, <1>2, <2>2 DEF TypeOK
<1>6. e \in Slot /\ e \in Nat
  BY <1>1, <1>3, VmmAssumption DEF Last, Slot
<1>7. GoodTable(a, e, rest, -1, K)
  BY <1>0, <1>1, <1>2, <1>s DEF TablesInv, Unsettled, Emptied, At
<1>8. /\ HeldPages(s) = OfSpace(allocs, s) \cup Pages(C)
      /\ Pages(C) \cap OfSpace(allocs, s) = {}
  <2>1. HeldPages(s) = OfSpace(allocs, s) \cup Pages(C)
    BY <1>2, <1>s DEF HeldPages, At
  <2> QED
    BY <1>0, <1>2, <2>1 DEF HeldInv, OfSpace, At
<1>9. /\ g \in [Slot -> Entry]
      /\ GoodTable(g, e, SpaceRange(s) \ OfSpace(allocs, s), K, -1)
  <2>1. Adjacent(a[K], C)
    BY <1>3 DEF Adjacent
  <2>2. Pages(C) \cap rest = {}
    BY <1>8
  <2>3. C.size \in Nat \ {0}
    BY <1>1, <1>3
  <2>4. rest \cup Pages(C) = SpaceRange(s) \ OfSpace(allocs, s)
    BY <1>3, <1>8
  <2> HIDE DEF a, e, rest
  <2>5. g \in [Slot -> Entry] /\ GoodTable(g, e, rest \cup Pages(C), K, -1)
    BY <1>1, <1>3, <1>6, <1>7, <2>1, <2>2, <2>3, GrowTable
  <2> QED
    BY <2>4, <2>5
<1>10. Pages(C') = C.addr .. (C.addr + D - 1) /\ Pages(C') \subseteq Pages(C)
  BY <1>1, <1>3, <1>4 DEF Pages
<1> HIDE DEF g, rest
<1>11. TypeOK'
  <2>1. blocks' \in [Spaces -> [Slot -> [addr : Nat, size : Nat]]]
    <3>1. blocks' = [blocks EXCEPT ![s] = g]
      <4>1. blocks' = [u \in Spaces |-> blocks'[u]] /\ DOMAIN blocks = Spaces
        BY <1>0, <1>2 DEF TypeOK
      <4> QED
        BY <1>5, <4>1
    <3> QED
      BY <1>0, <1>9, <3>1 DEF TypeOK, Entry
  <2>2. call' \in [Threads -> [op : {"none", "alloc", "undo", "free"},
                               space : Spaces, addr : Nat, size : Nat]]
    <3>1. call' = [call EXCEPT ![Caller] = C']
      BY <1>0, <1>1, <1>2 DEF TypeOK, C
    <3> QED
      BY <1>0, <1>4, <3>1 DEF TypeOK
  <2>3. free' \in SUBSET Frame
    BY <1>1, <1>2
  <2> QED
    BY <1>0, <1>1, <1>2, <2>1, <2>2, <2>3 DEF TypeOK
<1>12. CallInv'
  <2>1. Pages(C') \subseteq SpaceRange(C'.space)
    BY <1>3, <1>4, <1>10
  <2>2. K' \in 0..end'[C'.space]
    BY <1>2, <1>3, <1>4
  <2> QED
    BY <1>1, <1>4, <2>1, <2>2 DEF CallInv, At
<1>13. HeldInv'
  BY <1>0, <1>2, <1>10 DEF HeldInv, At
<1>14. TablesInv'
  <2>1. HeldPages(s)' = OfSpace(allocs, s) /\ Unsettled(s)' = K /\ Emptied(s)' = -1
    BY <1>2, <1>4, <1>s DEF HeldPages, Unsettled, Emptied, At
  <2>2. ASSUME NEW u \in Spaces, u # s
        PROVE  /\ HeldPages(u)' = HeldPages(u) /\ Unsettled(u)' = Unsettled(u)
               /\ Emptied(u)' = Emptied(u)
    BY <1>2, <1>4, <1>s, <2>2 DEF HeldPages, Unsettled, Emptied, At
  <2>3. GoodTable(blocks'[s], end'[s], SpaceRange(s) \ HeldPages(s)',
                  Unsettled(s)', Emptied(s)')
    BY <1>2, <1>5, <1>9, <2>1
  <2>4. ASSUME NEW u \in Spaces, u # s
        PROVE  GoodTable(blocks'[u], end'[u], SpaceRange(u) \ HeldPages(u)',
                         Unsettled(u)', Emptied(u)')
    BY <1>0, <1>2, <1>5, <2>2, <2>4 DEF TablesInv
  <2> QED
    BY <2>3, <2>4 DEF TablesInv
<1>15. MapInv'
  <2>1. MappedPart = C.addr .. (C.addr + D - 1)
    BY <1>2 DEF MappedPart, At
  <2>2. MappedPart' = (C.addr + 0) .. (C.addr + D - 1)
    BY <1>4 DEF MappedPart, At
  <2>3. MappedPart' = MappedPart
    BY <1>1, <2>1, <2>2
  <2> QED
    BY <1>0, <1>2, <2>3 DEF MapInv
<1>16. TlbInv'
  BY <1>0, <1>2, <1>4 DEF TlbInv, At
<1>17. FrameInv'
  <2>1. UNCHANGED <<pt, pd>> /\ free = {} /\ free' = {frame[Caller]} \ {None}
        /\ frame'[Caller] = None
    BY <1>2, <1>4
  <2> QED
    BY <1>0, <2>1, VmmAssumption DEF FrameInv
<1> QED
  BY <1>11, <1>12, <1>13, <1>14, <1>15, <1>16, <1>17 DEF VmmInv

\* All pages are mapped: the range is the caller's, and an entry that is used
\* up is dropped.
LEMMA AllocReturnKeeps ==
  ASSUME OneCaller, VmmInv, AllocReturn(Caller)
  PROVE  VmmInv'
<1>0. TypeOK /\ CallInv /\ HeldInv /\ TablesInv /\ MapInv /\ TlbInv /\ FrameInv
  BY DEF VmmInv
<1>s. PICK s \in Spaces : s = C.space
  BY <1>0, Types
<1>r. PICK r0 : r0 = RangeOf(Caller)
  OBVIOUS
<1> DEFINE a == blocks[s]
           e == end[s]
<1>1. /\ Threads = {Caller} /\ Caller \in Threads /\ s \in Spaces
      /\ C.addr \in Nat /\ C.size \in Nat /\ D \in Nat /\ K \in Slot
      /\ a \in [Slot -> Entry] /\ e \in Last
  BY <1>0, <1>s, Types
<1>2. /\ pc[Caller] = "frame" /\ D = C.size
      /\ end' = IF a[K].size = 0 THEN [end EXCEPT ![s] = @ - 1] ELSE end
      /\ allocs' = allocs \cup {r0}
      /\ pc' = [pc EXCEPT ![Caller] = "idle"] /\ call' = [call EXCEPT ![Caller] = NoCall]
      /\ fb' = [fb EXCEPT ![Caller] = 0] /\ done' = [done EXCEPT ![Caller] = 0]
      /\ UNCHANGED <<blocks, pd, pt, tlb, free, frame>>
  BY <1>s, <1>r DEF AllocReturn, Return, paging, C, K, D
<1>3. /\ C.size >= 1 /\ K \in 0..e
      /\ a[K].size = 0 => K = e
      /\ Pages(C) \subseteq SpaceRange(s) /\ frame[Caller] = None
  BY <1>0, <1>2, <1>s DEF CallInv, At
<1>4. /\ r0 = [space |-> s, addr |-> C.addr, size |-> C.size] /\ r0 \in Block
      /\ r0.space = s /\ r0.size = C.size /\ Pages(r0) = Pages(C)
  BY <1>1, <1>s, <1>r DEF RangeOf, C, Block, Pages
<1>5. pc'[Caller] = "idle" /\ D' = 0
  BY <1>0, <1>1, <1>2 DEF TypeOK, D
<1>6. e \in Slot /\ e \in Nat /\ e - 1 \in Last
  <2>1. e \in Slot /\ e \in Nat
    BY <1>1, <1>3, VmmAssumption DEF Last, Slot
  <2> QED
    BY <2>1, VmmAssumption DEF Last, Slot
<1>7. TypeOK'
  <2>1. end' \in [Spaces -> Slot \cup {-1}]
    <3>1. CASE a[K].size = 0
      BY <1>0, <1>1, <1>2, <1>6, <3>1 DEF TypeOK, Last
    <3>2. CASE a[K].size # 0
      BY <1>0, <1>2, <3>2 DEF TypeOK
    <3> QED
      BY <3>1, <3>2
  <2>2. NoCall \in [op : {"none", "alloc", "undo", "free"},
                    space : Spaces, addr : Nat, size : Nat] /\ 0 \in Slot
    BY VmmAssumption DEF NoCall, Slot
  <2> QED
    BY <1>0, <1>1, <1>2, <1>4, <2>1, <2>2 DEF TypeOK
<1>8. CallInv'
  BY <1>2, <1>3, <1>5 DEF CallInv, At
<1>9. HeldInv'
  <2>1. \A r \in allocs : Pages(r) \cap Pages(r0) = {}
    BY <1>0, <1>2, <1>4 DEF HeldInv, At
  <2>2. r0.size >= 1 /\ Pages(r0) \subseteq SpaceRange(r0.space)
    BY <1>3, <1>4
  <2> QED
    BY <1>0, <1>2, <1>5, <2>1, <2>2 DEF HeldInv, At
<1>10. TablesInv'
  <2>1. /\ HeldPages(s)' = HeldPages(s) /\ Unsettled(s)' = -1 /\ Emptied(s)' = -1
        /\ Unsettled(s) = -1 /\ Emptied(s) = K
    BY <1>2, <1>4, <1>5, <1>s DEF HeldPages, Unsettled, Emptied, At, OfSpace
  <2>2. ASSUME NEW u \in Spaces, u # s
        PROVE  /\ HeldPages(u)' = HeldPages(u) /\ Unsettled(u)' = Unsettled(u)
               /\ Emptied(u)' = Emptied(u) /\ end'[u] = end[u]
    BY <1>0, <1>1, <1>2, <1>4, <1>5, <1>s, <2>2
       DEF TypeOK, HeldPages, Unsettled, Emptied, At, OfSpace
  <2>3. GoodTable(blocks'[s], end'[s], SpaceRange(s) \ HeldPages(s)',
                  Unsettled(s)', Emptied(s)')
    <3>1. GoodTable(a, e, SpaceRange(s) \ HeldPages(s), -1, K)
      BY <1>0, <1>1, <2>1 DEF TablesInv
    <3>2. /\ a[K].size # 0 => GoodTable(a, e, SpaceRange(s) \ HeldPages(s), -1, -1)
          /\ a[K].size = 0 => GoodTable(a, e - 1, SpaceRange(s) \ HeldPages(s), -1, -1)
      <4> HIDE DEF a, e
      <4> QED
        BY <1>1, <1>3, <1>6, <3>1, DropTable
    <3>3. /\ blocks'[s] = a
          /\ end'[s] = IF a[K].size = 0 THEN e - 1 ELSE e
      BY <1>0, <1>1, <1>2 DEF TypeOK
    <3> QED
      BY <2>1, <3>2, <3>3
  <2>4. ASSUME NEW u \in Spaces, u # s
        PROVE  GoodTable(blocks'[u], end'[u], SpaceRange(u) \ HeldPages(u)',
                         Unsettled(u)', Emptied(u)')
    BY <1>0, <1>2, <2>2, <2>4 DEF TablesInv
  <2> QED
    BY <2>3, <2>4 DEF TablesInv
<1>11. MapInv'
  <2>1. MappedPart = Pages(r0)
    BY <1>2, <1>4 DEF MappedPart, At, Pages
  <2>2. MappedPart' = {}
    BY <1>5 DEF MappedPart, At
  <2> QED
    BY <1>0, <1>2, <2>1, <2>2 DEF MapInv
<1>12. TlbInv'
  BY <1>0, <1>2, <1>5 DEF TlbInv, At
<1>13. FrameInv'
  BY <1>0, <1>2 DEF FrameInv
<1> QED
  BY <1>7, <1>8, <1>9, <1>10, <1>11, <1>12, <1>13 DEF VmmInv

\* What both ways of free_block have in common: a range that is given back
\* leaves its pages to the table, which lists them at the slot k.
LEMMA PublishKeeps ==
  ASSUME OneCaller, VmmInv, NEW r \in allocs, NEW k \in Slot, NEW b \in Entry,
         pc[Caller] = "idle", Publish(Caller, r, k, b),
         end' \in [Spaces -> Slot \cup {-1}],
         \A u \in Spaces : u # r.space => end'[u] = end[u],
         k \in 0..end'[r.space],
         GoodTable([blocks[r.space] EXCEPT ![k] = b], end'[r.space],
                   (SpaceRange(r.space) \ HeldPages(r.space)) \cup Pages(r), k, -1)
  PROVE  VmmInv'
<1> DEFINE s == r.space
           call1 == [op |-> "free", space |-> s, addr |-> r.addr, size |-> r.size]
<1>0. TypeOK /\ CallInv /\ HeldInv /\ TablesInv /\ MapInv /\ TlbInv /\ FrameInv
  BY DEF VmmInv
<1>1. /\ Threads = {Caller} /\ Caller \in Threads
      /\ \A q \in allocs : q.space \in Spaces /\ q.addr \in Nat /\ q.size \in Nat
  BY <1>0, Types
<1>2. /\ blocks' = [blocks EXCEPT ![s][k] = b]
      /\ fb' = [fb EXCEPT ![Caller] = k]
      /\ call' = [call EXCEPT ![Caller] = call1]
      /\ pc' = [pc EXCEPT ![Caller] = "settle"]
      /\ allocs' = allocs \ {r}
      /\ UNCHANGED <<pd, pt, tlb, free, done, frame>>
  BY DEF Publish, paging
<1>3. D = 0 /\ frame[Caller] = None
  BY <1>0 DEF CallInv, At
<1>4. /\ pc'[Caller] = "settle" /\ D' = 0 /\ K' = k /\ C' = call1
      /\ C'.space = s /\ C'.addr = r.addr /\ C'.size = r.size /\ Pages(C') = Pages(r)
  <2>1. pc'[Caller] = "settle" /\ D' = 0 /\ K' = k /\ C' = call1
    BY <1>0, <1>1, <1>2, <1>3 DEF TypeOK, C, K, D
  <2> QED
    BY <2>1 DEF Pages
<1>5. s \in Spaces /\ r.addr \in Nat /\ r.size \in Nat
  BY <1>1
<1>6. TypeOK'
  <2>1. blocks' \in [Spaces -> [Slot -> [addr : Nat, size : Nat]]]
    BY <1>0, <1>2, <1>5 DEF TypeOK, Entry
  <2>2. call1 \in [op : {"none", "alloc", "undo", "free"},
                   space : Spaces, addr : Nat, size : Nat]
    BY <1>5
  <2> HIDE DEF call1
  <2> QED
    BY <1>0, <1>1, <1>2, <2>1, <2>2 DEF TypeOK
<1>7. Pages(r) \subseteq SpaceRange(s) /\ r.size >= 1
  BY <1>0 DEF HeldInv
<1>8. CallInv'
  BY <1>2, <1>3, <1>4, <1>5, <1>7 DEF CallInv, At
<1>9. HeldInv'
  BY <1>0, <1>2, <1>4 DEF HeldInv, At
<1>10. /\ OfSpace(allocs', s) = OfSpace(allocs, s) \ Pages(r)
       /\ \A u \in Spaces : u # s => OfSpace(allocs', u) = OfSpace(allocs, u)
  BY <1>0, <1>2 DEF HeldInv, OfSpace
<1>11. TablesInv'
  <2>1. /\ HeldPages(s) = OfSpace(allocs, s) /\ HeldPages(s)' = OfSpace(allocs', s)
        /\ Unsettled(s)' = k /\ Emptied(s)' = -1
    BY <1>4 DEF HeldPages, Unsettled, Emptied, At
  <2>2. SpaceRange(s) \ HeldPages(s)' = (SpaceRange(s) \ HeldPages(s)) \cup Pages(r)
    BY <1>7, <1>10, <2>1
  <2>3. /\ blocks'[s] = [blocks[s] EXCEPT ![k] = b]
        /\ \A u \in Spaces : u # s => blocks'[u] = blocks[u]
    BY <1>0, <1>2, <1>5 DEF TypeOK
  <2>4. GoodTable(blocks'[s], end'[s], SpaceRange(s) \ HeldPages(s)',
                  Unsettled(s)', Emptied(s)')
    BY <2>1, <2>2, <2>3
  <2>5. ASSUME NEW u \in Spaces, u # s
        PROVE  /\ HeldPages(u)' = HeldPages(u) /\ Unsettled(u)' = Unsettled(u)
               /\ Emptied(u)' = Emptied(u)
    BY <1>4, <1>10, <2>5 DEF HeldPages, Unsettled, Emptied, At
  <2>6. ASSUME NEW u \in Spaces, u # s
        PROVE  GoodTable(blocks'[u], end'[u], SpaceRange(u) \ HeldPages(u)',
                         Unsettled(u)', Emptied(u)')
    BY <1>0, <2>3, <2>5, <2>6 DEF TablesInv
  <2> HIDE DEF s
  <2> QED
    BY <2>4, <2>6 DEF TablesInv
<1>12. MapInv'
  <2>1. MappedPart = {}
    BY DEF MappedPart, At
  <2>2. MappedPart' = (r.addr + 0) .. (r.addr + r.size - 1)
    BY <1>4 DEF MappedPart, At
  <2>3. MappedPart' = Pages(r)
    BY <1>5, <2>2 DEF Pages
  <2> QED
    BY <1>0, <1>2, <2>1, <2>3 DEF MapInv
<1>13. TlbInv'
  BY <1>0, <1>2, <1>4 DEF TlbInv, At
<1>14. FrameInv'
  BY <1>0, <1>2 DEF FrameInv
<1> QED
  BY <1>6, <1>8, <1>9, <1>11, <1>12, <1>13, <1>14 DEF VmmInv

\* free_block with a slot to spare.
LEMMA FreeBlockKeeps ==
  ASSUME OneCaller, VmmInv, NEW r \in allocs, FreeBlock(Caller, r)
  PROVE  VmmInv'
<1> DEFINE s == r.space
           a == blocks[s]
           e == end[s]
           b == [addr |-> r.addr, size |-> r.size]
           rest == SpaceRange(s) \ HeldPages(s)
<1>0. TypeOK /\ HeldInv /\ TablesInv
  BY DEF VmmInv
<1>1. /\ s \in Spaces /\ r.addr \in Nat /\ r.size \in Nat
      /\ a \in [Slot -> Entry] /\ e \in Last
  BY <1>0, Types
<1>2. /\ pc[Caller] = "idle" /\ e + 1 < SPACE_SIZE
      /\ end' = [end EXCEPT ![s] = @ + 1]
      /\ Publish(Caller, r, e + 1, b)
  BY DEF FreeBlock, HasSlot
<1>3. e \in Int /\ e + 1 \in Nat /\ e + 1 \in Slot /\ e + 1 \in 0..(e + 1)
  <2>1. e \in Last /\ e + 1 < SPACE_SIZE
    BY <1>1, <1>2
  <2> HIDE DEF e
  <2> QED
    BY <2>1, VmmAssumption DEF Last, Slot
<1>4. end' \in [Spaces -> Slot \cup {-1}] /\ end'[s] = e + 1
      /\ \A u \in Spaces : u # s => end'[u] = end[u]
  BY <1>0, <1>1, <1>2, <1>3 DEF TypeOK
<1>5. GoodTable(a, e, rest, -1, -1)
  BY <1>0, <1>1, <1>2 DEF TablesInv, Unsettled, Emptied, At
<1>6. Pages(b) = Pages(r) /\ b \in Entry /\ b.size > 0 /\ Pages(b) \cap rest = {}
  <2>1. Pages(b) = Pages(r) /\ b \in Entry
    BY <1>1 DEF Pages, Entry
  <2>2. r.size > 0
    BY <1>0, <1>1 DEF HeldInv
  <2>3. Pages(r) \subseteq HeldPages(s)
    BY DEF HeldPages, OfSpace
  <2> QED
    BY <2>1, <2>2, <2>3
<1> HIDE DEF a, e, b, rest
<1>7. GoodTable([a EXCEPT ![e + 1] = b], e + 1, rest \cup Pages(r), e + 1, -1)
  BY <1>1, <1>3, <1>5, <1>6, AppendTable
<1> QED
  BY <1>2, <1>3, <1>4, <1>6, <1>7, PublishKeeps DEF a, rest

\* free_block with a full table, when an entry can be extended.
LEMMA FreeBlockFullKeeps ==
  ASSUME OneCaller, VmmInv, NEW r \in allocs, FreeBlockFull(Caller, r)
  PROVE  VmmInv'
<1> DEFINE s == r.space
           a == blocks[s]
           e == end[s]
           k == Highest(Neighbours(r))
           b == Merged(a[k], r)
           rest == SpaceRange(s) \ HeldPages(s)
<1>0. TypeOK /\ HeldInv /\ TablesInv
  BY DEF VmmInv
<1>1. /\ s \in Spaces /\ r.addr \in Nat /\ r.size \in Nat
      /\ a \in [Slot -> Entry] /\ e \in Last
  BY <1>0, Types
<1>2. /\ pc[Caller] = "idle" /\ Neighbours(r) # {} /\ end' = end
      /\ Publish(Caller, r, k, b)
  BY DEF FreeBlockFull
<1>3. k \in 0..e /\ Adjacent(a[k], r) /\ e \in Slot /\ k \in Slot
  <2>1. Neighbours(r) \subseteq 0..e
    BY DEF Neighbours
  <2>2. e \in Slot /\ e \in Nat
    <3>1. 0..e # {}
      BY <1>2, <2>1
    <3>2. e # -1
      BY <3>1
    <3> QED
      BY <1>1, <3>2, VmmAssumption DEF Last, Slot
  <2>3. k \in Neighbours(r)
    BY <1>2, <2>1, <2>2, Extremes
  <2>4. k \in 0..e
    BY <2>1, <2>3
  <2> QED
    BY <1>1, <2>2, <2>3, <2>4, Entries DEF Neighbours
<1> HIDE DEF k
<1>4. GoodTable(a, e, rest, -1, k)
  <2>1. GoodTable(a, e, rest, -1, -1)
    BY <1>0, <1>1, <1>2 DEF TablesInv, Unsettled, Emptied, At
  <2>2. \A j \in 0..e : j # -1
    OBVIOUS
  <2>3. Filled(a, e, k)
    BY <2>1, <2>2 DEF GoodTable, Filled
  <2> QED
    BY <2>1, <2>3 DEF GoodTable
<1>5. r.size \in Nat \ {0} /\ Pages(r) \cap rest = {}
  <2>1. r.size >= 1
    BY <1>0 DEF HeldInv
  <2>2. Pages(r) \subseteq HeldPages(s)
    BY DEF HeldPages, OfSpace
  <2> QED
    BY <1>1, <2>1, <2>2
<1>6. b \in Entry
  BY <1>1, <1>3, MergedPages, Entries
<1>7. end' \in [Spaces -> Slot \cup {-1}] /\ end'[s] = e
      /\ \A u \in Spaces : u # s => end'[u] = end[u]
  BY <1>0, <1>2 DEF TypeOK
<1> HIDE DEF a, e, rest
<1>8. GoodTable([a EXCEPT ![k] = b], e, rest \cup Pages(r), k, -1)
  BY <1>1, <1>3, <1>4, <1>5, GrowTable
<1> HIDE DEF b
<1> QED
  BY <1>2, <1>3, <1>6, <1>7, <1>8, PublishKeeps DEF a, rest

\* check_upper finds its entry in the table, raised and ready to merge.
LEMMA Settling ==
  ASSUME OneCaller, VmmInv, pc[Caller] = "settle", NEW s \in Spaces, s = C.space
  PROVE  LET a == Risen(Caller)
             p == RisenSlot(Caller)
             rest == SpaceRange(s) \ HeldPages(s)
         IN /\ InTable(Caller) /\ end[s] \in Slot /\ p \in 0..end[s]
            /\ a \in [Slot -> Entry]
            /\ GoodTable(a, end[s], rest, p, -1) /\ Sorted(a, end[s], -1)
            /\ RisenPartners(Caller) = Partners(a, end[s], p)
            /\ RisenPartners(Caller) = {} => GoodTable(a, end[s], rest, -1, -1)
<1> DEFINE rest == SpaceRange(s) \ HeldPages(s)
<1>0. TypeOK /\ CallInv /\ TablesInv
  BY DEF VmmInv
<1>1. K \in 0..end[s] /\ end[s] \in Last /\ blocks[s] \in [Slot -> Entry] /\ K \in Slot
  BY <1>0, Types DEF CallInv, At
<1>2. end[s] \in Slot
  <2>1. end[s] # -1
    BY <1>1
  <2> QED
    BY <1>1, <2>1 DEF Last
<1>3. GoodTable(blocks[s], end[s], rest, K, -1)
  BY <1>0 DEF TablesInv, Unsettled, Emptied, At
<1>4. /\ RisenSlot(Caller) = RisesTo(blocks[s], K)
      /\ Risen(Caller) = Moved(blocks[s], K, RisesTo(blocks[s], K))
      /\ RisenPartners(Caller) = Partners(Risen(Caller), end[s], RisenSlot(Caller))
      /\ InTable(Caller)
  BY <1>1 DEF RisenSlot, Risen, RisenPartners, InTable, C, K
<1> HIDE DEF rest
<1>5. LET p == RisesTo(blocks[s], K)
          b == Moved(blocks[s], K, p)
      IN /\ b \in [Slot -> Entry] /\ p \in 0..end[s]
         /\ GoodTable(b, end[s], rest, p, -1) /\ Sorted(b, end[s], -1)
         /\ Partners(b, end[s], p) = {} => GoodTable(b, end[s], rest, -1, -1)
  BY <1>1, <1>2, <1>3, RiseTable
<1> QED
  BY <1>2, <1>4, <1>5 DEF rest

\* check_upper merges its entry with one it touches, and goes on with that.
LEMMA SettleMergeKeeps ==
  ASSUME OneCaller, VmmInv, SettleMerge(Caller)
  PROVE  VmmInv'
<1>0. TypeOK /\ CallInv /\ HeldInv /\ TablesInv /\ MapInv /\ TlbInv /\ FrameInv
  BY DEF VmmInv
<1>s. PICK s \in Spaces : s = C.space
  BY <1>0, Types
<1> DEFINE a == Risen(Caller)
           p == RisenSlot(Caller)
           e == end[s]
           q == Lowest(RisenPartners(Caller))
           b == Without([a EXCEPT ![q] = Merged(a[q], a[p])], e, p)
           w == IF q > p THEN q - 1 ELSE q
           rest == SpaceRange(s) \ HeldPages(s)
<1>1. /\ pc[Caller] = "settle" /\ RisenPartners(Caller) # {}
      /\ blocks' = [blocks EXCEPT ![s] = b]
      /\ end' = [end EXCEPT ![s] = @ - 1]
      /\ fb' = [fb EXCEPT ![Caller] = w]
      /\ UNCHANGED <<pd, pt, tlb, free, pc, call, done, frame, allocs>>
  BY <1>s DEF SettleMerge, paging, C
<1>2. Threads = {Caller} /\ Caller \in Threads
  BY <1>0, Types
<1>3. /\ e \in Slot /\ e \in Nat /\ p \in 0..e /\ a \in [Slot -> Entry]
      /\ GoodTable(a, e, rest, p, -1) /\ Sorted(a, e, -1)
      /\ RisenPartners(Caller) = Partners(a, e, p)
  <2>1. /\ e \in Slot /\ p \in 0..e /\ a \in [Slot -> Entry]
        /\ GoodTable(a, e, rest, p, -1) /\ Sorted(a, e, -1)
        /\ RisenPartners(Caller) = Partners(a, e, p)
    BY <1>1, <1>s, Settling
  <2>2. e \in Nat
    BY <2>1, VmmAssumption DEF Slot
  <2> QED
    BY <2>1, <2>2
<1> HIDE DEF a, p, e, rest
<1>4. q \in 0..e /\ q # p /\ Adjacent(a[q], a[p])
  <2>1. Partners(a, e, p) \subseteq 0..e
    BY DEF Partners
  <2>2. q \in Partners(a, e, p)
    BY <1>1, <1>3, <2>1, Extremes
  <2> QED
    BY <2>2 DEF Partners
<1> HIDE DEF q
<1>5. b \in [Slot -> Entry] /\ w \in 0..(e - 1) /\ GoodTable(b, e - 1, rest, w, -1)
  BY <1>3, <1>4, MergeTable
<1> HIDE DEF b, w
<1>6. w \in Slot /\ e - 1 \in Slot \cup {-1}
  BY <1>3, <1>5, VmmAssumption DEF Slot
<1>7. /\ blocks'[s] = b /\ \A u \in Spaces : u # s => blocks'[u] = blocks[u]
      /\ end'[s] = e - 1 /\ \A u \in Spaces : u # s => end'[u] = end[u]
      /\ K' = w /\ C' = C /\ D' = D /\ pc'[Caller] = "settle"
  BY <1>0, <1>1, <1>2 DEF TypeOK, C, K, D, e
<1>8. TypeOK'
  <2>1. blocks' \in [Spaces -> [Slot -> [addr : Nat, size : Nat]]]
    BY <1>0, <1>1, <1>5 DEF TypeOK, Entry
  <2>2. end' \in [Spaces -> Slot \cup {-1}]
    BY <1>0, <1>1, <1>6 DEF TypeOK, e
  <2>3. fb' \in [Threads -> Slot]
    BY <1>0, <1>1, <1>6 DEF TypeOK
  <2> QED
    BY <1>0, <1>1, <2>1, <2>2, <2>3 DEF TypeOK
<1>9. CallInv'
  <2>1. K' \in 0..end'[C'.space]
    BY <1>5, <1>7, <1>s
  <2>2. pc'[Caller] = pc[Caller] /\ frame'[Caller] = frame[Caller] /\ Pages(C') = Pages(C)
    BY <1>1, <1>7
  <2> QED
    BY <1>0, <1>1, <1>7, <2>1, <2>2 DEF CallInv, At
<1>10. HeldInv'
  BY <1>0, <1>1, <1>7 DEF HeldInv, At
<1>11. TablesInv'
  <2>1. \A u \in Spaces : HeldPages(u)' = HeldPages(u) /\ Emptied(u)' = Emptied(u)
    BY <1>1, <1>7 DEF HeldPages, Emptied, At
  <2>2. Unsettled(s)' = w /\ Emptied(s) = -1
    BY <1>1, <1>7, <1>s DEF Unsettled, Emptied, At
  <2>3. \A u \in Spaces : u # s => Unsettled(u)' = Unsettled(u)
    BY <1>1, <1>7, <1>s DEF Unsettled, At
  <2>4. GoodTable(blocks'[s], end'[s], SpaceRange(s) \ HeldPages(s)',
                  Unsettled(s)', Emptied(s)')
    BY <1>5, <1>7, <2>1, <2>2 DEF rest
  <2>5. ASSUME NEW u \in Spaces, u # s
        PROVE  GoodTable(blocks'[u], end'[u], SpaceRange(u) \ HeldPages(u)',
                         Unsettled(u)', Emptied(u)')
    BY <1>0, <1>7, <2>1, <2>3, <2>5 DEF TablesInv
  <2> QED
    BY <2>4, <2>5 DEF TablesInv
<1>12. MapInv'
  <2>1. MappedPart' = MappedPart
    BY <1>1, <1>7 DEF MappedPart, At
  <2> QED
    BY <1>0, <1>1, <2>1 DEF MapInv
<1>13. TlbInv'
  BY <1>0, <1>1, <1>7 DEF TlbInv, At
<1>14. FrameInv'
  BY <1>0, <1>1 DEF FrameInv
<1> QED
  BY <1>8, <1>9, <1>10, <1>11, <1>12, <1>13, <1>14 DEF VmmInv

\* check_upper finds nothing left to merge: the table is as it should be.
LEMMA SettleDoneKeeps ==
  ASSUME OneCaller, VmmInv, SettleDone(Caller)
  PROVE  VmmInv'
<1>0. TypeOK /\ CallInv /\ HeldInv /\ TablesInv /\ MapInv /\ TlbInv /\ FrameInv
  BY DEF VmmInv
<1>s. PICK s \in Spaces : s = C.space
  BY <1>0, Types
<1> DEFINE a == Risen(Caller)
           e == end[s]
           rest == SpaceRange(s) \ HeldPages(s)
<1>1. Threads = {Caller} /\ Caller \in Threads
  BY <1>0, Types
<1>2. pc[Caller] = "settle"
  BY DEF SettleDone
<1>3. InTable(Caller) /\ a \in [Slot -> Entry]
      /\ (RisenPartners(Caller) = {} => GoodTable(a, e, rest, -1, -1))
  BY <1>2, <1>s, Settling
<1>4. /\ GoodTable(a, e, rest, -1, -1)
      /\ blocks' = [blocks EXCEPT ![s] = a]
      /\ pc' = [pc EXCEPT ![Caller] = "unmap"]
      /\ UNCHANGED <<end, pd, pt, tlb, free, call, fb, done, frame, allocs>>
  BY <1>3, <1>s DEF SettleDone, paging, locals, C
<1> HIDE DEF a
<1>5. /\ blocks'[s] = a /\ \A u \in Spaces : u # s => blocks'[u] = blocks[u]
      /\ K' = K /\ C' = C /\ D' = D /\ pc'[Caller] = "unmap"
  BY <1>0, <1>1, <1>4 DEF TypeOK, C, K, D
<1>6. TypeOK'
  <2>1. blocks' \in [Spaces -> [Slot -> [addr : Nat, size : Nat]]]
    BY <1>0, <1>3, <1>4 DEF TypeOK, Entry
  <2> QED
    BY <1>0, <1>4, <2>1 DEF TypeOK
<1>7. CallInv'
  <2>1. frame'[Caller] = frame[Caller] /\ Pages(C') = Pages(C)
    BY <1>4, <1>5
  <2> QED
    BY <1>0, <1>2, <1>4, <1>5, <2>1 DEF CallInv, At
<1>8. HeldInv'
  BY <1>0, <1>2, <1>4, <1>5 DEF HeldInv, At
<1>9. TablesInv'
  <2>1. \A u \in Spaces : /\ HeldPages(u)' = HeldPages(u)
                          /\ Emptied(u)' = Emptied(u) /\ Emptied(u) = -1
    BY <1>2, <1>4, <1>5 DEF HeldPages, Emptied, At
  <2>2. Unsettled(s)' = -1
    BY <1>5 DEF Unsettled, At
  <2>3. \A u \in Spaces : u # s => Unsettled(u)' = Unsettled(u)
    BY <1>2, <1>5, <1>s DEF Unsettled, At
  <2>4. GoodTable(blocks'[s], end'[s], SpaceRange(s) \ HeldPages(s)',
                  Unsettled(s)', Emptied(s)')
    BY <1>4, <1>5, <2>1, <2>2
  <2>5. ASSUME NEW u \in Spaces, u # s
        PROVE  GoodTable(blocks'[u], end'[u], SpaceRange(u) \ HeldPages(u)',
                         Unsettled(u)', Emptied(u)')
    BY <1>0, <1>4, <1>5, <2>1, <2>3, <2>5 DEF TablesInv
  <2> QED
    BY <2>4, <2>5 DEF TablesInv
<1>10. MapInv'
  <2>1. MappedPart' = MappedPart
    BY <1>2, <1>5 DEF MappedPart, At
  <2> QED
    BY <1>0, <1>4, <2>1 DEF MapInv
<1>11. TlbInv'
  <2>1. \A v \in VPage : tlb[v] = None \/ tlb[v] = pt[v]
    BY <1>0, <1>2 DEF TlbInv, At
  <2> QED
    BY <1>4, <2>1 DEF TlbInv
<1>12. FrameInv'
  BY <1>0, <1>4 DEF FrameInv
<1> QED
  BY <1>6, <1>7, <1>8, <1>9, <1>10, <1>11, <1>12 DEF VmmInv

\* The rollback or free_block unmaps a page and frees what it was mapped to.
LEMMA UnmapPageKeeps ==
  ASSUME OneCaller, VmmInv, UnmapPage(Caller)
  PROVE  VmmInv'
<1> DEFINE v == PageAt(Caller)
<1>0. TypeOK /\ CallInv /\ HeldInv /\ TablesInv /\ MapInv /\ TlbInv /\ FrameInv
  BY DEF VmmInv
<1>1. /\ Threads = {Caller} /\ Caller \in Threads /\ C.space \in Spaces
      /\ C.addr \in Nat /\ C.size \in Nat /\ D \in Nat
  BY <1>0, Types
<1>2. /\ pc[Caller] = "unmap" /\ D < C.size
      /\ free' = free \cup ({pt[v]} \ {None})
      /\ pt' = [pt EXCEPT ![v] = None]
      /\ done' = [done EXCEPT ![Caller] = @ + 1]
      /\ UNCHANGED <<blocks, end, pd, tlb, pc, call, fb, frame, allocs>>
  BY DEF UnmapPage, ToUnmap, tables, C, D
<1>3. v = C.addr + D
  BY DEF PageAt, C, D
<1>4. v \in Pages(C) /\ v \in VPage
  <2>1. v \in Pages(C)
    BY <1>1, <1>2, <1>3 DEF Pages
  <2>2. Pages(C) \subseteq SpaceRange(C.space)
    BY <1>0, <1>2 DEF CallInv, At
  <2> QED
    BY <1>1, <2>1, <2>2, Space
<1> HIDE DEF v
<1>5. MappedPart = (C.addr + D) .. (C.addr + C.size - 1)
  BY <1>2 DEF MappedPart, At
<1>6. v \in MappedPart /\ pt[v] # None /\ pt[v] \in Frame
  <2>1. v \in MappedPart
    BY <1>1, <1>2, <1>3, <1>5
  <2>2. pt[v] # None
    BY <1>0, <1>4, <2>1 DEF MapInv
  <2> QED
    BY <1>0, <1>4, <2>1, <2>2 DEF TypeOK
<1>7. /\ C' = C /\ K' = K /\ D' = D + 1 /\ D' \in Nat /\ pc'[Caller] = "unmap"
      /\ pt'[v] = None /\ \A u \in VPage : u # v => pt'[u] = pt[u]
      /\ free' = free \cup {pt[v]} /\ frame'[Caller] = frame[Caller]
  BY <1>0, <1>1, <1>2, <1>4, <1>6 DEF TypeOK, C, K, D
<1>8. TypeOK'
  <2>1. pt' \in [VPage -> Frame \cup {None}] /\ free' \in SUBSET Frame
    BY <1>0, <1>2, <1>6, <1>7 DEF TypeOK
  <2>2. done' \in [Threads -> Nat]
    BY <1>0, <1>1, <1>2 DEF TypeOK, D
  <2> QED
    BY <1>0, <1>2, <2>1, <2>2 DEF TypeOK
<1>9. CallInv'
  <2>1. D' <= C'.size /\ Pages(C') = Pages(C)
    BY <1>1, <1>2, <1>7
  <2> QED
    BY <1>0, <1>2, <1>7, <2>1 DEF CallInv, At
<1>10. HeldInv'
  BY <1>0, <1>2, <1>7 DEF HeldInv, At
<1>11. TablesInv'
  <2>1. \A s \in Spaces : /\ HeldPages(s)' = HeldPages(s)
                          /\ Unsettled(s)' = Unsettled(s) /\ Emptied(s)' = Emptied(s)
    BY <1>2, <1>7 DEF HeldPages, Unsettled, Emptied, At
  <2> QED
    BY <1>0, <1>2, <2>1 DEF TablesInv
<1>12. MapInv'
  <2>1. MappedPart' = (C.addr + (D + 1)) .. (C.addr + C.size - 1)
    BY <1>7 DEF MappedPart, At
  <2>2. MappedPart' = MappedPart \ {v}
    BY <1>1, <1>3, <1>5, <2>1
  <2>3. \A r \in allocs : v \notin Pages(r)
    BY <1>0, <1>2, <1>4 DEF HeldInv, At
  <2>4. ASSUME NEW u \in VPage
        PROVE  /\ pt'[u] # None <=> \/ \E r \in allocs' : u \in Pages(r)
                                    \/ u \in MappedPart'
               /\ pt'[u] # None => pd'[TableOf(u)] # None
    <3>1. CASE u = v
      BY <1>2, <1>7, <2>2, <2>3, <3>1
    <3>2. CASE u # v
      BY <1>0, <1>2, <1>7, <2>2, <3>2 DEF MapInv
    <3> QED
      BY <3>1, <3>2
  <2> QED
    BY <2>4 DEF MapInv
<1>13. TlbInv'
  <2> SUFFICES ASSUME NEW u \in VPage
               PROVE  \/ tlb'[u] = None \/ tlb'[u] = pt'[u]
                      \/ At({"unmap"})' /\ u \in C'.addr .. (C'.addr + D' - 1)
    BY DEF TlbInv
  <2>1. C.addr .. (C.addr + (D + 1) - 1) = (C.addr .. (C.addr + D - 1)) \cup {v}
    BY <1>1, <1>3
  <2>2. CASE u = v
    BY <1>7, <2>1, <2>2 DEF At
  <2>3. CASE u # v
    BY <1>0, <1>2, <1>7, <2>1, <2>3 DEF TlbInv, At
  <2> QED
    BY <2>2, <2>3
<1>14. FrameInv'
  <2>0. frame[Caller] = None
    BY <1>0, <1>2 DEF CallInv, At
  <2>1. \A u, w \in VPage : pt'[u] = pt'[w] /\ pt'[u] # None => u = w
    BY <1>0, <1>7 DEF FrameInv
  <2>2. ASSUME NEW u \in VPage, pt'[u] # None
        PROVE  /\ pt'[u] \notin free' /\ pt'[u] # frame'[Caller]
               /\ \A d \in Table : pt'[u] # pd'[d]
    <3>1. u # v /\ pt'[u] = pt[u]
      BY <1>7, <2>2
    <3> QED
      BY <1>0, <1>2, <1>4, <1>7, <2>2, <3>1 DEF FrameInv
  <2>3. \A d \in Table : pd'[d] # None => pd'[d] \notin free' /\ pd'[d] # frame'[Caller]
    BY <1>0, <1>2, <1>4, <1>6, <1>7 DEF FrameInv
  <2>4. frame'[Caller] \notin free'
    BY <1>0, <1>6, <1>7, <2>0 DEF FrameInv
  <2>5. \A f \in Frame : \/ f \in free' \/ f = frame'[Caller]
                         \/ \E u \in VPage : pt'[u] = f
                         \/ \E d \in Table : pd'[d] = f
    BY <1>0, <1>2, <1>7 DEF FrameInv
  <2> QED
    BY <1>0, <1>2, <2>1, <2>2, <2>3, <2>4, <2>5 DEF FrameInv
<1> QED
  BY <1>8, <1>9, <1>10, <1>11, <1>12, <1>13, <1>14 DEF VmmInv

\* The last page is unmapped: the TLB is flushed and the call returns.
LEMMA UnmapReturnKeeps ==
  ASSUME OneCaller, VmmInv, UnmapReturn(Caller)
  PROVE  VmmInv'
<1>0. TypeOK /\ CallInv /\ HeldInv /\ TablesInv /\ MapInv /\ TlbInv /\ FrameInv
  BY DEF VmmInv
<1>1. /\ Threads = {Caller} /\ Caller \in Threads
      /\ C.addr \in Nat /\ C.size \in Nat /\ D \in Nat
  BY <1>0, Types
<1>2. /\ pc[Caller] = "unmap" /\ D >= C.size
      /\ tlb' = [v \in VPage |-> None]
      /\ pc' = [pc EXCEPT ![Caller] = "idle"] /\ call' = [call EXCEPT ![Caller] = NoCall]
      /\ fb' = [fb EXCEPT ![Caller] = 0] /\ done' = [done EXCEPT ![Caller] = 0]
      /\ UNCHANGED <<blocks, end, pd, pt, free, frame, allocs>>
  BY DEF UnmapReturn, Return, Flushed, ToUnmap, tables, C, D
<1>3. pc'[Caller] = "idle" /\ D' = 0 /\ frame[Caller] = None
  BY <1>0, <1>1, <1>2 DEF TypeOK, D, CallInv, At
<1>4. TypeOK'
  <2>1. NoCall \in [op : {"none", "alloc", "undo", "free"},
                    space : Spaces, addr : Nat, size : Nat] /\ 0 \in Slot
    BY VmmAssumption DEF NoCall, Slot
  <2> QED
    BY <1>0, <1>2, <2>1 DEF TypeOK
<1>5. CallInv'
  BY <1>2, <1>3 DEF CallInv, At
<1>6. HeldInv'
  BY <1>0, <1>2, <1>3 DEF HeldInv, At
<1>7. TablesInv'
  <2>1. \A s \in Spaces : /\ HeldPages(s)' = HeldPages(s)
                          /\ Unsettled(s)' = Unsettled(s) /\ Emptied(s)' = Emptied(s)
    BY <1>2, <1>3 DEF HeldPages, Unsettled, Emptied, At
  <2> QED
    BY <1>0, <1>2, <2>1 DEF TablesInv
<1>8. MapInv'
  <2>1. MappedPart = (C.addr + D) .. (C.addr + C.size - 1)
    BY <1>2 DEF MappedPart, At
  <2>2. MappedPart = {}
    BY <1>1, <1>2, <2>1
  <2>3. MappedPart' = {}
    BY <1>3 DEF MappedPart, At
  <2> QED
    BY <1>0, <1>2, <2>2, <2>3 DEF MapInv
<1>9. TlbInv'
  BY <1>2 DEF TlbInv
<1>10. FrameInv'
  BY <1>0, <1>2 DEF FrameInv
<1> QED
  BY <1>4, <1>5, <1>6, <1>7, <1>8, <1>9, <1>10 DEF VmmInv

\* The processor caches a mapping.
LEMMA TlbFillKeeps ==
  ASSUME OneCaller, VmmInv, NEW v \in VPage, TlbFill(v)
  PROVE  VmmInv'
<1>0. TypeOK /\ TlbInv
  BY DEF VmmInv
<1>1. /\ tlb' = [tlb EXCEPT ![v] = pt[v]]
      /\ UNCHANGED <<blocks, end, pd, pt, free, pc, call, fb, done, frame, allocs>>
  BY DEF TlbFill, tables, locals
<1>2. TypeOK'
  BY <1>0, <1>1 DEF TypeOK
<1>3. C' = C /\ K' = K /\ D' = D /\ \A S : At(S)' <=> At(S)
  BY <1>1 DEF C, K, D, At
<1>4. TlbInv'
  <2>1. \A u \in VPage : tlb'[u] = IF u = v THEN pt[v] ELSE tlb[u]
    BY <1>0, <1>1 DEF TypeOK
  <2> QED
    BY <1>0, <1>1, <1>3, <2>1 DEF TlbInv
<1>5. CallInv' /\ HeldInv' /\ FrameInv'
  BY <1>1, <1>3 DEF VmmInv, CallInv, HeldInv, FrameInv
<1>6. MapInv'
  BY <1>1, <1>3 DEF VmmInv, MapInv, MappedPart
<1>7. TablesInv'
  BY <1>1, <1>3 DEF VmmInv, TablesInv, HeldPages, Unsettled, Emptied
<1> QED
  BY <1>2, <1>4, <1>5, <1>6, <1>7 DEF VmmInv

\* A step that changes nothing.
LEMMA StutterKeeps ==
  ASSUME VmmInv, UNCHANGED vars
  PROVE  VmmInv'
<1>1. UNCHANGED <<blocks, end, pd, pt, tlb, free, pc, call, fb, done, frame, allocs>>
  BY DEF vars, tables, paging, locals
<1>2. TypeOK'
  BY <1>1 DEF VmmInv, TypeOK
<1>3. C' = C /\ K' = K /\ D' = D /\ \A S : At(S)' <=> At(S)
  BY <1>1 DEF C, K, D, At
<1>4. CallInv' /\ HeldInv' /\ FrameInv' /\ TlbInv'
  BY <1>1, <1>3 DEF VmmInv, CallInv, HeldInv, FrameInv, TlbInv
<1>5. MapInv'
  BY <1>1, <1>3 DEF VmmInv, MapInv, MappedPart
<1>6. TablesInv'
  BY <1>1, <1>3 DEF VmmInv, TablesInv, HeldPages, Unsettled, Emptied
<1> QED
  BY <1>2, <1>4, <1>5, <1>6 DEF VmmInv

------------------------------------------------------------------------------
(***************************************************************************)
(* The invariant, and what it says.                                        *)

\* At the start each space is one free range, and nothing is mapped.
LEMMA InitHolds ==
  ASSUME OneCaller, Init
  PROVE  VmmInv
<1>1. /\ Threads = {Caller} /\ Caller \in Threads /\ 0 \in Slot
      /\ \A s \in Spaces : SpaceStart[s] \in Nat /\ SpacePages[s] \in Nat \ {0}
  BY VmmAssumption DEF OneCaller, Caller, Slot
<1>2. NoCall \in [op : {"none", "alloc", "undo", "free"},
                  space : Spaces, addr : Nat, size : Nat]
  BY VmmAssumption DEF NoCall
<1>3. /\ pc[Caller] = "idle" /\ D = 0 /\ frame[Caller] = None
      /\ allocs = {} /\ free = Frame /\ end = [s \in Spaces |-> 0]
      /\ pd = [d \in Table |-> None] /\ pt = [v \in VPage |-> None]
      /\ tlb = [v \in VPage |-> None]
  BY <1>1 DEF Init, D
<1>4. ASSUME NEW s \in Spaces
      PROVE  /\ blocks[s] \in [Slot -> Entry]
             /\ blocks[s][0].addr = SpaceStart[s] /\ blocks[s][0].size = SpacePages[s]
  <2>1. blocks[s] = [k \in Slot |->
          IF k = 0 THEN [addr |-> SpaceStart[s], size |-> SpacePages[s]]
                   ELSE [addr |-> 0, size |-> 0]]
    BY DEF Init
  <2>2. blocks[s][0] = [addr |-> SpaceStart[s], size |-> SpacePages[s]]
    BY <1>1, <2>1
  <2> QED
    BY <1>1, <2>1, <2>2 DEF Entry
<1>5. TypeOK
  <2>1. blocks \in [Spaces -> [Slot -> [addr : Nat, size : Nat]]]
    <3>1. blocks = [s \in Spaces |-> blocks[s]]
      BY DEF Init
    <3> QED
      BY <1>4, <3>1 DEF Entry
  <2> QED
    BY <1>1, <1>2, <2>1 DEF Init, TypeOK
<1>6. CallInv /\ HeldInv /\ TlbInv
  BY <1>3 DEF CallInv, HeldInv, TlbInv, At
<1>7. TablesInv
  <2> SUFFICES ASSUME NEW s \in Spaces
               PROVE  GoodTable(blocks[s], end[s], SpaceRange(s) \ HeldPages(s),
                                Unsettled(s), Emptied(s))
    BY DEF TablesInv
  <2>1. HeldPages(s) = {} /\ Unsettled(s) = -1 /\ Emptied(s) = -1 /\ end[s] = 0
    BY <1>3 DEF HeldPages, OfSpace, Unsettled, Emptied, At
  <2>2. Pages(blocks[s][0]) = SpaceRange(s) /\ blocks[s][0].size > 0
    <3>1. blocks[s][0].addr = SpaceStart[s] /\ blocks[s][0].size = SpacePages[s]
      BY <1>4
    <3>2. SpacePages[s] > 0
      BY <1>1
    <3> QED
      BY <3>1, <3>2 DEF Pages, SpaceRange
  <2>3. \A k \in 0..0 : k = 0
    OBVIOUS
  <2>4. GoodTable(blocks[s], 0, SpaceRange(s), -1, -1)
    BY <2>2, <2>3 DEF GoodTable, Tiling, Sorted, Apart, Filled
  <2> QED
    BY <2>1, <2>4
<1>8. MapInv
  <2>1. MappedPart = {}
    BY <1>3 DEF MappedPart, At
  <2> QED
    BY <1>3, <2>1 DEF MapInv
<1>9. FrameInv
  BY <1>3, VmmAssumption DEF FrameInv
<1> QED
  BY <1>5, <1>6, <1>7, <1>8, <1>9 DEF VmmInv

\* Every step of the allocator or of the TLB keeps the invariant.
LEMMA NextKeeps ==
  ASSUME OneCaller, VmmInv, [Next]_vars
  PROVE  VmmInv'
<1>1. Threads = {Caller}
  BY DEF OneCaller, Caller
<1>2. CASE UNCHANGED vars
  BY <1>2, StutterKeeps
<1>3. CASE \E v \in VPage : TlbFill(v)
  BY <1>3, TlbFillKeeps
<1>4. CASE Call(Caller)
  <2>1. ASSUME NEW s \in Spaces, NEW n \in Sizes, AllocTake(Caller, s, n)
        PROVE  VmmInv'
    BY <2>1, AllocTakeKeeps
  <2>2. ASSUME NEW s \in Spaces, NEW n \in Sizes, AllocNoFit(Caller, s, n)
        PROVE  VmmInv'
    BY <2>2, StutterKeeps DEF AllocNoFit
  <2>3. ASSUME NEW r \in allocs, FreeBlock(Caller, r)
        PROVE  VmmInv'
    BY <2>3, FreeBlockKeeps
  <2>4. ASSUME NEW r \in allocs, FreeBlockFull(Caller, r)
        PROVE  VmmInv'
    BY <2>4, FreeBlockFullKeeps
  <2>5. ASSUME NEW r \in allocs \cup Unmapped, FreeBlockFalse(Caller, r)
        PROVE  VmmInv'
    BY <2>5, StutterKeeps DEF FreeBlockFalse
  <2> QED
    BY <1>4, <2>1, <2>2, <2>3, <2>4, <2>5 DEF Call
<1>5. CASE Step(Caller)
  BY <1>5, AllocFrameKeeps, MapPageKeeps, MapPageNewTableKeeps, AllocFailsKeeps,
     AllocReturnKeeps, SettleMergeKeeps, SettleDoneKeeps, UnmapPageKeeps,
     UnmapReturnKeeps DEF Step
<1> QED
  BY <1>1, <1>2, <1>3, <1>4, <1>5 DEF Next

\* With one caller the invariant of vmm.c holds at every step: of its tables,
\* its mappings, its frames and the TLB together.
THEOREM VmmInvariant == ASSUME OneCaller PROVE Spec => []VmmInv
<1>1. Init => VmmInv
  BY InitHolds
<1>2. VmmInv /\ [Next]_vars => VmmInv'
  BY NextKeeps
<1> QED
  BY <1>1, <1>2, PTL DEF Spec

\* Every index stays in its table and every thread in its call.
THEOREM TypesKept == ASSUME OneCaller PROVE Spec => []TypeOK
<1>1. VmmInv => TypeOK
  BY DEF VmmInv
<1> QED
  BY <1>1, VmmInvariant, PTL

\* A frame has one place in a state that satisfies the invariant.
LEMMA OnePlace ==
  ASSUME OneCaller, VmmInv
  PROVE  FramesOnce
<1>0. TypeOK /\ FrameInv /\ Threads = {Caller}
  BY DEF VmmInv, OneCaller, Caller
<1> SUFFICES ASSUME NEW f \in Frame PROVE Cardinality(Places(f)) = 1
  BY DEF FramesOnce
<1>1. f # None
  BY VmmAssumption
<1>2. \E x : Places(f) = {x}
  <2>1. CASE f \in free
    <3>1. /\ {u \in VPage : pt[u] = f} = {} /\ {u \in Table : pd[u] = f} = {}
          /\ {u \in Threads : frame[u] = f} = {}
      BY <1>0, <1>1, <2>1 DEF FrameInv
    <3>2. Places(f) = {<<"free", 0>>}
      BY <2>1, <3>1 DEF Places
    <3> QED
      BY <3>2
  <2>2. CASE f = frame[Caller]
    <3>1. /\ {u \in VPage : pt[u] = f} = {} /\ {u \in Table : pd[u] = f} = {}
          /\ {u \in Threads : frame[u] = f} = {Caller} /\ free \cap {f} = {}
      BY <1>0, <1>1, <2>2 DEF FrameInv
    <3>2. Places(f) = {<<"hand", Caller>>}
      BY <3>1 DEF Places
    <3> QED
      BY <3>2
  <2>3. CASE \E v \in VPage : pt[v] = f
    <3>1. PICK v \in VPage : pt[v] = f
      BY <2>3
    <3>2. /\ {u \in VPage : pt[u] = f} = {v} /\ {u \in Table : pd[u] = f} = {}
          /\ {u \in Threads : frame[u] = f} = {} /\ free \cap {f} = {}
      BY <1>0, <1>1, <3>1 DEF FrameInv
    <3>3. Places(f) = {<<"page", v>>}
      BY <3>2 DEF Places
    <3> QED
      BY <3>3
  <2>4. CASE \E d \in Table : pd[d] = f
    <3>1. PICK d \in Table : pd[d] = f
      BY <2>4
    <3>2. {u \in VPage : pt[u] = f} = {}
      BY <1>0, <1>1, <3>1 DEF FrameInv
    <3>3. /\ {u \in Table : pd[u] = f} = {d}
          /\ {u \in Threads : frame[u] = f} = {} /\ free \cap {f} = {}
      BY <1>0, <1>1, <3>1 DEF FrameInv
    <3>4. Places(f) = {<<"table", d>>}
      BY <3>2, <3>3 DEF Places
    <3> QED
      BY <3>4
  <2> QED
    BY <1>0, <2>1, <2>2, <2>3, <2>4 DEF FrameInv
<1> QED
  BY <1>2, FS_Singleton

\* Every physical page is in exactly one place at every step of alloc_block,
\* its rollback and free_block.
THEOREM FramesKept == ASSUME OneCaller PROVE Spec => []FramesOnce
<1>1. VmmInv => FramesOnce
  BY OnePlace
<1> QED
  BY <1>1, VmmInvariant, PTL

\* A page of a space is in one entry or in one range that is held or mapped.
LEMMA EachPageOnce ==
  ASSUME OneCaller, VmmInv
  PROVE  SpaceTiled
<1>0. /\ TypeOK /\ CallInv /\ HeldInv /\ TablesInv /\ Threads = {Caller}
      /\ \A r \in allocs : r.space \in Spaces
  BY Types DEF VmmInv
<1> SUFFICES ASSUME NEW s \in Spaces, NEW v \in SpaceRange(s)
             PROVE  Cardinality({k \in 0..end[s] : v \in Pages(blocks[s][k])})
                    + Cardinality({r \in allocs \cup Reserved :
                                     r.space = s /\ v \in Pages(r)}) = 1
  BY DEF SpaceTiled
<1> DEFINE E == {k \in 0..end[s] : v \in Pages(blocks[s][k])}
           R == {r \in allocs \cup Reserved : r.space = s /\ v \in Pages(r)}
<1>1. Tiling(blocks[s], end[s], SpaceRange(s) \ HeldPages(s))
  BY <1>0 DEF TablesInv, GoodTable
<1>2. /\ RangeOf(Caller).space = C.space /\ Pages(RangeOf(Caller)) = Pages(C)
      /\ Reserved = IF At({"frame", "map"}) THEN {RangeOf(Caller)} ELSE {}
  BY <1>0 DEF RangeOf, C, Pages, Reserved, At
<1>3. v \in HeldPages(s) <=> \E r \in allocs \cup Reserved : r.space = s /\ v \in Pages(r)
  BY <1>2 DEF HeldPages, OfSpace
<1>4. \A q, r \in R : q = r
  <2>1. ASSUME NEW q \in allocs, NEW r \in Reserved PROVE Pages(q) \cap Pages(r) = {}
    BY <1>0, <1>2, <2>1 DEF HeldInv, At
  <2>2. \A q, r \in allocs : q # r => Pages(q) \cap Pages(r) = {}
    BY <1>0 DEF HeldInv
  <2>3. \A q, r \in Reserved : q = r
    BY <1>2
  <2> QED
    BY <2>1, <2>2, <2>3
<1>5. \A k, l \in E : k = l
  BY <1>1 DEF Tiling
<1>6. CASE v \in HeldPages(s)
  <2>1. E = {}
    BY <1>1, <1>6 DEF Tiling
  <2>2. \E r : R = {r}
    BY <1>3, <1>4, <1>6
  <2> HIDE DEF E, R
  <2>3. Cardinality(E) = 0 /\ Cardinality(R) = 1
    BY <2>1, <2>2, FS_EmptySet, FS_Singleton
  <2> QED
    BY <2>3 DEF E, R
<1>7. CASE v \notin HeldPages(s)
  <2>1. R = {}
    BY <1>3, <1>7
  <2>2. \E k : E = {k}
    BY <1>1, <1>5, <1>7 DEF Tiling
  <2> HIDE DEF E, R
  <2>3. Cardinality(E) = 1 /\ Cardinality(R) = 0
    BY <2>1, <2>2, FS_EmptySet, FS_Singleton
  <2> QED
    BY <2>3 DEF E, R
<1> QED
  BY <1>6, <1>7

\* Free entries, held ranges and the one being mapped tile each space: no
\* range leaks, and none is handed out twice.
THEOREM SpaceKept == ASSUME OneCaller PROVE Spec => []SpaceTiled
<1>1. VmmInv => SpaceTiled
  BY EachPageOnce
<1> QED
  BY <1>1, VmmInvariant, PTL

\* Between calls exactly the pages callers hold are mapped.
THEOREM MappingsKept == ASSUME OneCaller PROVE Spec => []MappedExactly
<1>1. ASSUME VmmInv, Idle PROVE {v \in VPage : pt[v] # None} = UNION {Pages(r) : r \in allocs}
  <2>1. TypeOK /\ HeldInv /\ MapInv
    BY <1>1 DEF VmmInv
  <2>2. pc[Caller] = "idle" /\ \A r \in allocs : r.space \in Spaces
    BY <1>1, <2>1, Types DEF Idle
  <2>3. MappedPart = {}
    BY <2>2 DEF MappedPart, At
  <2>4. \A r \in allocs : Pages(r) \subseteq VPage
    BY <2>1, <2>2, Space DEF HeldInv
  <2> QED
    BY <2>1, <2>3, <2>4 DEF MapInv
<1>2. VmmInv => MappedExactly
  BY <1>1 DEF MappedExactly
<1> QED
  BY <1>2, VmmInvariant, PTL

\* Between calls a table is sorted by size and has no empty entry.
THEOREM TablesSorted == ASSUME OneCaller PROVE Spec => []SortedBySize
<1>1. ASSUME VmmInv, Idle, NEW s \in Spaces, NEW k \in 0..end[s]
      PROVE  /\ blocks[s][k].size > 0
             /\ k < end[s] => blocks[s][k].size >= blocks[s][k + 1].size
  <2>1. TypeOK /\ TablesInv
    BY <1>1 DEF VmmInv
  <2>2. pc[Caller] = "idle" /\ end[s] \in Last
    BY <1>1, <2>1, Types DEF Idle
  <2>3. GoodTable(blocks[s], end[s], SpaceRange(s) \ HeldPages(s), -1, -1)
    BY <2>1, <2>2 DEF TablesInv, Unsettled, Emptied, At
  <2>4. k \in Int /\ k # -1 /\ end[s] \in Int
    BY <2>2, Entries, VmmAssumption DEF Last, Slot
  <2>5. k < end[s] => k + 1 \in 0..end[s] /\ k + 1 # -1
    BY <2>4
  <2> QED
    BY <2>3, <2>4, <2>5 DEF GoodTable, Sorted, Filled
<1>2. VmmInv => SortedBySize
  BY <1>1 DEF SortedBySize
<1> QED
  BY <1>2, VmmInvariant, PTL

\* No caller sees a stale translation of its pages, nor between calls of any.
THEOREM TlbKept == ASSUME OneCaller PROVE Spec => []TlbCoherent
<1>1. ASSUME VmmInv PROVE TlbCoherent
  <2>1. TypeOK /\ CallInv /\ HeldInv /\ TlbInv /\ Caller \in Threads
    BY <1>1, Types DEF VmmInv
  <2>2. ASSUME NEW r \in allocs, NEW v \in Pages(r) PROVE tlb[v] \in {None, pt[v]}
    <3>1. r.space \in Spaces /\ C.addr \in Nat /\ C.size \in Nat /\ D \in Nat
      BY <2>1, Types
    <3>2. v \in VPage
      BY <2>1, <3>1, Space DEF HeldInv
    <3>3. At({"unmap"}) => v \notin C.addr .. (C.addr + D - 1)
      <4>1. At({"unmap"}) => v \notin Pages(C) /\ D <= C.size
        BY <2>1 DEF HeldInv, CallInv, At
      <4>2. D <= C.size => C.addr .. (C.addr + D - 1) \subseteq Pages(C)
        BY <3>1 DEF Pages
      <4> QED
        BY <4>1, <4>2
    <3> QED
      BY <2>1, <3>2, <3>3 DEF TlbInv
  <2>3. Idle => \A v \in VPage : tlb[v] \in {None, pt[v]}
    BY <2>1 DEF Idle, TlbInv, At
  <2> QED
    BY <2>2, <2>3 DEF TlbCoherent
<1> QED
  BY <1>1, VmmInvariant, PTL

\* When n pages in a row are free they lie in one entry: the entry after one
\* that ended among them would have been merged with it.
LEMMA RoomFits ==
  ASSUME OneCaller, VmmInv, Idle, NEW s \in Spaces, NEW v \in SpaceRange(s),
         NEW n \in Nat \ {0}, v .. (v + n - 1) \subseteq SpaceRange(s),
         \A r \in allocs : Pages(r) \cap (v .. (v + n - 1)) = {}
  PROVE  Fits(s, n) # {}
<1> DEFINE a == blocks[s]
           e == end[s]
           want == v .. (v + n - 1)
           rest == SpaceRange(s) \ HeldPages(s)
<1>0. TypeOK /\ TablesInv
  BY DEF VmmInv
<1>1. pc[Caller] = "idle" /\ a \in [Slot -> Entry] /\ e \in Last /\ v \in Nat
  BY <1>0, Types, Space DEF Idle
<1>2. GoodTable(a, e, rest, -1, -1)
  BY <1>0, <1>1 DEF TablesInv, Unsettled, Emptied, At
<1>3. \A k \in 0..e : /\ a[k].addr \in Nat /\ a[k].size \in Nat
                      /\ k # -1 /\ a[k].size > 0
  <2>1. \A k \in 0..e : k # -1 /\ a[k].addr \in Nat /\ a[k].size \in Nat
    BY <1>1, Entries
  <2> QED
    BY <1>2, <2>1 DEF GoodTable, Filled
<1>4. want \subseteq rest
  <2>1. HeldPages(s) = OfSpace(allocs, s)
    BY <1>1 DEF HeldPages, At
  <2> QED
    BY <2>1 DEF OfSpace
<1>5. v \in want
  BY <1>1
<1> HIDE DEF a, e, rest
<1>6. PICK k \in 0..e : v \in Pages(a[k])
  BY <1>2, <1>4, <1>5 DEF GoodTable, Tiling
<1>7. Stop(a[k]) >= v + n
  <2> DEFINE w == Stop(a[k])
  <2> SUFFICES ASSUME ~(w >= v + n) PROVE FALSE
    OBVIOUS
  <2>1. w \in Nat /\ v < w /\ w - 1 \in Pages(a[k]) /\ w \notin Pages(a[k])
    BY <1>3, <1>6 DEF Pages, Stop
  <2>2. w \in want
    BY <1>1, <2>1
  <2> HIDE DEF w, want
  <2>3. PICK l \in 0..e : w \in Pages(a[l])
    BY <1>2, <1>4, <2>2 DEF GoodTable, Tiling
  <2>4. l # k
    BY <2>1, <2>3
  <2>5. w - 1 \notin Pages(a[l])
    BY <1>2, <2>1, <2>4 DEF GoodTable, Tiling
  <2>6. a[l].addr = w
    BY <1>3, <2>1, <2>3, <2>5 DEF Pages
  <2>7. ~Adjacent(a[k], a[l])
    BY <1>2, <1>3, <2>4 DEF GoodTable, Apart
  <2> QED
    BY <2>6, <2>7 DEF Adjacent, w
<1>8. a[k].size >= n
  <2>1. a[k].addr <= v
    BY <1>1, <1>3, <1>6 DEF Pages
  <2> QED
    BY <1>1, <1>3, <1>7, <2>1 DEF Stop
<1> QED
  BY <1>6, <1>8 DEF Fits, a, e

\* Between calls alloc_block finds an entry whenever that many contiguous
\* pages of the space are free.
THEOREM RoomFound == ASSUME OneCaller PROVE Spec => []FitsWhenRoom
<1>1. ASSUME VmmInv, Idle, NEW s \in Spaces, NEW v \in SpaceRange(s),
             NEW n \in 1..SpacePages[s],
             v .. (v + n - 1) \subseteq SpaceRange(s),
             \A r \in allocs : Pages(r) \cap (v .. (v + n - 1)) = {}
      PROVE  Fits(s, n) # {}
  <2>1. n \in Nat \ {0}
    OBVIOUS
  <2> QED
    BY <1>1, <2>1, RoomFits
<1>2. VmmInv => FitsWhenRoom
  BY <1>1 DEF FitsWhenRoom
<1> QED
  BY <1>2, VmmInvariant, PTL

\* What the callers hold, as RangeAllocator names it.
Holds(H) == {[addr |-> r.addr, size |-> r.size] : r \in H}

\* A step of vmm.c hands out one range, takes one back, or does neither.
LEMMA StepOfAllocator ==
  ASSUME OneCaller, [Next]_vars
  PROVE  \/ UNCHANGED allocs
         \/ pc[Caller] = "frame" /\ allocs' = allocs \cup {RangeOf(Caller)}
         \/ \E r \in allocs : allocs' = allocs \ {r}
<1>1. Threads = {Caller}
  BY DEF OneCaller, Caller
<1>2. CASE UNCHANGED vars
  BY <1>2 DEF vars
<1>3. CASE \E v \in VPage : TlbFill(v)
  BY <1>3 DEF TlbFill
<1>4. CASE Call(Caller)
  BY <1>4 DEF Call, AllocTake, AllocNoFit, FreeBlock, FreeBlockFull, FreeBlockFalse,
              Publish, vars
<1>5. CASE Step(Caller)
  <2>1. CASE AllocReturn(Caller)
    BY <2>1 DEF AllocReturn
  <2>2. CASE MapPage(Caller) \/ MapPageNewTable(Caller)
    BY <2>2 DEF MapPage, MapPageNewTable, SetEntry
  <2>3. CASE AllocFrame(Caller) \/ AllocFails(Caller)
    BY <2>3 DEF AllocFrame, AllocFails
  <2>4. CASE SettleMerge(Caller) \/ SettleDone(Caller)
    BY <2>4 DEF SettleMerge, SettleDone
  <2>5. CASE UnmapPage(Caller) \/ UnmapReturn(Caller)
    BY <2>5 DEF UnmapPage, UnmapReturn
  <2> QED
    BY <1>5, <2>1, <2>2, <2>3, <2>4, <2>5 DEF Step
<1> QED
  BY <1>1, <1>2, <1>3, <1>4, <1>5 DEF Next

\* Ranges that are held are told apart by where they start.
LEMMA HeldApart ==
  ASSUME OneCaller, TypeOK, HeldInv
  PROVE  /\ \A r \in allocs : r.addr \in Nat /\ r.size \in Nat /\ r.addr \in Pages(r)
         /\ \A r, q \in allocs : r # q => r.addr # q.addr
<1>1. \A r \in allocs : r.addr \in Nat /\ r.size \in Nat /\ r.addr \in Pages(r)
  <2> TAKE r \in allocs
  <2>1. r.addr \in Nat /\ r.size \in Nat /\ r.size >= 1
    BY Types DEF HeldInv
  <2> QED
    BY <2>1 DEF Pages
<1> QED
  BY <1>1 DEF HeldInv

\* Each step is a step of RangeAllocator or leaves what is held as it is.
LEMMA StepRefines ==
  ASSUME OneCaller, VmmInv, [Next]_vars
  PROVE  [Ranges!Next]_(Holds(allocs))
<1>0. TypeOK /\ CallInv /\ HeldInv
  BY DEF VmmInv
<1>1. CASE UNCHANGED allocs
  BY <1>1 DEF Holds
<1>2. CASE pc[Caller] = "frame" /\ allocs' = allocs \cup {RangeOf(Caller)}
  <2> DEFINE x == [addr |-> C.addr, size |-> C.size]
  <2>1. /\ C.space \in Spaces /\ C.addr \in Nat /\ C.size \in Nat
        /\ C.size >= 1 /\ Pages(C) \subseteq SpaceRange(C.space)
    BY <1>0, <1>2, Types DEF CallInv, At
  <2>2. Pages(x) = Pages(C) /\ C.addr \in Pages(C)
    BY <2>1 DEF Pages
  <2>3. RangeOf(Caller) = [space |-> C.space, addr |-> C.addr, size |-> C.size]
    BY DEF RangeOf, C
  <2>4. Holds(allocs') = Holds(allocs) \cup {x}
    BY <1>2, <2>3 DEF Holds
  <2>5. Pages(x) \subseteq VPage
    BY <2>1, <2>2, Space
  <2>6. \A q \in Holds(allocs) : q.addr # x.addr /\ Pages(q) \cap Pages(x) = {}
    <3> SUFFICES ASSUME NEW r \in allocs
                 PROVE  LET q == [addr |-> r.addr, size |-> r.size]
                        IN  q.addr # x.addr /\ Pages(q) \cap Pages(x) = {}
      BY DEF Holds
    <3>1. Pages(r) \cap Pages(C) = {}
      BY <1>0, <1>2 DEF HeldInv, At
    <3>2. Pages([addr |-> r.addr, size |-> r.size]) = Pages(r) /\ r.addr \in Pages(r)
      BY <1>0, HeldApart DEF Pages
    <3> QED
      BY <2>2, <3>1, <3>2
  <2>7. x \notin Holds(allocs)
    BY <2>6
  <2> HIDE DEF x
  <2>8. Ranges!Alloc(x)
    BY <2>4, <2>5, <2>6 DEF Ranges!Alloc, Ranges!Units, Pages, Holds
  <2>9. x \in Holds(allocs)' \ Holds(allocs)
    BY <2>4, <2>7 DEF Holds
  <2>10. \E r \in Holds(allocs)' \ Holds(allocs) : Ranges!Alloc(r)
    BY <2>8, <2>9 DEF Ranges!Alloc
  <2> QED
    BY <2>10 DEF Ranges!Next, Holds
<1>3. CASE \E r \in allocs : allocs' = allocs \ {r}
  <2>1. PICK r \in allocs : allocs' = allocs \ {r}
    BY <1>3
  <2> DEFINE x == [addr |-> r.addr, size |-> r.size]
  <2>2. x \in Holds(allocs)
    BY DEF Holds
  <2>3. Holds(allocs') = Holds(allocs) \ {x}
    <3>1. \A q \in allocs : q # r => [addr |-> q.addr, size |-> q.size] # x
      BY <1>0, HeldApart
    <3> QED
      BY <2>1, <3>1 DEF Holds
  <2> HIDE DEF x
  <2>4. Ranges!Free(x)
    BY <2>3 DEF Ranges!Free, Holds
  <2> QED
    BY <2>2, <2>4 DEF Ranges!Next, Holds
<1> QED
  BY <1>1, <1>2, <1>3, StepOfAllocator

\* alloc_block and free_block implement an allocator of ranges, through every
\* failure in between.
THEOREM Implements == ASSUME OneCaller PROVE Spec => RangeAllocatorSpec
<1>1. Init => Ranges!Init
  BY DEF Init, Ranges!Init
<1>2. VmmInv /\ [Next]_vars => [Ranges!Next]_({[addr |-> r.addr, size |-> r.size] : r \in allocs})
  BY StepRefines DEF Holds
<1> QED
  BY <1>1, <1>2, VmmInvariant, PTL DEF Spec, RangeAllocatorSpec, Ranges!Spec
==============================================================================
