----------------------------- MODULE Heap_proofs -----------------------------
(***************************************************************************)
(* Theorems about Heap, for pages of any size and any pages left to the    *)
(* heap, under two hypotheses.  RoomBehind: requests leave room for a      *)
(* header behind them in the pages kmalloc asks for; without it the        *)
(* theorems are false, as the run heap_tail shows.  CleanPages: the pages  *)
(* the heap grows into hold NULL where the next field goes, which kmalloc  *)
(* does not set; nothing in the code sees to it.                           *)
(***************************************************************************)
EXTENDS Heap, FiniteSetTheorems, SequenceTheorems, WellFoundedInduction, TLAPS

\* The hypothesis: behind the request the new pages have room for the header
\* of the free block that is left, and for its own.
RoomBehind ==
  \A n \in Sizes :
    AlignedSize(n) + 2 * HEADER <= PagesFor(AlignedSize(n)) * PageUnits

\* The hypothesis: the memory the heap grows into ends the list.
CleanPages == Leftover = NULL

------------------------------------------------------------------------------
(***************************************************************************)
(* The inductive invariant: it names the list, l, and speaks of memory as  *)
(* a value, H, so that the lemmas hold of any memory.                      *)

Header == [size : Nat, status : {"none", "FREE", "USED"},
           next : Addr \cup {NULL}, prev : Addr \cup {NULL}]

Units(P) == UNION {UnitsOf(p) : p \in P}
End(H, h) == h + HEADER + H[h].size

\* The blocks of l, each linked to the next and to the one before.
Linked(l, H) ==
  \A k \in 1..Len(l) :
    /\ H[l[k]].next = IF k = Len(l) THEN NULL ELSE l[k + 1]
    /\ H[l[k]].prev = IF k = 1 THEN NULL ELSE l[k - 1]
    /\ H[l[k]].status \in {"FREE", "USED"}

\* They share no unit, and have every unit of the heap's pages.
Apart(l, H) ==
  \A j, k \in 1..Len(l) : j # k => End(H, l[j]) <= l[k] \/ End(H, l[k]) <= l[j]
Within(l, H, P) ==
  \A k \in 1..Len(l) : l[k] .. (End(H, l[k]) - 1) \subseteq Units(P)
Covers(l, H, P) ==
  \A a \in Units(P) : \E k \in 1..Len(l) : a \in l[k] .. (End(H, l[k]) - 1)

\* Nothing is left of any other header.
Clean(l, H) == \A a \in Addr : (\A k \in 1..Len(l) : l[k] # a) => H[a] = NoHeader

Listed(l, H, P) ==
  /\ H \in [Addr -> Header] /\ P \subseteq Space
  /\ l \in Seq(Addr) /\ Len(l) >= 1
  /\ Linked(l, H) /\ Apart(l, H) /\ Within(l, H, P) /\ Covers(l, H, P) /\ Clean(l, H)

\* Each block begins where a region of alloc_block does, or where the block
\* before it in the list ends.
Ordered(l, H, R) ==
  \A k \in 1..Len(l) : l[k] \in R \/ (k > 1 /\ End(H, l[k - 1]) = l[k])

\* What callers hold is what is used.
Held(l, H, L) ==
  /\ L \subseteq [addr : Nat, bytes : Nat] /\ IsFiniteSet(L)
  /\ \A x, y \in L : x # y => x.addr # y.addr
  /\ \A x \in L : \E k \in 1..Len(l) :
       /\ l[k] = x.addr - HEADER /\ H[l[k]].status = "USED"
       /\ x.bytes <= 8 * H[l[k]].size
  /\ \A k \in 1..Len(l) : H[l[k]].status = "USED" => \E x \in L : x.addr = l[k] + HEADER

\* The free blocks k and k + 1 touch: kfree would have merged them.
Unmerged(l, H, k) ==
  /\ k \in 1..(Len(l) - 1)
  /\ H[l[k]].status = "FREE" /\ H[l[k + 1]].status = "FREE"
  /\ End(H, l[k]) = l[k + 1]

\* Free blocks that touch lie between k and a used block or one of Z: when
\* that one is freed they are merged.
Reaches(l, H, k, Z) ==
  \E j \in (k + 1)..Len(l) :
    /\ H[l[j]].status = "USED" \/ l[j] \in Z
    /\ \A i \in k..(j - 1) : End(H, l[i]) = l[i + 1]
    /\ \A i \in (k + 1)..(j - 1) : H[l[i]].status = "FREE"

\* kfree at its block c.
Settled(l, H) == \A k \in 1..Len(l) : Unmerged(l, H, k) => Reaches(l, H, k, {})
MergesBack(l, H, c) ==
  \A k \in 1..Len(l) : Unmerged(l, H, k) => l[k] = c \/ Reaches(l, H, k, {c})
MergesOn(l, H, c) ==
  \A k \in 1..Len(l) : Unmerged(l, H, k) => l[k] = c \/ Reaches(l, H, k, {})

Freeing(l, H) ==
  /\ pc = "idle" => cur = NULL /\ Settled(l, H)
  /\ pc # "idle" => \E k \in 1..Len(l) : l[k] = cur /\ H[cur].status = "FREE"
  /\ pc = "prev" => MergesBack(l, H, cur)
  /\ pc = "next" => MergesOn(l, H, cur)

HeapInv ==
  /\ pc \in {"idle", "prev", "next"} /\ calls \in Nat /\ calls = Cardinality(live)
  /\ \E l \in Seq(Addr) :
       /\ l[1] = start /\ Listed(l, hdr, pages) /\ Held(l, hdr, live) /\ Freeing(l, hdr)
       /\ regions \subseteq Addr /\ Ordered(l, hdr, regions)

------------------------------------------------------------------------------
(***************************************************************************)
(* Addresses and pages.                                                    *)

\* Addresses are positive and keep their width; there are finitely many.
LEMMA Addresses ==
  /\ Addr \subseteq Nat \ {0} /\ NULL \notin Addr /\ IsFiniteSet(Addr)
  /\ \A a \in Addr : a < AddressSpace
  /\ PageUnits \in Nat /\ PageUnits > 2 /\ HEADER = 2
<1>1. PageUnits \in Nat /\ PageUnits > 2 /\ HEADER = 2
  BY HeapAssumption DEF HEADER
<1>2. ASSUME NEW p \in Space, NEW a \in UnitsOf(p) PROVE a \in Nat \ {0}
  <2>1. p \in Nat /\ p >= 1 BY HeapAssumption
  <2>2. (p - 1) * PageUnits \in Nat /\ p * PageUnits = (p - 1) * PageUnits + PageUnits
    BY <1>1, <2>1
  <2>3. p * PageUnits \in Nat /\ p * PageUnits >= PageUnits BY <1>1, <2>2
  <2>4. a \in p * PageUnits .. (p * PageUnits + PageUnits - 1) BY DEF UnitsOf
  <2> DEFINE b == p * PageUnits
  <2>5. b \in Nat /\ b >= PageUnits /\ a \in b .. (b + PageUnits - 1) BY <2>3, <2>4
  <2> HIDE DEF b
  <2> QED BY <1>1, <2>5
<1>3. Addr \subseteq Nat \ {0} BY <1>2 DEF Addr
<1>4. IsFiniteSet(Addr)
  <2>1. /\ Addr \in SUBSET Nat /\ AddressSpace \in Nat
        /\ \A a \in Addr : a <= AddressSpace
    BY <1>3, HeapAssumption
  <2> QED BY <2>1, FS_BoundedSetOfNaturals
<1>5. \A a \in Addr : a < AddressSpace BY HeapAssumption
<1> QED BY <1>1, <1>3, <1>4, <1>5 DEF NULL

\* No two pages share a unit.
LEMMA OnePage ==
  ASSUME NEW p \in Space, NEW q \in Space, NEW a \in UnitsOf(p), a \in UnitsOf(q)
  PROVE  p = q
<1>1. /\ p \in Int /\ q \in Int /\ PageUnits \in Nat /\ PageUnits > 2
  BY Addresses, HeapAssumption
<1>2. ASSUME NEW x \in Int, NEW y \in Int, x < y PROVE x * PageUnits + PageUnits <= y * PageUnits
  <2>1. (y - (x + 1)) * PageUnits \in Nat BY <1>1, <1>2
  <2>2. y * PageUnits - (x * PageUnits + PageUnits) = (y - (x + 1)) * PageUnits BY <1>1
  <2>3. x * PageUnits \in Int /\ y * PageUnits \in Int BY <1>1
  <2> QED BY <1>1, <2>1, <2>2, <2>3
<1> DEFINE b == p * PageUnits
           c == q * PageUnits
<1>3. /\ b \in Int /\ c \in Int
      /\ a \in b .. (b + PageUnits - 1) /\ a \in c .. (c + PageUnits - 1)
  BY <1>1 DEF UnitsOf
<1>4. (p < q => b + PageUnits <= c) /\ (q < p => c + PageUnits <= b) BY <1>1, <1>2
<1> HIDE DEF b, c
<1> QED BY <1>1, <1>3, <1>4

\* A run of pages is a run of units.
LEMMA Region ==
  ASSUME NEW p \in Space, NEW n \in Nat, n > 0, p .. (p + n - 1) \subseteq Space
  PROVE  /\ Units(p .. (p + n - 1)) = (p * PageUnits) .. (p * PageUnits + n * PageUnits - 1)
         /\ p * PageUnits \in Nat /\ n * PageUnits \in Nat /\ n * PageUnits >= PageUnits
<1> DEFINE b == p * PageUnits
           m == n * PageUnits
<1>1. p \in Nat /\ PageUnits \in Nat /\ PageUnits > 2 BY Addresses, HeapAssumption
<1>2. b \in Nat /\ m \in Nat BY <1>1
<1>3. m >= PageUnits
  <2>1. (n - 1) * PageUnits \in Nat /\ n * PageUnits = (n - 1) * PageUnits + PageUnits
    BY <1>1
  <2> QED BY <1>1, <2>1
<1>4. ASSUME NEW q \in p .. (p + n - 1), NEW a \in UnitsOf(q)
      PROVE  a \in b .. (b + m - 1)
  <2>1. (q - p) * PageUnits \in Nat /\ ((p + n) - (q + 1)) * PageUnits \in Nat BY <1>1
  <2>2. q * PageUnits = b + (q - p) * PageUnits BY <1>1
  <2>3. b + m = (q * PageUnits + PageUnits) + ((p + n) - (q + 1)) * PageUnits BY <1>1
  <2> DEFINE c == q * PageUnits
             d == (q - p) * PageUnits
             e == ((p + n) - (q + 1)) * PageUnits
  <2>4. /\ d \in Nat /\ e \in Nat /\ c = b + d /\ b + m = (c + PageUnits) + e
        /\ a \in c .. (c + PageUnits - 1)
    BY <2>1, <2>2, <2>3 DEF UnitsOf
  <2> HIDE DEF b, m, c, d, e
  <2> QED BY <1>1, <1>2, <2>4
<1>5. ASSUME NEW a \in b .. (b + m - 1)
      PROVE  \E q \in p .. (p + n - 1) : a \in UnitsOf(q)
  <2> DEFINE q == a \div PageUnits
  <2>1. /\ a \in Nat /\ q \in Nat /\ a % PageUnits \in 0..(PageUnits - 1)
        /\ a = q * PageUnits + (a % PageUnits)
    <3>1. a \in Nat BY <1>2
    <3> HIDE DEF b, m
    <3> QED BY <1>1, <3>1, Z3
  <2> DEFINE c == q * PageUnits
             r == a % PageUnits
  <2>2. a \in c .. (c + PageUnits - 1) /\ c \in Nat
    <3>1. c \in Nat /\ r \in 0..(PageUnits - 1) /\ a = c + r BY <1>1, <2>1
    <3> HIDE DEF c, r
    <3> QED BY <1>1, <3>1
  <2>3. ~(q < p)
    <3> SUFFICES ASSUME q < p PROVE FALSE OBVIOUS
    <3>1. (p - (q + 1)) * PageUnits \in Nat BY <1>1, <2>1
    <3>2. b = (c + PageUnits) + (p - (q + 1)) * PageUnits BY <1>1, <2>1
    <3> DEFINE f == (p - (q + 1)) * PageUnits
    <3>3. f \in Nat /\ b = (c + PageUnits) + f BY <3>1, <3>2
    <3> HIDE DEF b, m, c, f, q
    <3> QED BY <1>1, <1>2, <2>2, <3>3
  <2>4. ~(q >= p + n)
    <3> SUFFICES ASSUME q >= p + n PROVE FALSE OBVIOUS
    <3>1. (q - (p + n)) * PageUnits \in Nat BY <1>1, <2>1
    <3>2. c = (b + m) + (q - (p + n)) * PageUnits BY <1>1, <2>1
    <3> DEFINE f == (q - (p + n)) * PageUnits
    <3>3. f \in Nat /\ c = (b + m) + f BY <3>1, <3>2
    <3> HIDE DEF b, m, c, f, q
    <3> QED BY <1>1, <1>2, <2>2, <3>3
  <2>5. q \in p .. (p + n - 1)
    <3> HIDE DEF q
    <3> QED BY <1>1, <2>1, <2>3, <2>4
  <2>6. a \in UnitsOf(q) BY <2>2 DEF UnitsOf
  <2> HIDE DEF q
  <2> QED BY <2>5, <2>6
<1>6. Units(p .. (p + n - 1)) = b .. (b + m - 1)
  <2> HIDE DEF b, m
  <2> QED BY <1>4, <1>5 DEF Units
<1> QED BY <1>2, <1>3, <1>6

------------------------------------------------------------------------------
(***************************************************************************)
(* The list.                                                               *)

\* A set of naturals that is not empty has a least element.
LEMMA Least ==
  ASSUME NEW T, T \subseteq Nat, T # {}
  PROVE  \E x \in T : \A y \in T : x <= y
<1> DEFINE U == {0..x : x \in T}
           R == StrictSubsetOrdering(Nat)
<1>1. U # {} /\ U \subseteq FiniteSubsetsOf(Nat)
  <2>1. \A x \in T : IsFiniteSet(0..x) /\ 0..x \subseteq Nat BY FS_Interval
  <2> QED BY <2>1 DEF FiniteSubsetsOf
<1>2. \E u \in U : \A w \in U : ~ (<<w, u>> \in R)
  <2>1. IsWellFoundedOn(R, FiniteSubsetsOf(Nat)) BY FS_StrictSubsetOrderingWellFounded
  <2> HIDE DEF U, R
  <2> QED BY <1>1, <2>1, WFMin
<1>3. PICK x \in T : \A y \in T : ~ (<<0..y, 0..x>> \in R) BY <1>2
<1>4. SUFFICES ASSUME NEW y \in T, y < x PROVE FALSE BY <1>3
<1>5. 0..y \subseteq 0..x /\ 0..y # 0..x BY <1>4
<1>6. <<0..y, 0..x>> \in R BY <1>5 DEF StrictSubsetOrdering
<1> QED BY <1>3, <1>6

\* What the invariant says of one block, in terms of numbers.
LEMMA Block ==
  ASSUME NEW l, NEW H, NEW P, Listed(l, H, P), NEW k \in 1..Len(l)
  PROVE  /\ l[k] \in Addr /\ l[k] \in Nat /\ l[k] > 0 /\ H[l[k]].size \in Nat
         /\ End(H, l[k]) = l[k] + 2 + H[l[k]].size /\ End(H, l[k]) \in Nat
         /\ End(H, l[k]) <= AddressSpace /\ AddressSpace \in Nat
         /\ Len(l) \in Nat /\ Len(l) >= 1
         /\ \A a \in l[k] .. (End(H, l[k]) - 1) : a \in Units(P) /\ a \in Addr
<1>1. l \in Seq(Addr) /\ H \in [Addr -> Header] /\ P \subseteq Space
      /\ Len(l) >= 1 /\ Within(l, H, P)
  BY DEF Listed
<1>2. l[k] \in Addr /\ Len(l) \in Nat BY <1>1
<1>3. l[k] \in Nat /\ l[k] > 0 /\ HEADER = 2
  <2>1. Addr \subseteq Nat \ {0} /\ HEADER = 2 BY Addresses
  <2>2. l[k] \in Nat \ {0} BY <1>2, <2>1
  <2> QED BY <2>1, <2>2
<1>4. H[l[k]].size \in Nat BY <1>1, <1>2 DEF Header
<1>5. End(H, l[k]) = l[k] + 2 + H[l[k]].size BY <1>3 DEF End
<1>6. End(H, l[k]) \in Nat /\ End(H, l[k]) >= l[k] + 2 BY <1>3, <1>4, <1>5
<1>7. \A a \in l[k] .. (End(H, l[k]) - 1) : a \in Units(P) BY <1>1 DEF Within
<1>8. Units(P) \subseteq Addr BY <1>1 DEF Units, Addr
<1>9. End(H, l[k]) - 1 \in Addr BY <1>3, <1>6, <1>7, <1>8
<1>10. End(H, l[k]) - 1 < AddressSpace /\ AddressSpace \in Nat
  BY <1>9, Addresses, HeapAssumption
<1>11. End(H, l[k]) <= AddressSpace BY <1>6, <1>10
<1> QED BY <1>1, <1>2, <1>3, <1>4, <1>5, <1>6, <1>7, <1>8, <1>10, <1>11

\* No block is there twice.
LEMMA Once ==
  ASSUME NEW l, NEW H, NEW P, Listed(l, H, P),
         NEW j \in 1..Len(l), NEW k \in 1..Len(l), l[j] = l[k]
  PROVE  j = k
<1>1. /\ l[j] \in Nat /\ End(H, l[j]) = l[j] + 2 + H[l[j]].size /\ H[l[j]].size \in Nat
  BY Block
<1>2. l[j] = l[k] /\ End(H, l[j]) = End(H, l[k]) OBVIOUS
<1>3. j # k => End(H, l[j]) <= l[k] \/ End(H, l[k]) <= l[j] BY DEF Listed, Apart
<1> QED BY <1>1, <1>2, <1>3

\* MaxBlocks bounds the list.
LEMMA Count ==
  ASSUME NEW l, NEW H, NEW P, Listed(l, H, P)
  PROVE  MaxBlocks \in Nat /\ Len(l) <= MaxBlocks
<1> DEFINE n == Len(l)
           S == (1..n) \X {0, 1}
           f == [x \in S |-> l[x[1]] + x[2]]
<1>1. n \in Nat /\ n >= 1 BY DEF Listed
<1>2. f \in [S -> Addr]
  <2> SUFFICES ASSUME NEW k \in 1..n, NEW e \in {0, 1} PROVE l[k] + e \in Addr
    OBVIOUS
  <2>1. /\ l[k] \in Nat /\ End(H, l[k]) \in Nat /\ H[l[k]].size \in Nat
        /\ End(H, l[k]) = l[k] + 2 + H[l[k]].size
    BY Block
  <2>2. l[k] + e \in l[k] .. (End(H, l[k]) - 1) BY <2>1
  <2> QED BY <2>2, Block
<1>3. ASSUME NEW j \in 1..n, NEW k \in 1..n, NEW d \in {0, 1}, NEW e \in {0, 1},
             l[j] + d = l[k] + e
      PROVE  j = k /\ d = e
  <2>1. /\ l[j] \in Nat /\ End(H, l[j]) \in Nat /\ End(H, l[j]) >= l[j] + 2
        /\ l[k] \in Nat /\ End(H, l[k]) \in Nat /\ End(H, l[k]) >= l[k] + 2
    <3>1. ASSUME NEW i \in 1..n
          PROVE  l[i] \in Nat /\ End(H, l[i]) \in Nat /\ End(H, l[i]) >= l[i] + 2
      <4>1. l[i] \in Nat /\ End(H, l[i]) \in Nat /\ H[l[i]].size \in Nat
            /\ End(H, l[i]) = l[i] + 2 + H[l[i]].size
        BY Block
      <4> QED BY <4>1
    <3> QED BY <3>1
  <2>2. j # k => End(H, l[j]) <= l[k] \/ End(H, l[k]) <= l[j] BY DEF Listed, Apart
  <2> DEFINE p == l[j]
             q == l[k]
             x == End(H, l[j])
             y == End(H, l[k])
  <2>3. /\ p \in Nat /\ x \in Nat /\ x >= p + 2 /\ q \in Nat /\ y \in Nat /\ y >= q + 2
        /\ (j # k => x <= q \/ y <= p) /\ p + d = q + e /\ (j = k => p = q)
    BY <1>3, <2>1, <2>2
  <2> HIDE DEF p, q, x, y
  <2> QED BY <2>3
<1>4. \A x, y \in S : f[x] = f[y] => x = y
  <2> SUFFICES ASSUME NEW x \in S, NEW y \in S, f[x] = f[y] PROVE x = y OBVIOUS
  <2>1. /\ x[1] \in 1..n /\ x[2] \in {0, 1} /\ x = <<x[1], x[2]>>
        /\ y[1] \in 1..n /\ y[2] \in {0, 1} /\ y = <<y[1], y[2]>>
    OBVIOUS
  <2>2. l[x[1]] + x[2] = l[y[1]] + y[2] OBVIOUS
  <2>3. x[1] = y[1] /\ x[2] = y[2] BY <1>3, <2>1, <2>2
  <2> QED BY <2>1, <2>3
<1>5. f \in Injection(S, Addr)
  <2> HIDE DEF f, S
  <2> QED BY <1>2, <1>4 DEF Injection, IsInjective
<1>6. IsFiniteSet(1..n) /\ Cardinality(1..n) = n BY <1>1, FS_Interval
<1>7. IsFiniteSet({0, 1}) /\ Cardinality({0, 1}) = 2
  <2>1. IsFiniteSet({0}) /\ Cardinality({0}) = 1 BY FS_Singleton
  <2>2. IsFiniteSet({0} \cup {1}) /\ Cardinality({0} \cup {1}) = 1 + 1
    BY <2>1, FS_AddElement
  <2>3. {0, 1} = {0} \cup {1} OBVIOUS
  <2> QED BY <2>2, <2>3
<1>8. Cardinality(S) = n * 2
  <2> DEFINE A == 1..n
             B == {0, 1}
  <2>1. IsFiniteSet(A) /\ Cardinality(A) = n /\ IsFiniteSet(B) /\ Cardinality(B) = 2
    BY <1>6, <1>7
  <2> HIDE DEF A, B
  <2>2. Cardinality(A \X B) = Cardinality(A) * Cardinality(B) BY <2>1, FS_Product
  <2>3. S = A \X B BY DEF A, B
  <2> QED BY <2>1, <2>2, <2>3
<1>9. Cardinality(S) <= Cardinality(Addr) /\ Cardinality(Addr) \in Nat
  <2> HIDE DEF f, S
  <2> QED BY <1>5, Addresses, FS_Injection, FS_CardinalityType
<1>10. MaxBlocks = Cardinality(Addr) \div 2 BY Addresses DEF MaxBlocks
<1> DEFINE c == Cardinality(Addr)
<1>11. n * 2 <= c /\ c \in Nat BY <1>8, <1>9
<1> HIDE DEF n, c
<1>12. c \div 2 \in Nat /\ n <= c \div 2 BY <1>1, <1>11
<1> QED BY <1>10, <1>12 DEF n, c

\* Following the next fields from start_header finds every block.
LEMMA ListIs ==
  ASSUME NEW l, l[1] = start, Listed(l, hdr, pages)
  PROVE  List = l
<1> DEFINE M == MaxBlocks
           n == Len(l)
           Step(c, k) ==
             IF k = 1 THEN <<start>>
             ELSE LET q == c[k - 1]
                      b == hdr[q[Len(q)]].next
                  IN  IF b = NULL THEN q ELSE Append(q, b)
           C == CHOOSE c : c = [k \in 1..M |-> Step(c, k)]
           Upto(k) == IF k < n THEN k ELSE n
           f == [k \in 1..M |-> SubSeq(l, 1, Upto(k))]
<1>0. /\ n \in Nat /\ n >= 1 /\ l \in Seq(Addr) /\ M \in Nat /\ n <= M
      /\ Linked(l, hdr)
  BY Count DEF Listed
<1>1. List = C[M] BY DEF List
<1>2. ASSUME NEW k \in 1..M
      PROVE  f[k] \in Seq(Addr) /\ Len(f[k]) = Upto(k)
             /\ \A i \in 1..Upto(k) : f[k][i] = l[i]
  <2>1. Upto(k) \in 0..n BY <1>0
  <2>2. \A i \in 1..Upto(k) : l[i] \in Addr BY <1>0, <2>1
  <2>3. f[k] = SubSeq(l, 1, Upto(k)) OBVIOUS
  <2> HIDE DEF f, Upto
  <2> QED BY <1>0, <2>1, <2>2, <2>3
<1>3. f[1] = <<start>>
  <2>1. 1 \in 1..M /\ Upto(1) = 1
    <3> HIDE DEF M, n, f, C, Step
    <3> QED BY <1>0
  <2>2. f[1] \in Seq(Addr) /\ Len(f[1]) = 1 /\ f[1][1] = start BY <1>2, <2>1
  <2>3. start \in Addr BY <1>0
  <2> HIDE DEF f
  <2> QED BY <2>2, <2>3
<1>4. ASSUME NEW k \in 2..M PROVE f[k] = Step(f, k)
  <2> DEFINE q == f[k - 1]
             u == Upto(k - 1)
             b == hdr[q[Len(q)]].next
  <2>1. k - 1 \in 1..M /\ k \in 1..M /\ k # 1 BY <1>0
  <2>2. /\ q \in Seq(Addr) /\ Len(q) = u /\ \A i \in 1..u : q[i] = l[i]
        /\ f[k] \in Seq(Addr) /\ Len(f[k]) = Upto(k) /\ \A i \in 1..Upto(k) : f[k][i] = l[i]
    BY <1>2, <2>1
  <2>3. u \in 1..n BY <1>0
  <2>4. b = IF u = n THEN NULL ELSE l[u + 1]
    <3>1. u \in 1..u
      <4> HIDE DEF u, n
      <4> QED BY <1>0, <2>3
    <3>2. b = hdr[l[u]].next BY <2>2, <3>1
    <3> HIDE DEF b, u
    <3> QED BY <1>0, <2>3, <3>2 DEF Linked
  <2>5. CASE u = n
    <3>1. Upto(k) = n BY <1>0, <2>5
    <3>2. f[k] = q
      <4> HIDE DEF M, n, f, C, Step, q, b, u, Upto
      <4>1. Len(f[k]) = Len(q) /\ \A i \in 1..Len(q) : f[k][i] = q[i]
        BY <2>2, <2>5, <3>1
      <4> QED BY <2>2, <4>1, SeqEqual
    <3>3. Step(f, k) = q BY <2>1, <2>4, <2>5
    <3> QED BY <3>2, <3>3
  <2>6. CASE u # n
    <3>1. Upto(k) = u + 1 /\ u + 1 \in 1..n BY <1>0, <2>3, <2>6
    <3>2. b = l[u + 1] /\ b \in Addr BY <1>0, <2>4, <2>6, <3>1
    <3>3. b # NULL BY <3>2, Addresses
    <3>4. Step(f, k) = Append(q, b) BY <2>1, <3>3
    <3> HIDE DEF f, q, u, b, Upto, Step
    <3>5. Append(q, b) \in Seq(Addr) /\ Len(Append(q, b)) = u + 1
          /\ \A i \in 1..(u + 1) : Append(q, b)[i] = l[i]
      BY <2>2, <2>3, <3>2
    <3> DEFINE A == Append(q, b)
    <3>6. A \in Seq(Addr) /\ Len(A) = Len(f[k]) /\ \A i \in 1..Len(f[k]) : f[k][i] = A[i]
      BY <2>2, <3>1, <3>5
    <3> HIDE DEF A, M, n, C
    <3>7. f[k] = A BY <2>2, <3>6, SeqEqual
    <3> QED BY <3>4, <3>7 DEF A
  <2> QED BY <2>5, <2>6
<1>5. f = [k \in 1..M |-> Step(f, k)]
  <2>1. ASSUME NEW k \in 1..M PROVE f[k] = Step(f, k)
    <3>1. CASE k = 1
      <4>1. Step(f, k) = <<start>> BY <3>1
      <4> HIDE DEF f, Step
      <4> QED BY <1>3, <3>1, <4>1
    <3>2. CASE k # 1
      <4>1. k \in 2..M BY <3>2
      <4> HIDE DEF f, Step
      <4> QED BY <1>4, <4>1
    <3> QED BY <3>1, <3>2
  <2>2. f = [k \in 1..M |-> f[k]] OBVIOUS
  <2> HIDE DEF f, Step
  <2> QED BY <2>1, <2>2
<1>6. C = [k \in 1..M |-> Step(C, k)]
  <2> DEFINE R(c) == c = [k \in 1..M |-> Step(c, k)]
  <2>1. R(f) BY <1>5
  <2>2. C = CHOOSE c : R(c) OBVIOUS
  <2> HIDE DEF R, f, C
  <2>3. R(C) BY <2>1, <2>2
  <2> QED BY <2>3 DEF R
<1> HIDE DEF f, C
<1>7. ASSUME NEW k \in 1..M PROVE C[k] = f[k]
  <2> DEFINE T == {i \in 1..M : C[i] # f[i]}
  <2>1. SUFFICES T = {} OBVIOUS
  <2>2. SUFFICES ASSUME T # {} PROVE FALSE OBVIOUS
  <2>3. T \subseteq Nat BY <1>0
  <2>4. PICK i \in T : \A j \in T : i <= j
    <3> HIDE DEF T
    <3> QED BY <2>2, <2>3, Least
  <2>5. i \in 1..M /\ C[i] # f[i] BY <2>4
  <2>6. C[i] = Step(C, i)
    <3> HIDE DEF Step
    <3> QED BY <1>6, <2>5
  <2>7. i # 1 BY <1>3, <2>5, <2>6
  <2>8. i - 1 \in 1..M /\ ~(i <= i - 1) BY <1>0, <2>5, <2>7
  <2>9. C[i - 1] = f[i - 1] BY <2>4, <2>8
  <2>10. Step(C, i) = Step(f, i) BY <2>9
  <2>11. i \in 2..M BY <2>5, <2>7
  <2> QED BY <1>4, <2>5, <2>6, <2>10, <2>11
<1>8. M \in 1..M BY <1>0
<1>9. C[M] = f[M] BY <1>7, <1>8
<1>10. f[M] = l
  <2>1. Upto(M) = n BY <1>0
  <2>2. f[M] \in Seq(Addr) /\ Len(f[M]) = n /\ \A i \in 1..n : f[M][i] = l[i]
    BY <1>2, <1>8, <2>1
  <2> QED BY <1>0, <2>2, SeqEqual
<1> QED BY <1>1, <1>9, <1>10

------------------------------------------------------------------------------
(***************************************************************************)
(* split_header.                                                           *)

\* What it writes: the block keeps its first units, its last ones are a used
\* block between it and the next one.
SplitTo(H, G, h, t, a) ==
  /\ G \in [Addr -> Header]
  /\ G[h].size = H[h].size - (a + 2) /\ G[h].status = H[h].status /\ G[h].next = t
  /\ G[h].prev = H[h].prev
  /\ G[t].size = a /\ G[t].status = "USED" /\ G[t].next = H[h].next /\ G[t].prev = h
  /\ H[h].next # NULL =>
       /\ G[H[h].next].prev = t
       /\ G[H[h].next].size = H[H[h].next].size /\ G[H[h].next].next = H[H[h].next].next
       /\ G[H[h].next].status = H[H[h].next].status
  /\ \A x \in Addr : x # h /\ x # t /\ x # H[h].next => G[x] = H[x]

\* The remainder does not wrap, and its header is where the old block ended.
LEMMA LastPart ==
  ASSUME NEW H, NEW h \in Nat, NEW a \in Nat, H[h].size \in Nat,
         H[h].size >= a + 2, End(H, h) <= AddressSpace, h > 0
  PROVE  /\ Rest(H[h].size, a) = H[h].size - (a + 2)
         /\ LastUnits(h, a, H) = End(H, h) - (a + 2)
<1> DEFINE s == H[h].size
           A == AddressSpace
<1>0. /\ A \in Nat /\ s \in Nat /\ s >= a + 2 /\ End(H, h) = h + 2 + s
      /\ h + 2 + s <= A /\ HEADER = 2
  BY HeapAssumption DEF End, HEADER
<1>1. Rest(s, a) = (s - (a + 2)) % A BY <1>0 DEF Rest
<1>2. LastUnits(h, a, H) = (h + 2 + Rest(s, a)) % A BY <1>0 DEF LastUnits
<1> HIDE DEF s, A
<1>3. \A x \in Nat : x < A => x % A = x BY <1>0
<1>4. s - (a + 2) \in Nat /\ s - (a + 2) < A BY <1>0
<1>5. Rest(s, a) = s - (a + 2) BY <1>1, <1>3, <1>4
<1>6. h + 2 + (s - (a + 2)) \in Nat /\ h + 2 + (s - (a + 2)) < A BY <1>0, <1>4
<1>7. LastUnits(h, a, H) = h + 2 + (s - (a + 2)) BY <1>2, <1>3, <1>5, <1>6
<1>8. h + 2 + (s - (a + 2)) = (h + 2 + s) - (a + 2) BY <1>0
<1> QED BY <1>0, <1>5, <1>7, <1>8 DEF s

\* split_header writes that.
LEMMA SplitFields ==
  ASSUME NEW H \in [Addr -> Header], NEW h \in Addr, NEW a \in Nat, NEW t \in Addr,
         Rest(H[h].size, a) = H[h].size - (a + 2), H[h].size - (a + 2) \in Nat,
         t = LastUnits(h, a, H), t # h, H[h].next # h, H[h].next # t
  PROVE  SplitTo(H, Split(h, a, H), h, t, a)
<1> DEFINE b == H[h].next
           r == H[h].size - (a + 2)
           cut == [H EXCEPT ![h].size = Rest(@, a)]
           new == [cut EXCEPT ![t] = [size |-> a, status |-> "USED", prev |-> h,
                                      next |-> cut[h].next]]
           bl == BackLink(new, b, t)
           G == [bl EXCEPT ![h].next = t]
<1>0. b \in Addr \cup {NULL} /\ r \in Nat /\ H[h] \in Header /\ b # h /\ b # t BY DEF Header
<1>1. /\ cut \in [Addr -> Header] /\ cut[h].size = r /\ cut[h].status = H[h].status
      /\ cut[h].next = b /\ cut[h].prev = H[h].prev
      /\ \A x \in Addr : x # h => cut[x] = H[x]
  <2> DEFINE e == [H[h] EXCEPT !.size = r]
  <2>1. cut = [H EXCEPT ![h] = e] OBVIOUS
  <2>2. /\ e \in Header /\ e.size = r /\ e.status = H[h].status
        /\ e.next = b /\ e.prev = H[h].prev
    BY <1>0 DEF Header
  <2> HIDE DEF e, cut, r, b
  <2> QED BY <2>1, <2>2
<1> HIDE DEF cut
<1>2. /\ new \in [Addr -> Header] /\ new[t].size = a /\ new[t].status = "USED"
      /\ new[t].next = b /\ new[t].prev = h
      /\ \A x \in Addr : x # t => new[x] = cut[x]
  <2> DEFINE e == [size |-> a, status |-> "USED", prev |-> h, next |-> cut[h].next]
  <2>1. /\ e \in Header /\ e.size = a /\ e.status = "USED" /\ e.next = b /\ e.prev = h
    BY <1>0, <1>1 DEF Header
  <2>2. new = [cut EXCEPT ![t] = e] OBVIOUS
  <2> HIDE DEF e, new, b
  <2> QED BY <1>1, <2>1, <2>2
<1> HIDE DEF new
<1>3. /\ bl \in [Addr -> Header]
      /\ b # NULL => /\ bl[b].prev = t /\ bl[b].size = new[b].size
                     /\ bl[b].next = new[b].next /\ bl[b].status = new[b].status
      /\ \A x \in Addr : x # b => bl[x] = new[x]
  <2>1. CASE b = NULL
    <3>1. bl = new BY <2>1 DEF BackLink
    <3> QED BY <1>2, <2>1, <3>1
  <2>2. CASE b # NULL
    <3> DEFINE e == [new[b] EXCEPT !.prev = t]
    <3>1. bl = [new EXCEPT ![b] = e] BY <2>2 DEF BackLink
    <3>2. b \in Addr /\ new[b] \in Header BY <1>0, <1>2, <2>2
    <3>3. /\ e \in Header /\ e.prev = t /\ e.size = new[b].size /\ e.next = new[b].next
          /\ e.status = new[b].status
      BY <3>2 DEF Header
    <3> HIDE DEF e, bl, b
    <3> QED BY <1>2, <3>1, <3>2, <3>3
  <2> QED BY <2>1, <2>2
<1> HIDE DEF bl
<1>4. /\ G \in [Addr -> Header] /\ G[h].next = t /\ G[h].size = bl[h].size
      /\ G[h].status = bl[h].status /\ G[h].prev = bl[h].prev
      /\ \A x \in Addr : x # h => G[x] = bl[x]
  <2> DEFINE e == [bl[h] EXCEPT !.next = t]
  <2>1. G = [bl EXCEPT ![h] = e] OBVIOUS
  <2>2. bl[h] \in Header BY <1>3
  <2>3. /\ e \in Header /\ e.next = t /\ e.size = bl[h].size /\ e.status = bl[h].status
        /\ e.prev = bl[h].prev
    BY <2>2 DEF Header
  <2> HIDE DEF e, G, b
  <2> QED BY <1>3, <2>1, <2>3
<1>5. Split(h, a, H) = G
  <2>1. new[t].next = b BY <1>2
  <2> QED BY <2>1 DEF Split, cut, new, bl
<1> HIDE DEF G
<1>6. bl[h] = cut[h] /\ new[h] = cut[h] BY <1>0, <1>2, <1>3
<1>7. bl[t] = new[t] /\ G[t] = new[t] BY <1>0, <1>3, <1>4
<1>8. b # NULL => /\ b \in Addr /\ G[b] = bl[b] /\ new[b] = H[b]
  BY <1>0, <1>1, <1>2, <1>4
<1>9. \A x \in Addr : x # h /\ x # t /\ x # b => G[x] = H[x]
  BY <1>1, <1>2, <1>3, <1>4
<1>10. /\ G[h].size = r /\ G[h].status = H[h].status /\ G[h].next = t
       /\ G[h].prev = H[h].prev
  BY <1>1, <1>4, <1>6
<1>11. /\ G[t].size = a /\ G[t].status = "USED" /\ G[t].next = b /\ G[t].prev = h
  BY <1>2, <1>7
<1>12. b # NULL =>
         /\ G[b].prev = t /\ G[b].size = H[b].size /\ G[b].next = H[b].next
         /\ G[b].status = H[b].status
  BY <1>3, <1>8
<1> QED BY <1>4, <1>5, <1>9, <1>10, <1>11, <1>12 DEF SplitTo, b, r

\* The list with t behind block m.
Inserted(l, m, t) ==
  [i \in 1..(Len(l) + 1) |-> IF i <= m THEN l[i] ELSE IF i = m + 1 THEN t ELSE l[i - 1]]

\* It is a list, one block longer.
LEMMA InsertedIs ==
  ASSUME NEW l \in Seq(Addr), NEW m \in 1..Len(l), NEW t \in Addr
  PROVE  LET L == Inserted(l, m, t) IN
         /\ L \in Seq(Addr) /\ Len(L) = Len(l) + 1
         /\ \A i \in 1..m : L[i] = l[i]
         /\ L[m + 1] = t
         /\ \A i \in (m + 2)..(Len(l) + 1) : L[i] = l[i - 1]
<1> DEFINE L == Inserted(l, m, t)
           n == Len(l)
<1>0. n \in Nat /\ m \in 1..n /\ \A i \in 1..n : l[i] \in Addr OBVIOUS
<1>1. L = [i \in 1..(n + 1) |-> IF i <= m THEN l[i] ELSE IF i = m + 1 THEN t ELSE l[i - 1]]
  BY DEF Inserted
<1> HIDE DEF L, n
<1>2. ASSUME NEW i \in 1..(n + 1)
      PROVE  (IF i <= m THEN l[i] ELSE IF i = m + 1 THEN t ELSE l[i - 1]) \in Addr
  <2>1. CASE i <= m BY <1>0, <2>1
  <2>2. CASE i = m + 1 BY <1>0, <2>2
  <2>3. CASE i > m + 1
    <3>1. i - 1 \in 1..n /\ ~(i <= m) /\ i # m + 1 BY <1>0, <2>3
    <3> QED BY <1>0, <3>1
  <2> QED BY <1>0, <2>1, <2>2, <2>3
<1>3. L \in [1..(n + 1) -> Addr] BY <1>1, <1>2
<1>4. L \in Seq(Addr) /\ Len(L) = n + 1 BY <1>0, <1>3
<1>5. \A i \in 1..m : L[i] = l[i] BY <1>0, <1>1
<1>6. L[m + 1] = t BY <1>0, <1>1
<1>7. \A i \in (m + 2)..(n + 1) : L[i] = l[i - 1] BY <1>0, <1>1
<1> QED BY <1>4, <1>5, <1>6, <1>7 DEF L, n

\* The two parts of block m, and the others as they were.
SplitShape(l, H, G, m, t, a) ==
  /\ \A k \in 1..Len(l) : k # m =>
       /\ G[l[k]].size = H[l[k]].size /\ G[l[k]].status = H[l[k]].status
       /\ End(G, l[k]) = End(H, l[k])
  /\ G[l[m]].status = H[l[m]].status /\ End(G, l[m]) = t
  /\ G[t].status = "USED" /\ G[t].size = a /\ End(G, t) = End(H, l[m])

\* The block m, free and large enough, is cut in two: the blocks still link up
\* and tile the pages.
LEMMA SplitListed ==
  ASSUME NEW l, NEW H, NEW P, Listed(l, H, P), NEW m \in 1..Len(l), NEW a \in Nat,
         H[l[m]].size >= a + 2
  PROVE  LET t == LastUnits(l[m], a, H) IN
         /\ t = End(H, l[m]) - (a + 2) /\ t \in Addr /\ \A k \in 1..Len(l) : l[k] # t
         /\ SplitShape(l, H, Split(l[m], a, H), m, t, a)
         /\ Listed(Inserted(l, m, t), Split(l[m], a, H), P)
<1> DEFINE t == LastUnits(l[m], a, H)
           G == Split(l[m], a, H)
           L == Inserted(l, m, t)
           n == Len(l)
           h == l[m]
           b == H[h].next
<1>0. /\ l \in Seq(Addr) /\ H \in [Addr -> Header] /\ n \in Nat /\ m \in 1..n
      /\ Linked(l, H) /\ Apart(l, H) /\ P \subseteq Space
      /\ \A k \in 1..n : l[k] \in Addr
  BY DEF Listed
<1>1. /\ h \in Addr /\ h \in Nat /\ h > 0 /\ H[h].size \in Nat
      /\ End(H, h) = h + 2 + H[h].size /\ End(H, h) \in Nat
      /\ End(H, h) <= AddressSpace
      /\ \A x \in h .. (End(H, h) - 1) : x \in Units(P) /\ x \in Addr
  BY Block
<1>2. Rest(H[h].size, a) = H[h].size - (a + 2) /\ t = End(H, h) - (a + 2)
  BY <1>1, LastPart
<1>3. H[h].size - (a + 2) \in Nat BY <1>1
<1>4. t \in h .. (End(H, h) - 1) /\ t >= h + 2 /\ t \in Nat
  <2> DEFINE e == End(H, h)
             s == H[h].size
  <2>1. /\ s \in Nat /\ s >= a + 2 /\ h \in Nat /\ e = h + 2 + s /\ t = e - (a + 2)
    BY <1>1, <1>2
  <2> HIDE DEF t, h, e, s
  <2>2. t \in h .. (e - 1) /\ t >= h + 2 /\ t \in Nat BY <2>1
  <2> QED BY <2>2 DEF e
<1>5. t \in Addr /\ t # h BY <1>1, <1>4
<1>6. ASSUME NEW k \in 1..n PROVE l[k] # t
  <2>1. CASE k = m BY <1>5, <2>1
  <2>2. CASE k # m
    <3>1. End(H, l[k]) <= h \/ End(H, h) <= l[k] BY <1>0, <2>2 DEF Apart
    <3>2. l[k] \in Nat /\ H[l[k]].size \in Nat /\ End(H, l[k]) = l[k] + 2 + H[l[k]].size
      BY Block
    <3> DEFINE q == l[k]
               e == End(H, h)
               d == End(H, q)
    <3>3. /\ q \in Nat /\ d >= q + 2 /\ d \in Nat /\ (d <= h \/ e <= q)
          /\ h \in Nat /\ e \in Nat /\ t >= h + 2 /\ t \in Nat /\ t <= e - 1
      <4>1. q \in Nat /\ d >= q + 2 /\ d \in Nat BY <3>2
      <4>2. h \in Nat /\ e \in Nat /\ t >= h + 2 /\ t \in Nat /\ t \in h .. (e - 1)
        BY <1>1, <1>4
      <4>3. d <= h \/ e <= q BY <3>1
      <4> HIDE DEF t, h, q, e, d
      <4> QED BY <4>1, <4>2, <4>3
    <3> HIDE DEF t, h, q, e, d
    <3>4. q # t BY <3>3
    <3> QED BY <3>4 DEF q
  <2> QED BY <2>1, <2>2
<1>7. /\ b = IF m = n THEN NULL ELSE l[m + 1]
      /\ b # h /\ b # t
  <2>1. b = IF m = n THEN NULL ELSE l[m + 1] BY <1>0 DEF Linked
  <2>2. NULL \notin Addr BY Addresses
  <2>3. CASE m = n BY <1>1, <1>5, <2>1, <2>2, <2>3
  <2>4. CASE m # n
    <3>1. m + 1 \in 1..n /\ m + 1 # m BY <1>0, <2>4
    <3>2. l[m + 1] # h BY <1>0, <3>1, Once
    <3> QED BY <1>6, <2>1, <2>4, <3>1, <3>2
  <2> QED BY <2>1, <2>3, <2>4
<1>8. SplitTo(H, G, h, t, a) BY <1>0, <1>1, <1>2, <1>3, <1>5, <1>7, SplitFields
<1>9. /\ L \in Seq(Addr) /\ Len(L) = n + 1
      /\ \A i \in 1..m : L[i] = l[i]
      /\ L[m + 1] = t
      /\ \A i \in (m + 2)..(n + 1) : L[i] = l[i - 1]
  BY <1>0, <1>5, InsertedIs
<1> HIDE DEF t, G, L
<1>10. G \in [Addr -> Header] BY <1>8 DEF SplitTo
<1>11. /\ G[t].size = a /\ G[t].status = "USED" /\ G[t].next = b /\ G[t].prev = h
       /\ G[h].size = H[h].size - (a + 2) /\ G[h].status = H[h].status
       /\ G[h].next = t /\ G[h].prev = H[h].prev
  BY <1>8 DEF SplitTo
<1>12. ASSUME NEW k \in 1..n, k # m
       PROVE  /\ G[l[k]].size = H[l[k]].size /\ G[l[k]].next = H[l[k]].next
              /\ G[l[k]].status = H[l[k]].status
              /\ G[l[k]].prev = IF k = m + 1 THEN t ELSE H[l[k]].prev
  <2>1. l[k] # h BY <1>0, <1>12, Once
  <2>2. CASE l[k] = b
    <3>1. b # NULL BY <1>0, <2>2, Addresses
    <3>2. m # n /\ b = l[m + 1] /\ m + 1 \in 1..n BY <1>0, <1>7, <3>1
    <3>3. k = m + 1 BY <1>0, <2>2, <3>2, Once
    <3> QED BY <1>8, <2>2, <3>1, <3>3 DEF SplitTo
  <2>3. CASE l[k] # b
    <3>1. G[l[k]] = H[l[k]] BY <1>0, <1>6, <1>8, <2>1, <2>3 DEF SplitTo
    <3>2. k # m + 1
      <4>1. k = m + 1 => m # n BY <1>0
      <4> QED BY <1>7, <2>3, <4>1
    <3> QED BY <3>1, <3>2
  <2> QED BY <2>2, <2>3
<1>13. ASSUME NEW k \in 1..(n + 1)
       PROVE  /\ k \in 1..m \/ k = m + 1 \/ (k \in (m + 2)..(n + 1) /\ k - 1 \in (m + 1)..n)
              /\ 1..m \subseteq 1..n
  BY <1>0
<1>14. Linked(L, G)
  <2> SUFFICES ASSUME NEW k \in 1..(n + 1)
               PROVE  /\ G[L[k]].next = IF k = n + 1 THEN NULL ELSE L[k + 1]
                      /\ G[L[k]].prev = IF k = 1 THEN NULL ELSE L[k - 1]
                      /\ G[L[k]].status \in {"FREE", "USED"}
    BY <1>9 DEF Linked
  <2>1. CASE k \in 1..m /\ k # m
    <3>1. k \in 1..n /\ L[k] = l[k] /\ k # m + 1 /\ k # n /\ k # n + 1
          /\ k + 1 \in 1..m
      BY <1>0, <1>9, <2>1
    <3>2. L[k + 1] = l[k + 1] BY <1>9, <3>1
    <3>3. k # 1 => k - 1 \in 1..m BY <1>0, <2>1
    <3>4. k # 1 => L[k - 1] = l[k - 1] BY <1>9, <3>3
    <3>5. /\ H[l[k]].next = l[k + 1] /\ H[l[k]].status \in {"FREE", "USED"}
          /\ H[l[k]].prev = IF k = 1 THEN NULL ELSE l[k - 1]
      BY <1>0, <3>1 DEF Linked
    <3> QED BY <1>12, <2>1, <3>1, <3>2, <3>4, <3>5
  <2>2. CASE k = m
    <3>1. L[k] = h /\ k # n + 1 /\ L[k + 1] = t BY <1>0, <1>9, <2>2
    <3>2. k # 1 => k - 1 \in 1..m BY <1>0, <2>2
    <3>3. k # 1 => L[k - 1] = l[k - 1] BY <1>9, <3>2
    <3>4. H[h].status \in {"FREE", "USED"} /\ H[h].prev = IF k = 1 THEN NULL ELSE l[k - 1]
      BY <1>0, <2>2 DEF Linked
    <3> QED BY <1>11, <3>1, <3>3, <3>4
  <2>3. CASE k = m + 1
    <3>1. L[k] = t /\ k # 1 /\ k - 1 = m /\ L[m] = h BY <1>0, <1>9, <2>3
    <3>2. k = n + 1 <=> m = n BY <1>0, <2>3
    <3>3. m # n => k + 1 \in (m + 2)..(n + 1) /\ (k + 1) - 1 = m + 1 BY <1>0, <2>3
    <3>4. m # n => L[k + 1] = l[m + 1] BY <1>9, <3>3
    <3> QED BY <1>7, <1>11, <3>1, <3>2, <3>4
  <2>4. CASE k \in (m + 2)..(n + 1)
    <3> DEFINE i == k - 1
    <3>1. i \in 1..n /\ i # m /\ L[k] = l[i] /\ k # 1 /\ i >= m + 1 /\ i # 1
      BY <1>0, <1>9, <2>4
    <3>2. /\ H[l[i]].next = IF i = n THEN NULL ELSE l[i + 1]
          /\ H[l[i]].prev = l[i - 1] /\ H[l[i]].status \in {"FREE", "USED"}
      BY <1>0, <3>1 DEF Linked
    <3>3. k = n + 1 <=> i = n BY <1>0, <2>4
    <3>4. i # n => k + 1 \in (m + 2)..(n + 1) /\ (k + 1) - 1 = i + 1 BY <1>0, <2>4
    <3>5. i # n => L[k + 1] = l[i + 1] BY <1>9, <3>4
    <3>6. CASE i = m + 1 BY <1>9, <1>12, <3>1, <3>2, <3>3, <3>5, <3>6
    <3>7. CASE i # m + 1
      <4>1. k - 1 \in (m + 2)..(n + 1) /\ (k - 1) - 1 = i - 1 BY <1>0, <2>4, <3>7
      <4>2. L[k - 1] = l[i - 1] BY <1>9, <4>1
      <4> QED BY <1>12, <3>1, <3>2, <3>3, <3>5, <3>7, <4>2
    <3> QED BY <3>6, <3>7
  <2> QED BY <1>13, <2>1, <2>2, <2>3, <2>4
<1>15. End(G, h) = t /\ End(G, t) = End(H, h) /\ \A k \in 1..n : k # m => End(G, l[k]) = End(H, l[k])
  <2>1. G[h].size = H[h].size - (a + 2) /\ G[t].size = a /\ HEADER = 2 BY <1>11 DEF HEADER
  <2>2. h + 2 + (H[h].size - (a + 2)) = t BY <1>1, <1>2
  <2>3. t + 2 + a = End(H, h) BY <1>1, <1>2
  <2>4. \A k \in 1..n : k # m => End(G, l[k]) = End(H, l[k]) BY <1>12 DEF End
  <2> HIDE DEF h
  <2> QED BY <2>1, <2>2, <2>3, <2>4 DEF End
<1> DEFINE Old(i) == IF i <= m THEN i ELSE i - 1
<1>16. ASSUME NEW i \in 1..(n + 1)
       PROVE  /\ Old(i) \in 1..n /\ L[i] \in Nat /\ End(G, L[i]) \in Nat
              /\ l[Old(i)] <= L[i] /\ End(G, L[i]) <= End(H, l[Old(i)])
              /\ l[Old(i)] \in Nat /\ End(H, l[Old(i)]) \in Nat
  <2>1. CASE i \in 1..m /\ i # m
    <3>1. i \in 1..n /\ L[i] = l[i] /\ Old(i) = i BY <1>0, <1>9, <2>1
    <3>2. l[i] \in Nat /\ End(H, l[i]) \in Nat BY <3>1, Block
    <3>3. End(G, l[i]) = End(H, l[i]) BY <1>15, <2>1, <3>1
    <3> HIDE DEF Old
    <3>4. L[i] = l[Old(i)] /\ End(G, L[i]) = End(H, l[Old(i)]) BY <3>1, <3>3
    <3>5. l[Old(i)] <= l[Old(i)] /\ End(H, l[Old(i)]) <= End(H, l[Old(i)]) BY <3>1, <3>2
    <3> QED BY <3>1, <3>2, <3>4, <3>5
  <2>2. CASE i = m
    <3>1. L[i] = h /\ Old(i) = m BY <1>0, <1>9, <2>2
    <3>2. /\ l[Old(i)] = h /\ End(G, L[i]) = t /\ End(H, l[Old(i)]) = End(H, h)
          /\ Old(i) \in 1..n
      BY <1>0, <1>15, <3>1
    <3>3. h <= h /\ t <= End(H, h)
      <4> DEFINE e == End(H, h)
      <4>1. h \in Nat /\ e \in Nat /\ t \in h .. (e - 1) BY <1>1, <1>4
      <4> HIDE DEF e, h
      <4>2. h <= h /\ t <= e BY <4>1
      <4> QED BY <4>2 DEF e
    <3> HIDE DEF Old, h
    <3> QED BY <1>1, <1>4, <3>1, <3>2, <3>3
  <2>3. CASE i = m + 1
    <3>1. L[i] = t /\ Old(i) = m BY <1>0, <1>9, <2>3
    <3>2. /\ l[Old(i)] = h /\ End(G, L[i]) = End(H, h) /\ End(H, l[Old(i)]) = End(H, h)
          /\ Old(i) \in 1..n
      BY <1>0, <1>15, <3>1
    <3>3. h <= t /\ End(H, h) <= End(H, h)
      <4> DEFINE e == End(H, h)
      <4>1. h \in Nat /\ e \in Nat /\ t \in h .. (e - 1) BY <1>1, <1>4
      <4> HIDE DEF e, h
      <4>2. h <= t /\ e <= e BY <4>1
      <4> QED BY <4>2 DEF e
    <3> HIDE DEF Old, h
    <3> QED BY <1>1, <1>4, <3>1, <3>2, <3>3
  <2>4. CASE i \in (m + 2)..(n + 1)
    <3>1. i - 1 \in 1..n /\ i - 1 # m /\ L[i] = l[i - 1] /\ Old(i) = i - 1
      BY <1>0, <1>9, <2>4
    <3>2. l[i - 1] \in Nat /\ End(H, l[i - 1]) \in Nat BY <3>1, Block
    <3> HIDE DEF Old
    <3> QED BY <1>15, <3>1, <3>2
  <2> QED BY <1>13, <2>1, <2>2, <2>3, <2>4
<1>17. Apart(L, G)
  <2> SUFFICES ASSUME NEW j \in 1..(n + 1), NEW k \in 1..(n + 1), j # k
               PROVE  End(G, L[j]) <= L[k] \/ End(G, L[k]) <= L[j]
    BY <1>9 DEF Apart
  <2>1. CASE Old(j) # Old(k)
    <3>1. End(H, l[Old(j)]) <= l[Old(k)] \/ End(H, l[Old(k)]) <= l[Old(j)]
      BY <1>0, <1>16, <2>1 DEF Apart
    <3> HIDE DEF Old
    <3>2. /\ L[j] \in Nat /\ End(G, L[j]) \in Nat /\ l[Old(j)] <= L[j]
          /\ End(G, L[j]) <= End(H, l[Old(j)]) /\ l[Old(j)] \in Nat
          /\ End(H, l[Old(j)]) \in Nat
      BY <1>16
    <3>3. /\ L[k] \in Nat /\ End(G, L[k]) \in Nat /\ l[Old(k)] <= L[k]
          /\ End(G, L[k]) <= End(H, l[Old(k)]) /\ l[Old(k)] \in Nat
          /\ End(H, l[Old(k)]) \in Nat
      BY <1>16
    <3> DEFINE p == L[j]
               q == L[k]
               pe == End(G, L[j])
               qe == End(G, L[k])
               x == l[Old(j)]
               y == l[Old(k)]
               xe == End(H, l[Old(j)])
               ye == End(H, l[Old(k)])
    <3>4. /\ p \in Nat /\ q \in Nat /\ pe \in Nat /\ qe \in Nat /\ x \in Nat /\ y \in Nat
          /\ xe \in Nat /\ ye \in Nat
          /\ x <= p /\ pe <= xe /\ y <= q /\ qe <= ye /\ (xe <= y \/ ye <= x)
      BY <3>1, <3>2, <3>3
    <3> HIDE DEF p, q, pe, qe, x, y, xe, ye
    <3>5. pe <= q \/ qe <= p BY <3>4
    <3> QED BY <3>5 DEF p, q, pe, qe
  <2>2. CASE Old(j) = Old(k)
    <3>1. (j = m /\ k = m + 1) \/ (j = m + 1 /\ k = m) BY <1>0, <2>2
    <3>2. L[m] = h /\ L[m + 1] = t BY <1>0, <1>9
    <3>3. End(G, L[m]) <= L[m + 1] BY <1>4, <1>15, <3>2
    <3> QED BY <3>1, <3>3
  <2> QED BY <2>1, <2>2
<1>18. Within(L, G, P)
  <2> SUFFICES ASSUME NEW k \in 1..(n + 1), NEW x \in L[k] .. (End(G, L[k]) - 1)
               PROVE  x \in Units(P)
    BY <1>9 DEF Within
  <2>1. x \in l[Old(k)] .. (End(H, l[Old(k)]) - 1)
    <3> HIDE DEF Old
    <3> QED BY <1>16
  <2>2. Old(k) \in 1..n BY <1>16
  <2> HIDE DEF Old
  <2> QED BY <2>1, <2>2, Block
<1>19. Covers(L, G, P)
  <2> SUFFICES ASSUME NEW x \in Units(P)
               PROVE  \E k \in 1..(n + 1) : x \in L[k] .. (End(G, L[k]) - 1)
    BY <1>9 DEF Covers
  <2>1. PICK k \in 1..n : x \in l[k] .. (End(H, l[k]) - 1) BY DEF Listed, Covers
  <2>2. CASE k = m
    <3>1. m \in 1..(n + 1) /\ m + 1 \in 1..(n + 1) /\ L[m] = h /\ L[m + 1] = t
      BY <1>0, <1>9
    <3>2. x \in h .. (t - 1) \/ x \in t .. (End(H, h) - 1)
      <4> HIDE DEF h
      <4> QED BY <1>1, <1>4, <2>1, <2>2 DEF h
    <3> QED BY <1>15, <3>1, <3>2
  <2>3. CASE k < m
    <3>1. k \in 1..m /\ k \in 1..(n + 1) /\ L[k] = l[k] BY <1>0, <1>9, <2>3
    <3> QED BY <1>15, <2>1, <2>3, <3>1
  <2>4. CASE k > m
    <3>1. k + 1 \in (m + 2)..(n + 1) /\ k + 1 \in 1..(n + 1) /\ (k + 1) - 1 = k
      BY <1>0, <2>4
    <3>2. L[k + 1] = l[k] BY <1>9, <3>1
    <3>3. End(G, l[k]) = End(H, l[k]) BY <1>15, <2>4
    <3> QED BY <2>1, <3>1, <3>2, <3>3
  <2> QED BY <1>0, <2>2, <2>3, <2>4
<1>20. Clean(L, G)
  <2> SUFFICES ASSUME NEW x \in Addr, \A k \in 1..(n + 1) : L[k] # x
               PROVE  G[x] = NoHeader
    BY <1>9 DEF Clean
  <2>1. x # t
    <3>1. m + 1 \in 1..(n + 1) /\ L[m + 1] = t BY <1>0, <1>9
    <3> QED BY <3>1
  <2>2. ASSUME NEW k \in 1..n PROVE l[k] # x
    <3>1. CASE k <= m
      <4>1. k \in 1..m /\ k \in 1..(n + 1) BY <1>0, <3>1
      <4> QED BY <1>9, <4>1
    <3>2. CASE k > m
      <4>1. k + 1 \in (m + 2)..(n + 1) /\ k + 1 \in 1..(n + 1) /\ (k + 1) - 1 = k
        BY <1>0, <3>2
      <4>2. L[k + 1] = l[k] BY <1>9, <4>1
      <4> QED BY <4>1, <4>2
    <3> QED BY <1>0, <3>1, <3>2
  <2>3. x # h /\ x # b
    <3>1. x # h BY <1>0, <2>2
    <3>2. m # n => m + 1 \in 1..n BY <1>0
    <3> QED BY <1>7, <2>2, <3>1, <3>2, Addresses
  <2>4. H[x] = NoHeader BY <2>2 DEF Listed, Clean
  <2> QED BY <1>8, <2>1, <2>3, <2>4 DEF SplitTo
<1>21. Listed(L, G, P)
  BY <1>0, <1>9, <1>10, <1>14, <1>17, <1>18, <1>19, <1>20 DEF Listed
<1>22. SplitShape(l, H, G, m, t, a) BY <1>11, <1>12, <1>15 DEF SplitShape
<1> QED BY <1>2, <1>5, <1>6, <1>21, <1>22 DEF t, G, L

\* Free blocks that touch still lie before a used one; the cut block may be
\* new and touch the one before it.
LEMMA SplitSettled ==
  ASSUME NEW l \in Seq(Addr), NEW H, NEW G, NEW m \in 1..Len(l), NEW t \in Addr, NEW a,
         SplitShape(l, H, G, m, t, a), H[l[m]].status = "FREE",
         \A k \in 1..Len(l) : Unmerged(l, H, k) => k + 1 = m \/ Reaches(l, H, k, {})
  PROVE  Settled(Inserted(l, m, t), G)
<1> DEFINE L == Inserted(l, m, t)
           n == Len(l)
<1>0. n \in Nat /\ m \in 1..n OBVIOUS
<1>1. /\ L \in Seq(Addr) /\ Len(L) = n + 1
      /\ \A i \in 1..m : L[i] = l[i]
      /\ L[m + 1] = t
      /\ \A i \in (m + 2)..(n + 1) : L[i] = l[i - 1]
  BY InsertedIs
<1>2. /\ \A k \in 1..n : k # m =>
           G[l[k]].status = H[l[k]].status /\ End(G, l[k]) = End(H, l[k])
      /\ G[l[m]].status = "FREE" /\ End(G, l[m]) = t /\ G[t].status = "USED"
  BY DEF SplitShape
<1> HIDE DEF L, n
<1>3. ASSUME NEW k \in 1..m, Unmerged(L, G, k) PROVE k # m /\ Unmerged(l, H, k)
  <2>1. k # m BY <1>0, <1>1, <1>2, <1>3 DEF Unmerged
  <2>2. k \in 1..n /\ k + 1 \in 1..m /\ k + 1 \in 1..n /\ k \in 1..(n - 1)
    BY <1>0, <2>1
  <2>3. L[k] = l[k] /\ L[k + 1] = l[k + 1] BY <1>1, <2>2
  <2>4. G[l[k]].status = H[l[k]].status /\ End(G, l[k]) = End(H, l[k])
    BY <1>2, <2>1, <2>2
  <2>5. H[l[k + 1]].status = "FREE"
    <3>1. CASE k + 1 = m BY <3>1
    <3>2. CASE k + 1 # m BY <1>2, <1>3, <2>2, <2>3, <3>2 DEF Unmerged
    <3> QED BY <3>1, <3>2
  <2>6. /\ G[L[k]].status = "FREE" /\ End(G, L[k]) = L[k + 1] BY <1>3 DEF Unmerged
  <2> QED BY <2>1, <2>2, <2>3, <2>4, <2>5, <2>6 DEF Unmerged, n
<1>4. ASSUME NEW k \in 1..m, Unmerged(L, G, k) PROVE Reaches(L, G, k, {})
  <2>1. k # m /\ Unmerged(l, H, k) /\ k \in 1..n /\ k < m BY <1>0, <1>3, <1>4
  <2>2. ASSUME \A i \in k..(m - 1) : End(H, l[i]) = l[i + 1],
               \A i \in (k + 1)..m : H[l[i]].status = "FREE"
        PROVE  Reaches(L, G, k, {})
    <3>1. m + 1 \in (k + 1)..(n + 1) BY <1>0, <2>1
    <3>2. ASSUME NEW i \in k..((m + 1) - 1) PROVE End(G, L[i]) = L[i + 1]
      <4>1. CASE i = m BY <1>0, <1>1, <1>2, <4>1
      <4>2. CASE i # m
        <5>1. i \in k..(m - 1) /\ i \in 1..m /\ i + 1 \in 1..m /\ i \in 1..n
          BY <1>0, <2>1, <4>2
        <5> QED BY <1>1, <1>2, <2>2, <4>2, <5>1
      <4> QED BY <4>1, <4>2
    <3>3. ASSUME NEW i \in (k + 1)..((m + 1) - 1) PROVE G[L[i]].status = "FREE"
      <4>1. i \in (k + 1)..m /\ i \in 1..m /\ i \in 1..n BY <1>0, <2>1
      <4> QED BY <1>1, <1>2, <2>2, <4>1
    <3>4. G[L[m + 1]].status = "USED" BY <1>1, <1>2
    <3> QED BY <1>1, <3>1, <3>2, <3>3, <3>4 DEF Reaches
  <2>3. CASE k + 1 = m
    <3>1. \A i \in k..(m - 1) : i = k BY <1>0, <2>1, <2>3
    <3>2. \A i \in (k + 1)..m : i = m BY <1>0, <2>1, <2>3
    <3>3. End(H, l[k]) = l[k + 1] BY <2>1 DEF Unmerged
    <3> QED BY <2>2, <3>1, <3>2, <3>3
  <2>4. CASE k + 1 # m
    <3>1. Reaches(l, H, k, {}) BY <2>1, <2>4
    <3>2. PICK j \in (k + 1)..n :
            /\ H[l[j]].status = "USED"
            /\ \A i \in k..(j - 1) : End(H, l[i]) = l[i + 1]
            /\ \A i \in (k + 1)..(j - 1) : H[l[i]].status = "FREE"
      BY <3>1 DEF Reaches, n
    <3>3. j # m /\ j \in Nat BY <1>0, <2>1, <3>2
    <3>4. CASE j < m
      <4>1. j \in (k + 1)..(n + 1) /\ j \in 1..m /\ j \in 1..n BY <1>0, <2>1, <3>4
      <4>2. ASSUME NEW i \in k..(j - 1) PROVE End(G, L[i]) = L[i + 1]
        <5>1. i \in 1..m /\ i + 1 \in 1..m /\ i \in 1..n /\ i # m BY <1>0, <2>1, <3>4, <4>1
        <5> QED BY <1>1, <1>2, <3>2, <5>1
      <4>3. ASSUME NEW i \in (k + 1)..(j - 1) PROVE G[L[i]].status = "FREE"
        <5>1. i \in 1..m /\ i \in 1..n /\ i # m BY <1>0, <2>1, <3>4, <4>1
        <5> QED BY <1>1, <1>2, <3>2, <5>1
      <4>4. G[L[j]].status = "USED" BY <1>1, <1>2, <3>2, <3>3, <4>1
      <4> QED BY <1>1, <4>1, <4>2, <4>3, <4>4 DEF Reaches
    <3>5. CASE j > m
      <4>1. \A i \in k..(m - 1) : i \in k..(j - 1) BY <1>0, <2>1, <3>3, <3>5
      <4>2. \A i \in (k + 1)..m : i \in (k + 1)..(j - 1) BY <1>0, <2>1, <3>3, <3>5
      <4> QED BY <2>2, <3>2, <4>1, <4>2
    <3> QED BY <1>0, <3>3, <3>4, <3>5
  <2> QED BY <2>3, <2>4
<1>5. ASSUME NEW k \in (m + 2)..(n + 1), Unmerged(L, G, k) PROVE Reaches(L, G, k, {})
  <2> DEFINE q == k - 1
  <2>1. k \in 1..n BY <1>0, <1>1, <1>5 DEF Unmerged
  <2>2. /\ q \in 1..n /\ q # m /\ q + 1 \in 1..n /\ q + 1 # m /\ q \in 1..(n - 1)
        /\ q \in Nat /\ q + 1 = k /\ k + 1 \in (m + 2)..(n + 1)
    BY <1>0, <2>1
  <2>3. L[k] = l[q] /\ L[k + 1] = l[q + 1]
    <3>1. (k + 1) - 1 = q + 1 BY <1>0
    <3> QED BY <1>1, <2>2, <3>1
  <2>4. Unmerged(l, H, q)
    <3>1. G[L[k]].status = "FREE" /\ G[L[k + 1]].status = "FREE" /\ End(G, L[k]) = L[k + 1]
      BY <1>5 DEF Unmerged
    <3> HIDE DEF q
    <3> QED BY <1>2, <2>2, <2>3, <3>1 DEF Unmerged, n
  <2>5. Reaches(l, H, q, {})
    <3> HIDE DEF q
    <3> QED BY <2>2, <2>4 DEF n
  <2>6. PICK j \in (q + 1)..n :
          /\ H[l[j]].status = "USED"
          /\ \A i \in q..(j - 1) : End(H, l[i]) = l[i + 1]
          /\ \A i \in (q + 1)..(j - 1) : H[l[i]].status = "FREE"
    BY <2>5 DEF Reaches, n
  <2>7. /\ j + 1 \in (k + 1)..(n + 1) /\ j + 1 \in (m + 2)..(n + 1) /\ (j + 1) - 1 = j
        /\ j \in 1..n /\ j # m
    <3>1. j \in Nat /\ k \in Nat /\ j >= k /\ k >= m + 2 /\ j <= n BY <1>0, <2>2
    <3> QED BY <1>0, <3>1
  <2>8. ASSUME NEW i \in k..((j + 1) - 1) PROVE End(G, L[i]) = L[i + 1]
    <3>1. /\ i \in (m + 2)..(n + 1) /\ i + 1 \in (m + 2)..(n + 1) /\ (i + 1) - 1 = i
          /\ i - 1 \in q..(j - 1) /\ (i - 1) + 1 = i /\ i - 1 \in 1..n /\ i - 1 # m
      BY <1>0, <2>2, <2>7
    <3>2. L[i] = l[i - 1] /\ L[i + 1] = l[i] BY <1>1, <3>1
    <3>3. End(H, l[i - 1]) = l[i] BY <2>6, <3>1
    <3> QED BY <1>2, <3>1, <3>2, <3>3
  <2>9. ASSUME NEW i \in (k + 1)..((j + 1) - 1) PROVE G[L[i]].status = "FREE"
    <3>1. /\ i \in (m + 2)..(n + 1) /\ i - 1 \in (q + 1)..(j - 1)
          /\ i - 1 \in 1..n /\ i - 1 # m
      BY <1>0, <2>2, <2>7
    <3> QED BY <1>1, <1>2, <2>6, <3>1
  <2>10. G[L[j + 1]].status = "USED" BY <1>1, <1>2, <2>6, <2>7
  <2> QED BY <1>1, <2>7, <2>8, <2>9, <2>10 DEF Reaches
<1>6. ~ Unmerged(L, G, m + 1) BY <1>1, <1>2 DEF Unmerged
<1>7. ASSUME NEW k \in 1..(n + 1), Unmerged(L, G, k) PROVE Reaches(L, G, k, {})
  <2>1. k \in 1..m \/ k = m + 1 \/ k \in (m + 2)..(n + 1) BY <1>0
  <2> QED BY <1>4, <1>5, <1>6, <1>7, <2>1
<1> QED BY <1>1, <1>7 DEF Settled, L

\* What callers hold is used, the new block too, which nobody held.
LEMMA SplitHeld ==
  ASSUME NEW l \in Seq(Addr), NEW H, NEW G, NEW m \in 1..Len(l), NEW t \in Addr,
         NEW a \in Nat, NEW V, NEW b \in Nat, b <= 8 * a,
         SplitShape(l, H, G, m, t, a), H[l[m]].status = "FREE",
         \A k \in 1..Len(l) : l[k] # t, Held(l, H, V)
  PROVE  LET r == [addr |-> t + HEADER, bytes |-> b]
         IN  (\A x \in V : x.addr # r.addr) /\ Held(Inserted(l, m, t), G, V \cup {r})
<1> DEFINE L == Inserted(l, m, t)
           n == Len(l)
           r == [addr |-> t + HEADER, bytes |-> b]
<1>0. /\ n \in Nat /\ m \in 1..n /\ HEADER = 2 /\ t \in Nat
      /\ \A k \in 1..n : l[k] \in Nat
  <2>1. Addr \subseteq Nat /\ HEADER = 2 BY Addresses
  <2>2. \A k \in 1..n : l[k] \in Addr OBVIOUS
  <2>3. n \in Nat /\ m \in 1..n OBVIOUS
  <2> QED BY <2>1, <2>2, <2>3
<1>1. /\ L \in Seq(Addr) /\ Len(L) = n + 1
      /\ \A i \in 1..m : L[i] = l[i]
      /\ L[m + 1] = t
      /\ \A i \in (m + 2)..(n + 1) : L[i] = l[i - 1]
  BY InsertedIs
<1>2. /\ \A k \in 1..n : k # m =>
           G[l[k]].status = H[l[k]].status /\ G[l[k]].size = H[l[k]].size
      /\ G[l[m]].status = "FREE" /\ G[t].status = "USED" /\ G[t].size = a
  BY DEF SplitShape
<1>3. /\ r \in [addr : Nat, bytes : Nat] /\ r.addr = t + 2 /\ r.bytes = b BY <1>0
<1> HIDE DEF L, n, r
<1>4. /\ V \subseteq [addr : Nat, bytes : Nat] /\ IsFiniteSet(V)
      /\ \A x, y \in V : x # y => x.addr # y.addr
      /\ \A x \in V : \E k \in 1..n :
           /\ l[k] = x.addr - 2 /\ H[l[k]].status = "USED"
           /\ x.bytes <= 8 * H[l[k]].size
      /\ \A k \in 1..n : H[l[k]].status = "USED" => \E x \in V : x.addr = l[k] + 2
  BY <1>0 DEF Held, n
<1>5. ASSUME NEW k \in 1..n, k # m
      PROVE  \E i \in 1..(n + 1) : L[i] = l[k]
  <2>1. CASE k < m
    <3>1. k \in 1..m /\ k \in 1..(n + 1) BY <1>0, <2>1
    <3> QED BY <1>1, <3>1
  <2>2. CASE k > m
    <3>1. k + 1 \in (m + 2)..(n + 1) /\ k + 1 \in 1..(n + 1) /\ (k + 1) - 1 = k BY <1>0, <2>2
    <3>2. L[k + 1] = l[k] BY <1>1, <3>1
    <3> QED BY <3>1, <3>2
  <2> QED BY <1>0, <1>5, <2>1, <2>2
<1>6. ASSUME NEW x \in V
      PROVE  /\ x.addr # t + 2
             /\ \E k \in 1..(n + 1) : /\ L[k] = x.addr - 2 /\ G[L[k]].status = "USED"
                                      /\ x.bytes <= 8 * G[L[k]].size
  <2>1. PICK k \in 1..n : /\ l[k] = x.addr - 2 /\ H[l[k]].status = "USED"
                          /\ x.bytes <= 8 * H[l[k]].size
    BY <1>4
  <2>2. k # m BY <2>1
  <2>3. x.addr \in Nat /\ l[k] # t BY <1>4 DEF n
  <2>4. PICK i \in 1..(n + 1) : L[i] = l[k] BY <1>5, <2>2
  <2>5. G[L[i]].status = "USED" /\ x.bytes <= 8 * G[L[i]].size /\ L[i] = x.addr - 2
    BY <1>2, <2>1, <2>2, <2>4
  <2>6. x.addr # t + 2
    <3> DEFINE p == x.addr
               q == l[k]
    <3>1. p \in Nat /\ q = p - 2 /\ q # t /\ t \in Nat BY <1>0, <2>1, <2>3
    <3> HIDE DEF p, q
    <3>2. p # t + 2 BY <3>1
    <3> QED BY <3>2 DEF p
  <2> QED BY <2>5, <2>6
<1>7. /\ L[m + 1] = r.addr - 2 /\ G[L[m + 1]].status = "USED" /\ r.bytes <= 8 * G[L[m + 1]].size
      /\ m + 1 \in 1..(n + 1)
  BY <1>0, <1>1, <1>2, <1>3
<1>8. ASSUME NEW k \in 1..(n + 1), G[L[k]].status = "USED"
      PROVE  \E x \in V \cup {r} : x.addr = L[k] + 2
  <2>1. CASE k = m + 1 BY <1>1, <1>3, <2>1
  <2>2. CASE k # m + 1
    <3>1. PICK i \in 1..n : L[k] = l[i]
      <4>1. CASE k \in 1..m
        <5>1. k \in 1..n /\ L[k] = l[k] BY <1>0, <1>1, <4>1
        <5> QED BY <5>1
      <4>2. CASE k \in (m + 2)..(n + 1)
        <5>1. k - 1 \in 1..n BY <1>0, <4>2
        <5> QED BY <1>1, <4>2, <5>1
      <4> QED BY <1>0, <2>2, <4>1, <4>2
    <3>2. i # m BY <1>2, <1>8, <3>1
    <3>3. H[l[i]].status = "USED" BY <1>2, <1>8, <3>1, <3>2
    <3> QED BY <1>4, <3>1, <3>3
  <2> QED BY <2>1, <2>2
<1>9. IsFiniteSet(V \cup {r}) BY <1>4, FS_AddElement
<1>10. V \cup {r} \subseteq [addr : Nat, bytes : Nat] BY <1>3, <1>4
<1>11. \A x, y \in V \cup {r} : x # y => x.addr # y.addr BY <1>3, <1>4, <1>6
<1>12. \A x \in V \cup {r} : \E k \in 1..(n + 1) :
         /\ L[k] = x.addr - 2 /\ G[L[k]].status = "USED" /\ x.bytes <= 8 * G[L[k]].size
  <2> TAKE x \in V \cup {r}
  <2>1. CASE x \in V BY <1>6, <2>1
  <2>2. CASE x = r BY <1>7, <2>2
  <2> QED BY <2>1, <2>2
<1>13. Held(L, G, V \cup {r})
  BY <1>0, <1>1, <1>8, <1>9, <1>10, <1>11, <1>12 DEF Held
<1> QED BY <1>3, <1>6, <1>13 DEF L, r

------------------------------------------------------------------------------
(***************************************************************************)
(* The status of one block.                                                *)

Mark(H, h, s) == [H EXCEPT ![h].status = s]

\* Only the status of block m changes.
Marked(l, H, G, m) ==
  /\ \A k \in 1..Len(l) : /\ G[l[k]].size = H[l[k]].size /\ End(G, l[k]) = End(H, l[k])
                          /\ k # m => G[l[k]].status = H[l[k]].status

\* The blocks still link up and tile the pages.
LEMMA MarkListed ==
  ASSUME NEW l, NEW H, NEW P, Listed(l, H, P), NEW m \in 1..Len(l),
         NEW s \in {"FREE", "USED"}, NEW G, G = Mark(H, l[m], s)
  PROVE  Listed(l, G, P) /\ Marked(l, H, G, m) /\ G[l[m]].status = s
<1> DEFINE h == l[m]
           e == [H[h] EXCEPT !.status = s]
<1>0. /\ l \in Seq(Addr) /\ H \in [Addr -> Header] /\ P \subseteq Space /\ Len(l) >= 1
      /\ Linked(l, H) /\ Apart(l, H) /\ Within(l, H, P) /\ Covers(l, H, P) /\ Clean(l, H)
  BY DEF Listed
<1>1. h \in Addr /\ H[h] \in Header BY <1>0
<1>2. G = [H EXCEPT ![h] = e] BY DEF Mark
<1>3. /\ e \in Header /\ e.status = s /\ e.size = H[h].size /\ e.next = H[h].next
      /\ e.prev = H[h].prev
  BY <1>1 DEF Header
<1> HIDE DEF e, h
<1>4. G \in [Addr -> Header] /\ G[h] = e /\ \A x \in Addr : x # h => G[x] = H[x]
  BY <1>0, <1>1, <1>2, <1>3
<1>5. ASSUME NEW x \in Addr
      PROVE  /\ G[x].size = H[x].size /\ G[x].next = H[x].next /\ G[x].prev = H[x].prev
             /\ End(G, x) = End(H, x)
  <2>1. G[x].size = H[x].size /\ G[x].next = H[x].next /\ G[x].prev = H[x].prev
    BY <1>3, <1>4
  <2> QED BY <2>1 DEF End
<1>6. \A k \in 1..Len(l) : l[k] \in Addr BY <1>0
<1>7. ASSUME NEW k \in 1..Len(l), k # m PROVE G[l[k]].status = H[l[k]].status
  <2>1. l[k] # h BY <1>7, Once DEF h
  <2> QED BY <1>4, <1>6, <2>1
<1>8. G[h].status = s BY <1>3, <1>4
<1>9. Linked(l, G)
  <2>1. \A k \in 1..Len(l) : G[l[k]].status \in {"FREE", "USED"}
    <3> TAKE k \in 1..Len(l)
    <3>1. CASE k = m BY <1>8, <3>1 DEF h
    <3>2. CASE k # m BY <1>0, <1>7, <3>2 DEF Linked
    <3> QED BY <3>1, <3>2
  <2>2. \A k \in 1..Len(l) : /\ G[l[k]].next = H[l[k]].next /\ G[l[k]].prev = H[l[k]].prev
    BY <1>5, <1>6
  <2> QED BY <1>0, <2>1, <2>2 DEF Linked
<1>10. \A k \in 1..Len(l) : End(G, l[k]) = End(H, l[k]) BY <1>5, <1>6
<1>11. Apart(l, G) /\ Within(l, G, P) /\ Covers(l, G, P)
  BY <1>0, <1>10 DEF Apart, Within, Covers
<1>12. Clean(l, G)
  <2> SUFFICES ASSUME NEW x \in Addr, \A k \in 1..Len(l) : l[k] # x
               PROVE  G[x] = NoHeader
    BY DEF Clean
  <2>1. x # h BY DEF h
  <2> QED BY <1>0, <1>4, <2>1 DEF Clean
<1>13. Listed(l, G, P) BY <1>0, <1>4, <1>9, <1>11, <1>12 DEF Listed
<1>14. Marked(l, H, G, m) BY <1>5, <1>6, <1>7 DEF Marked
<1> QED BY <1>8, <1>13, <1>14 DEF h

\* A free block that is taken ends the chains that pass it.
LEMMA TakeSettled ==
  ASSUME NEW l, Len(l) \in Nat, NEW H, NEW G, NEW m \in 1..Len(l), Marked(l, H, G, m),
         H[l[m]].status = "FREE", G[l[m]].status = "USED", Settled(l, H)
  PROVE  Settled(l, G)
<1> SUFFICES ASSUME NEW k \in 1..Len(l), Unmerged(l, G, k) PROVE Reaches(l, G, k, {})
  BY DEF Settled
<1> DEFINE n == Len(l)
<1>0. n \in Nat /\ m \in 1..n /\ k \in 1..n OBVIOUS
<1>1. /\ \A i \in 1..n : End(G, l[i]) = End(H, l[i])
      /\ \A i \in 1..n : i # m => G[l[i]].status = H[l[i]].status
  BY DEF Marked
<1>2. /\ k \in 1..(n - 1) /\ k + 1 \in 1..n /\ k # m /\ k + 1 # m
      /\ G[l[k]].status = "FREE" /\ G[l[k + 1]].status = "FREE" /\ End(G, l[k]) = l[k + 1]
  BY DEF Unmerged
<1>3. Unmerged(l, H, k) BY <1>1, <1>2 DEF Unmerged
<1>4. Reaches(l, H, k, {}) BY <1>3 DEF Settled
<1>5. PICK j \in (k + 1)..n :
        /\ H[l[j]].status = "USED"
        /\ \A i \in k..(j - 1) : End(H, l[i]) = l[i + 1]
        /\ \A i \in (k + 1)..(j - 1) : H[l[i]].status = "FREE"
  BY <1>4 DEF Reaches
<1> HIDE DEF n
<1>6. j # m BY <1>5
<1>7. CASE m \in (k + 1)..(j - 1)
  <2>1. m \in (k + 1)..n BY <1>0, <1>7
  <2>2. ASSUME NEW i \in k..(m - 1) PROVE End(G, l[i]) = l[i + 1]
    <3>1. i \in k..(j - 1) /\ i \in 1..n BY <1>0, <1>7
    <3> QED BY <1>1, <1>5, <3>1
  <2>3. ASSUME NEW i \in (k + 1)..(m - 1) PROVE G[l[i]].status = "FREE"
    <3>1. i \in (k + 1)..(j - 1) /\ i \in 1..n /\ i # m BY <1>0, <1>7
    <3> QED BY <1>1, <1>5, <3>1
  <2> QED BY <2>1, <2>2, <2>3 DEF Reaches, n
<1>8. CASE m \notin (k + 1)..(j - 1)
  <2>1. j \in 1..n BY <1>0, <1>5
  <2>2. ASSUME NEW i \in k..(j - 1) PROVE End(G, l[i]) = l[i + 1]
    <3>1. i \in 1..n BY <1>0, <2>1
    <3> QED BY <1>1, <1>5, <3>1
  <2>3. ASSUME NEW i \in (k + 1)..(j - 1) PROVE G[l[i]].status = "FREE"
    <3>1. i \in 1..n /\ i # m BY <1>0, <2>1, <1>8
    <3> QED BY <1>1, <1>5, <3>1
  <2>4. G[l[j]].status = "USED" BY <1>1, <1>5, <1>6, <2>1
  <2> QED BY <1>5, <2>2, <2>3, <2>4 DEF Reaches, n
<1> QED BY <1>7, <1>8

\* A used block that is freed ends chains of its own.
LEMMA FreeMergesBack ==
  ASSUME NEW l, Len(l) \in Nat, NEW H, NEW G, NEW m \in 1..Len(l), Marked(l, H, G, m),
         Settled(l, H)
  PROVE  MergesBack(l, G, l[m])
<1> SUFFICES ASSUME NEW k \in 1..Len(l), Unmerged(l, G, k), k # m
             PROVE  Reaches(l, G, k, {l[m]})
  BY DEF MergesBack
<1> DEFINE n == Len(l)
<1>0. n \in Nat /\ m \in 1..n /\ k \in 1..n OBVIOUS
<1>1. /\ \A i \in 1..n : End(G, l[i]) = End(H, l[i])
      /\ \A i \in 1..n : i # m => G[l[i]].status = H[l[i]].status
  BY DEF Marked
<1>2. /\ k \in 1..(n - 1) /\ k + 1 \in 1..n
      /\ G[l[k]].status = "FREE" /\ G[l[k + 1]].status = "FREE" /\ End(G, l[k]) = l[k + 1]
  BY DEF Unmerged
<1>3. CASE k + 1 = m
  <2>1. m \in (k + 1)..n /\ \A i \in k..(m - 1) : i = k
    <3> HIDE DEF n
    <3> QED BY <1>0, <1>3
  <2>2. \A i \in (k + 1)..(m - 1) : FALSE
    <3> HIDE DEF n
    <3> QED BY <1>0, <1>3
  <2> QED BY <1>2, <1>3, <2>1, <2>2 DEF Reaches
<1>4. CASE k + 1 # m
  <2>1. Unmerged(l, H, k) BY <1>1, <1>2, <1>4 DEF Unmerged
  <2>2. Reaches(l, H, k, {}) BY <2>1 DEF Settled
  <2>3. PICK j \in (k + 1)..n :
          /\ H[l[j]].status = "USED"
          /\ \A i \in k..(j - 1) : End(H, l[i]) = l[i + 1]
          /\ \A i \in (k + 1)..(j - 1) : H[l[i]].status = "FREE"
    BY <2>2 DEF Reaches
  <2> HIDE DEF n
  <2>4. j \in 1..n BY <1>0, <2>3
  <2>5. CASE m \in (k + 1)..(j - 1)
    <3>1. m \in (k + 1)..n BY <1>0, <2>5
    <3>2. ASSUME NEW i \in k..(m - 1) PROVE End(G, l[i]) = l[i + 1]
      <4>1. i \in k..(j - 1) /\ i \in 1..n BY <1>0, <2>4, <2>5
      <4> QED BY <1>1, <2>3, <4>1
    <3>3. ASSUME NEW i \in (k + 1)..(m - 1) PROVE G[l[i]].status = "FREE"
      <4>1. i \in (k + 1)..(j - 1) /\ i \in 1..n /\ i # m BY <1>0, <2>4, <2>5
      <4> QED BY <1>1, <2>3, <4>1
    <3> QED BY <3>1, <3>2, <3>3 DEF Reaches, n
  <2>6. CASE m \notin (k + 1)..(j - 1)
    <3>2. ASSUME NEW i \in k..(j - 1) PROVE End(G, l[i]) = l[i + 1]
      <4>1. i \in 1..n BY <1>0, <2>4
      <4> QED BY <1>1, <2>3, <4>1
    <3>3. ASSUME NEW i \in (k + 1)..(j - 1) PROVE G[l[i]].status = "FREE"
      <4>1. i \in 1..n /\ i # m BY <1>0, <2>4, <2>6
      <4> QED BY <1>1, <2>3, <4>1
    <3>4. G[l[j]].status = "USED" \/ l[j] \in {l[m]}
      <4>1. CASE j = m BY <4>1
      <4>2. CASE j # m BY <1>1, <2>3, <2>4, <4>2
      <4> QED BY <4>1, <4>2
    <3> QED BY <2>3, <3>2, <3>3, <3>4 DEF Reaches, n
  <2> QED BY <2>5, <2>6
<1> QED BY <1>3, <1>4

\* The block that is taken is one more that is held.
LEMMA TakeHeld ==
  ASSUME NEW l, NEW H, NEW P, Listed(l, H, P), NEW G, NEW m \in 1..Len(l),
         NEW V, NEW b \in Nat, b <= 8 * H[l[m]].size, Marked(l, H, G, m),
         H[l[m]].status = "FREE", G[l[m]].status = "USED", Held(l, H, V)
  PROVE  LET r == [addr |-> l[m] + HEADER, bytes |-> b]
         IN  (\A x \in V : x.addr # r.addr) /\ Held(l, G, V \cup {r})
<1> DEFINE n == Len(l)
           r == [addr |-> l[m] + HEADER, bytes |-> b]
<1>0. n \in Nat /\ m \in 1..n /\ HEADER = 2 BY Addresses DEF Listed
<1>1. ASSUME NEW k \in 1..n PROVE l[k] \in Nat /\ H[l[k]].size \in Nat BY Block
<1>2. /\ \A k \in 1..n : G[l[k]].size = H[l[k]].size
      /\ \A k \in 1..n : k # m => G[l[k]].status = H[l[k]].status
  BY DEF Marked
<1>3. /\ r \in [addr : Nat, bytes : Nat] /\ r.addr = l[m] + 2 /\ r.bytes = b
  BY <1>0, <1>1
<1> HIDE DEF n, r
<1>4. /\ V \subseteq [addr : Nat, bytes : Nat] /\ IsFiniteSet(V)
      /\ \A x, y \in V : x # y => x.addr # y.addr
      /\ \A x \in V : \E k \in 1..n :
           /\ l[k] = x.addr - 2 /\ H[l[k]].status = "USED"
           /\ x.bytes <= 8 * H[l[k]].size
      /\ \A k \in 1..n : H[l[k]].status = "USED" => \E x \in V : x.addr = l[k] + 2
  BY <1>0 DEF Held, n
<1>5. ASSUME NEW x \in V
      PROVE  /\ x.addr # r.addr
             /\ \E k \in 1..n : /\ l[k] = x.addr - 2 /\ G[l[k]].status = "USED"
                                /\ x.bytes <= 8 * G[l[k]].size
  <2>1. PICK k \in 1..n : /\ l[k] = x.addr - 2 /\ H[l[k]].status = "USED"
                          /\ x.bytes <= 8 * H[l[k]].size
    BY <1>4
  <2>2. k # m BY <2>1
  <2>3. x.addr \in Nat BY <1>4
  <2>4. l[k] # l[m] BY <2>2, Once DEF n
  <2>5. x.addr # r.addr BY <1>0, <1>1, <1>3, <2>1, <2>3, <2>4
  <2> QED BY <1>2, <2>1, <2>2, <2>5
<1>6. l[m] = r.addr - 2 /\ r.bytes <= 8 * G[l[m]].size BY <1>0, <1>1, <1>2, <1>3
<1>7. ASSUME NEW k \in 1..n, G[l[k]].status = "USED"
      PROVE  \E x \in V \cup {r} : x.addr = l[k] + 2
  <2>1. CASE k = m BY <1>3, <2>1
  <2>2. CASE k # m BY <1>2, <1>4, <1>7, <2>2
  <2> QED BY <2>1, <2>2
<1>8. IsFiniteSet(V \cup {r}) BY <1>4, FS_AddElement
<1>9. V \cup {r} \subseteq [addr : Nat, bytes : Nat] BY <1>3, <1>4
<1>10. \A x, y \in V \cup {r} : x # y => x.addr # y.addr BY <1>4, <1>5
<1>11. \A x \in V \cup {r} : \E k \in 1..n :
         /\ l[k] = x.addr - 2 /\ G[l[k]].status = "USED" /\ x.bytes <= 8 * G[l[k]].size
  <2> TAKE x \in V \cup {r}
  <2>1. CASE x \in V BY <1>5, <2>1
  <2>2. CASE x = r BY <1>0, <1>6, <2>2
  <2> QED BY <2>1, <2>2
<1>12. Held(l, G, V \cup {r})
  BY <1>0, <1>7, <1>8, <1>9, <1>10, <1>11 DEF Held, n
<1> QED BY <1>5, <1>12 DEF r

\* The block that is freed is held no more.
LEMMA FreeHeld ==
  ASSUME NEW l, NEW H, NEW P, Listed(l, H, P), NEW G, NEW m \in 1..Len(l),
         NEW V, NEW x \in V, x.addr = l[m] + HEADER, Marked(l, H, G, m),
         G[l[m]].status = "FREE", Held(l, H, V)
  PROVE  Held(l, G, V \ {x})
<1> DEFINE n == Len(l)
<1>0. n \in Nat /\ m \in 1..n /\ HEADER = 2 BY Addresses DEF Listed
<1>1. ASSUME NEW k \in 1..n PROVE l[k] \in Nat /\ H[l[k]].size \in Nat BY Block
<1>2. /\ \A k \in 1..n : G[l[k]].size = H[l[k]].size
      /\ \A k \in 1..n : k # m => G[l[k]].status = H[l[k]].status
  BY DEF Marked
<1> HIDE DEF n
<1>4. /\ V \subseteq [addr : Nat, bytes : Nat] /\ IsFiniteSet(V)
      /\ \A y, z \in V : y # z => y.addr # z.addr
      /\ \A y \in V : \E k \in 1..n :
           /\ l[k] = y.addr - 2 /\ H[l[k]].status = "USED"
           /\ y.bytes <= 8 * H[l[k]].size
      /\ \A k \in 1..n : H[l[k]].status = "USED" => \E y \in V : y.addr = l[k] + 2
  BY <1>0 DEF Held, n
<1>5. ASSUME NEW y \in V \ {x}
      PROVE  \E k \in 1..n : /\ l[k] = y.addr - 2 /\ G[l[k]].status = "USED"
                             /\ y.bytes <= 8 * G[l[k]].size
  <2>1. PICK k \in 1..n : /\ l[k] = y.addr - 2 /\ H[l[k]].status = "USED"
                          /\ y.bytes <= 8 * H[l[k]].size
    BY <1>4
  <2>2. x.addr # y.addr /\ y.addr \in Nat BY <1>4
  <2>3. k # m BY <1>0, <1>1, <2>1, <2>2
  <2> QED BY <1>2, <2>1, <2>3
<1>6. ASSUME NEW k \in 1..n, G[l[k]].status = "USED"
      PROVE  \E y \in V \ {x} : y.addr = l[k] + 2
  <2>1. k # m BY <1>6
  <2>2. PICK y \in V : y.addr = l[k] + 2 BY <1>2, <1>4, <1>6, <2>1
  <2>3. l[k] # l[m] BY <2>1, Once DEF n
  <2>4. y # x BY <1>0, <1>1, <2>2, <2>3
  <2> QED BY <2>2, <2>4
<1>7. IsFiniteSet(V \ {x}) BY <1>4, FS_RemoveElement
<1> QED BY <1>0, <1>4, <1>5, <1>6, <1>7 DEF Held, n

------------------------------------------------------------------------------
(***************************************************************************)
(* New pages behind the last block.                                        *)

\* What kmalloc writes to link a new region of n pages at h behind block z.
Grown(H, z, h, n) ==
  [H EXCEPT ![z].next = h, ![h].prev = z, ![h].next = NULL, ![h].status = "FREE",
            ![h].size = n * PageUnits - HEADER]

\* The blocks there were keep their size and status.
Kept(l, H, G) ==
  \A k \in 1..Len(l) : /\ G[l[k]].size = H[l[k]].size /\ End(G, l[k]) = End(H, l[k])
                       /\ G[l[k]].status = H[l[k]].status

\* The fields of the headers that are written.
LEMMA GrownFields ==
  ASSUME NEW H \in [Addr -> Header], NEW z \in Addr, NEW h \in Addr, z # h, NEW n,
         n * PageUnits - HEADER \in Nat, NEW G, G = Grown(H, z, h, n)
  PROVE  /\ G \in [Addr -> Header]
         /\ G[z].next = h /\ G[z].prev = H[z].prev /\ G[z].size = H[z].size
         /\ G[z].status = H[z].status
         /\ G[h].prev = z /\ G[h].next = NULL /\ G[h].status = "FREE"
         /\ G[h].size = n * PageUnits - HEADER
         /\ \A x \in Addr : x # z /\ x # h => G[x] = H[x]
<1> DEFINE s == n * PageUnits - HEADER
           e == [H[z] EXCEPT !.next = h]
           o == [[H[h] EXCEPT !.prev = z] EXCEPT !.next = NULL]
           f == [[o EXCEPT !.status = "FREE"] EXCEPT !.size = s]
           F == [H EXCEPT ![z] = e]
<1>1. H[z] \in Header /\ H[h] \in Header /\ s \in Nat OBVIOUS
<1>2. /\ e \in Header /\ e.next = h /\ e.prev = H[z].prev /\ e.size = H[z].size
      /\ e.status = H[z].status
  BY <1>1 DEF Header
<1>3. /\ f \in Header /\ f.prev = z /\ f.next = NULL /\ f.status = "FREE" /\ f.size = s
  <2> HIDE DEF s
  <2> QED BY <1>1 DEF Header
<1>4. F \in [Addr -> Header] /\ F[z] = e /\ \A x \in Addr : x # z => F[x] = H[x]
  <2> HIDE DEF e
  <2> QED BY <1>2
<1>5. F[h] = H[h] BY <1>4
<1>6. G = [[[[F EXCEPT ![h].prev = z] EXCEPT ![h].next = NULL]
                EXCEPT ![h].status = "FREE"] EXCEPT ![h].size = s]
  BY DEF Grown
<1>7. G = [F EXCEPT ![h] = f]
  <2> HIDE DEF F, s
  <2>1. f = [[[[F[h] EXCEPT !.prev = z] EXCEPT !.next = NULL]
                EXCEPT !.status = "FREE"] EXCEPT !.size = s]
    BY <1>5
  <2>2. h \in Addr /\ F \in [Addr -> Header] BY <1>4
  <2> DEFINE F1 == [F EXCEPT ![h].prev = z]
             F0 == [F1 EXCEPT ![h].next = NULL]
             F2 == [F0 EXCEPT ![h].status = "FREE"]
             F3 == [F2 EXCEPT ![h].size = s]
  <2>4. F1[h] = [F[h] EXCEPT !.prev = z] /\ DOMAIN F1 = Addr
        /\ \A x \in Addr : x # h => F1[x] = F[x]
    BY <2>2
  <2> HIDE DEF F1
  <2>11. F0[h] = [F1[h] EXCEPT !.next = NULL] /\ DOMAIN F0 = Addr
         /\ \A x \in Addr : x # h => F0[x] = F1[x]
    BY <2>2, <2>4
  <2> HIDE DEF F0
  <2>5. F2[h] = [F0[h] EXCEPT !.status = "FREE"] /\ DOMAIN F2 = Addr
        /\ \A x \in Addr : x # h => F2[x] = F0[x]
    BY <2>2, <2>11
  <2> HIDE DEF F2
  <2>6. F3[h] = [F2[h] EXCEPT !.size = s] /\ DOMAIN F3 = Addr
        /\ \A x \in Addr : x # h => F3[x] = F2[x]
    BY <2>2, <2>5
  <2>7. F3 = [x \in Addr |-> F3[x]] BY <2>2 DEF F1, F0, F2
  <2> HIDE DEF F3
  <2>8. G = F3 BY <1>6 DEF F3, F2, F0, F1
  <2>9. F3[h] = f /\ \A x \in Addr : x # h => F3[x] = F[x]
    BY <2>1, <2>4, <2>11, <2>5, <2>6
  <2> HIDE DEF f
  <2>10. F3 = [F EXCEPT ![h] = f] BY <2>2, <2>7, <2>9
  <2> QED BY <2>8, <2>10
<1> HIDE DEF e, f, F, s
<1>8. G \in [Addr -> Header] /\ G[h] = f /\ \A x \in Addr : x # h => G[x] = F[x]
  BY <1>3, <1>4, <1>7
<1>9. G[z] = e /\ \A x \in Addr : x # z /\ x # h => G[x] = H[x] BY <1>4, <1>8
<1> QED BY <1>2, <1>3, <1>8, <1>9 DEF s

\* The n pages from p are one more free block.
Extended(l, H, P, G, h, p, n) ==
  /\ Listed(Append(l, h), G, P \cup (p .. (p + n - 1)))
  /\ h \in Addr /\ G[h].status = "FREE" /\ G[h].size = n * PageUnits - HEADER
  /\ Kept(l, H, G)

\* The list is one block longer, and the blocks tile the pages.
LEMMA GrownListed ==
  ASSUME NEW l, NEW H, NEW P, Listed(l, H, P), NEW n \in Nat, n > 0,
         NEW p \in Space, p .. (p + n - 1) \subseteq Space \ P
  PROVE  Extended(l, H, P, Grown(H, l[Len(l)], p * PageUnits, n), p * PageUnits, p, n)
<1> DEFINE N == Len(l)
           h == p * PageUnits
           w == n * PageUnits
           z == l[N]
           G == Grown(H, z, h, n)
           Q == p .. (p + n - 1)
           L == Append(l, h)
<1>0. /\ l \in Seq(Addr) /\ H \in [Addr -> Header] /\ P \subseteq Space /\ N \in Nat /\ N >= 1
      /\ Linked(l, H) /\ Apart(l, H) /\ Within(l, H, P) /\ Covers(l, H, P) /\ Clean(l, H)
  BY DEF Listed
<1>1. PageUnits \in Nat /\ PageUnits > 2 /\ HEADER = 2 BY Addresses
<1>2. Units(Q) = h .. (h + w - 1) /\ h \in Nat /\ w \in Nat /\ w >= PageUnits BY Region
<1>3. h \in Units(Q)
  <2> HIDE DEF h, w, Q
  <2> QED BY <1>1, <1>2
<1>4. Units(Q) \subseteq Addr BY DEF Units, Addr
<1>5. \A x \in Units(Q) : x \notin Units(P)
  <2> SUFFICES ASSUME NEW x \in Units(Q), x \in Units(P) PROVE FALSE OBVIOUS
  <2>1. PICK q \in Q : x \in UnitsOf(q) BY DEF Units
  <2>2. PICK r \in P : x \in UnitsOf(r) BY DEF Units
  <2>3. q \in Space /\ r \in Space /\ q \notin P BY <1>0
  <2> QED BY <2>1, <2>2, <2>3, OnePage
<1>6. h \in Addr /\ h \notin Units(P) BY <1>3, <1>4, <1>5
<1>7. ASSUME NEW k \in 1..N
      PROVE  /\ l[k] \in Addr /\ l[k] \in Nat /\ End(H, l[k]) \in Nat
             /\ l[k] < End(H, l[k]) /\ l[k] # h
             /\ \A x \in l[k] .. (End(H, l[k]) - 1) : x \notin h .. (h + w - 1)
  <2>1. /\ l[k] \in Addr /\ l[k] \in Nat /\ H[l[k]].size \in Nat
        /\ End(H, l[k]) = l[k] + 2 + H[l[k]].size /\ End(H, l[k]) \in Nat
        /\ \A a \in l[k] .. (End(H, l[k]) - 1) : a \in Units(P)
    BY Block
  <2> HIDE DEF h, w
  <2>2. l[k] < End(H, l[k]) BY <2>1
  <2>3. l[k] \in l[k] .. (End(H, l[k]) - 1) BY <2>1, <2>2
  <2>4. l[k] # h BY <1>6, <2>1, <2>3
  <2>5. \A x \in l[k] .. (End(H, l[k]) - 1) : x \notin h .. (h + w - 1)
    BY <1>2, <1>5, <2>1
  <2> QED BY <2>1, <2>2, <2>4, <2>5
<1>8. z \in Addr /\ z # h BY <1>0, <1>7
<1>9. n * PageUnits - HEADER \in Nat
  <2> HIDE DEF h
  <2>1. w - 2 \in Nat
    <3> HIDE DEF w
    <3> QED BY <1>1, <1>2
  <2> QED BY <1>1, <2>1
<1>10. /\ G \in [Addr -> Header]
       /\ G[z].next = h /\ G[z].prev = H[z].prev /\ G[z].size = H[z].size
       /\ G[z].status = H[z].status
       /\ G[h].prev = z /\ G[h].next = NULL /\ G[h].status = "FREE"
       /\ G[h].size = n * PageUnits - HEADER
       /\ \A x \in Addr : x # z /\ x # h => G[x] = H[x]
  <2>1. G = Grown(H, z, h, n) OBVIOUS
  <2> HIDE DEF h, z, G, N, w, L
  <2> QED BY <1>0, <1>6, <1>8, <1>9, <2>1, GrownFields
<1> HIDE DEF G
<1>12. G[h].next = NULL BY <1>10
<1>13. End(G, h) = h + w
  <2> HIDE DEF h
  <2>1. G[h].size = w - 2 BY <1>1, <1>10
  <2> HIDE DEF w
  <2> QED BY <1>1, <1>2, <2>1 DEF End
<1> HIDE DEF h, w, z, L
<1>14. ASSUME NEW k \in 1..N
       PROVE  /\ G[l[k]].size = H[l[k]].size /\ G[l[k]].status = H[l[k]].status
              /\ G[l[k]].prev = H[l[k]].prev /\ End(G, l[k]) = End(H, l[k])
              /\ G[l[k]].next = IF k = N THEN h ELSE H[l[k]].next
  <2>1. k # N => l[k] # z BY <1>0, Once DEF z
  <2>2. /\ G[l[k]].size = H[l[k]].size /\ G[l[k]].status = H[l[k]].status
        /\ G[l[k]].prev = H[l[k]].prev
        /\ G[l[k]].next = IF k = N THEN h ELSE H[l[k]].next
    <3>1. CASE k = N BY <1>10, <3>1 DEF z
    <3>2. CASE k # N BY <1>7, <1>10, <2>1, <3>2
    <3> QED BY <3>1, <3>2
  <2>3. End(G, l[k]) = End(H, l[k]) BY <2>2 DEF End
  <2> QED BY <2>2, <2>3
<1>15. /\ L \in Seq(Addr) /\ Len(L) = N + 1 /\ L[N + 1] = h
       /\ \A k \in 1..N : L[k] = l[k]
  BY <1>0, <1>6 DEF L
<1>16. Linked(L, G)
  <2> SUFFICES ASSUME NEW k \in 1..(N + 1)
               PROVE  /\ G[L[k]].next = IF k = N + 1 THEN NULL ELSE L[k + 1]
                      /\ G[L[k]].prev = IF k = 1 THEN NULL ELSE L[k - 1]
                      /\ G[L[k]].status \in {"FREE", "USED"}
    BY <1>15 DEF Linked
  <2>1. CASE k = N + 1
    <3>1. N \in 1..N /\ k # 1 /\ k - 1 = N BY <1>0, <2>1
    <3>2. L[k - 1] = z BY <1>15, <3>1 DEF z
    <3> QED BY <1>10, <1>12, <1>15, <2>1, <3>1, <3>2
  <2>2. CASE k # N + 1
    <3>1. k \in 1..N BY <1>0, <2>2
    <3>2. k # N => k + 1 \in 1..N BY <1>0, <3>1
    <3>3. k # 1 => k - 1 \in 1..N BY <1>0, <3>1
    <3>4. /\ H[l[k]].next = IF k = N THEN NULL ELSE l[k + 1]
          /\ H[l[k]].prev = IF k = 1 THEN NULL ELSE l[k - 1]
          /\ H[l[k]].status \in {"FREE", "USED"}
      BY <1>0, <3>1 DEF Linked
    <3>5. G[l[k]].next = L[k + 1]
      <4>1. CASE k = N BY <1>14, <1>15, <3>1, <4>1
      <4>2. CASE k # N BY <1>14, <1>15, <3>1, <3>2, <3>4, <4>2
      <4> QED BY <4>1, <4>2
    <3> QED BY <1>14, <1>15, <2>2, <3>1, <3>3, <3>4, <3>5
  <2> QED BY <2>1, <2>2
<1>17. ASSUME NEW k \in 1..N PROVE End(H, l[k]) <= h \/ h + w <= l[k]
  <2> DEFINE x == l[k]
             xe == End(H, l[k])
  <2>1. /\ x \in Nat /\ xe \in Nat /\ x < xe /\ h \in Nat /\ w \in Nat /\ w > 0
        /\ \A y \in x .. (xe - 1) : y \notin h .. (h + w - 1)
    BY <1>1, <1>2, <1>7
  <2> HIDE DEF x, xe
  <2>2. CASE x < h
    <3>1. h \in h .. (h + w - 1) BY <2>1
    <3>2. h \notin x .. (xe - 1) BY <2>1, <3>1
    <3>3. xe <= h BY <2>1, <2>2, <3>2
    <3> QED BY <3>3 DEF xe
  <2>3. CASE x >= h
    <3>1. x \in x .. (xe - 1) BY <2>1
    <3>2. x \notin h .. (h + w - 1) BY <2>1, <3>1
    <3>3. h + w <= x BY <2>1, <2>3, <3>2
    <3> QED BY <3>3 DEF x
  <2> QED BY <2>1, <2>2, <2>3
<1>18. Apart(L, G)
  <2> SUFFICES ASSUME NEW j \in 1..(N + 1), NEW k \in 1..(N + 1), j # k
               PROVE  End(G, L[j]) <= L[k] \/ End(G, L[k]) <= L[j]
    BY <1>15 DEF Apart
  <2>1. /\ j = N + 1 \/ j \in 1..N
        /\ k = N + 1 \/ k \in 1..N
    BY <1>0
  <2>2. CASE j \in 1..N /\ k \in 1..N
    <3>1. End(H, l[j]) <= l[k] \/ End(H, l[k]) <= l[j] BY <1>0, <2>2 DEF Apart
    <3> QED BY <1>14, <1>15, <2>2, <3>1
  <2>3. CASE j = N + 1 /\ k \in 1..N BY <1>13, <1>14, <1>15, <1>17, <2>3
  <2>4. CASE j \in 1..N /\ k = N + 1 BY <1>13, <1>14, <1>15, <1>17, <2>4
  <2> QED BY <2>1, <2>2, <2>3, <2>4
<1>19. Units(P) \subseteq Units(P \cup Q) /\ Units(Q) \subseteq Units(P \cup Q)
       /\ \A x \in Units(P \cup Q) : x \in Units(P) \/ x \in Units(Q)
  BY DEF Units
<1>20. Within(L, G, P \cup Q)
  <2> SUFFICES ASSUME NEW k \in 1..(N + 1)
               PROVE  L[k] .. (End(G, L[k]) - 1) \subseteq Units(P \cup Q)
    BY <1>15 DEF Within
  <2>1. CASE k = N + 1
    <3>1. L[k] = h /\ End(G, L[k]) = h + w BY <1>13, <1>15, <2>1
    <3>2. L[k] .. (End(G, L[k]) - 1) = Units(Q) BY <1>2, <3>1
    <3> HIDE DEF Q
    <3> QED BY <1>19, <3>2
  <2>2. CASE k # N + 1
    <3>1. k \in 1..N BY <1>0, <2>2
    <3> QED BY <1>0, <1>14, <1>15, <1>19, <3>1 DEF Within
  <2> QED BY <2>1, <2>2
<1>21. Covers(L, G, P \cup Q)
  <2> SUFFICES ASSUME NEW x \in Units(P \cup Q)
               PROVE  \E k \in 1..(N + 1) : x \in L[k] .. (End(G, L[k]) - 1)
    BY <1>15 DEF Covers
  <2>1. CASE x \in Units(P)
    <3>1. PICK k \in 1..N : x \in l[k] .. (End(H, l[k]) - 1) BY <1>0, <2>1 DEF Covers
    <3>2. k \in 1..(N + 1) BY <1>0
    <3> QED BY <1>14, <1>15, <3>1, <3>2
  <2>2. CASE x \in Units(Q)
    <3>1. N + 1 \in 1..(N + 1) BY <1>0
    <3> QED BY <1>2, <1>13, <1>15, <2>2, <3>1
  <2> QED BY <1>19, <2>1, <2>2
<1>22. Clean(L, G)
  <2> SUFFICES ASSUME NEW x \in Addr, \A k \in 1..(N + 1) : L[k] # x
               PROVE  G[x] = NoHeader
    BY <1>15 DEF Clean
  <2>1. N + 1 \in 1..(N + 1) /\ \A k \in 1..N : k \in 1..(N + 1) BY <1>0
  <2>2. x # h /\ \A k \in 1..N : l[k] # x BY <1>15, <2>1
  <2>3. N \in 1..N BY <1>0
  <2>4. x # z BY <2>2, <2>3 DEF z
  <2>5. H[x] = NoHeader BY <1>0, <2>2 DEF Clean
  <2> QED BY <1>10, <2>2, <2>4, <2>5
<1>23. P \cup Q \subseteq Space BY <1>0
<1>24. Listed(L, G, P \cup Q)
  <2> HIDE DEF Q
  <2> QED BY <1>0, <1>10, <1>15, <1>16, <1>18, <1>20, <1>21, <1>22, <1>23 DEF Listed
<1>25. Kept(l, H, G) BY <1>14 DEF Kept
<1> QED BY <1>6, <1>10, <1>24, <1>25 DEF Extended, G, L, h, z

\* What the free blocks that touch reach, they still reach; the new block may
\* touch the last one.
LEMMA GrownSettled ==
  ASSUME NEW l \in Seq(Addr), NEW H, NEW G, NEW h \in Addr, Kept(l, H, G), Settled(l, H)
  PROVE  LET L == Append(l, h) IN
         \A k \in 1..Len(L) : Unmerged(L, G, k) => k + 1 = Len(L) \/ Reaches(L, G, k, {})
<1> DEFINE L == Append(l, h)
           n == Len(l)
<1>1. /\ L \in Seq(Addr) /\ Len(L) = n + 1 /\ \A k \in 1..n : L[k] = l[k] /\ n \in Nat
  OBVIOUS
<1>2. /\ \A k \in 1..n : /\ G[l[k]].status = H[l[k]].status
                         /\ End(G, l[k]) = End(H, l[k])
  BY DEF Kept
<1> HIDE DEF L, n
<1> SUFFICES ASSUME NEW k \in 1..(n + 1), Unmerged(L, G, k), k + 1 # n + 1
             PROVE  Reaches(L, G, k, {})
  BY <1>1 DEF L
<1>0. n \in Nat
  <2>1. Len(l) \in Nat OBVIOUS
  <2> QED BY <2>1 DEF n
<1>3. /\ k \in 1..n /\ G[L[k]].status = "FREE" /\ G[L[k + 1]].status = "FREE"
      /\ End(G, L[k]) = L[k + 1]
  BY <1>0, <1>1 DEF Unmerged
<1>4. k + 1 \in 1..n /\ k \in 1..(n - 1) BY <1>0, <1>3
<1>5. Unmerged(l, H, k) BY <1>1, <1>2, <1>3, <1>4 DEF Unmerged, n
<1>6. Reaches(l, H, k, {}) BY <1>3, <1>5 DEF Settled, n
<1>7. PICK j \in (k + 1)..n :
        /\ H[l[j]].status = "USED"
        /\ \A i \in k..(j - 1) : End(H, l[i]) = l[i + 1]
        /\ \A i \in (k + 1)..(j - 1) : H[l[i]].status = "FREE"
  BY <1>6 DEF Reaches, n
<1>8. j \in (k + 1)..(n + 1) /\ j \in 1..n BY <1>0, <1>3
<1>9. ASSUME NEW i \in k..(j - 1) PROVE End(G, L[i]) = L[i + 1]
  <2>1. i \in 1..n /\ i + 1 \in 1..n BY <1>0, <1>3, <1>8
  <2> QED BY <1>1, <1>2, <1>7, <2>1
<1>10. ASSUME NEW i \in (k + 1)..(j - 1) PROVE G[L[i]].status = "FREE"
  <2>1. i \in 1..n BY <1>0, <1>3, <1>8
  <2> QED BY <1>1, <1>2, <1>7, <2>1
<1>11. G[L[j]].status = "USED" BY <1>1, <1>2, <1>7, <1>8
<1> QED BY <1>1, <1>8, <1>9, <1>10, <1>11 DEF Reaches

\* Callers hold what they held.
LEMMA GrownHeld ==
  ASSUME NEW l \in Seq(Addr), NEW H, NEW G, NEW h \in Addr, Kept(l, H, G), NEW V,
         Held(l, H, V), G[h].status = "FREE"
  PROVE  Held(Append(l, h), G, V)
<1> DEFINE L == Append(l, h)
           n == Len(l)
<1>0. n \in Nat OBVIOUS
<1>1. /\ Len(L) = n + 1 /\ L[n + 1] = h /\ \A k \in 1..n : L[k] = l[k] OBVIOUS
<1>2. /\ \A k \in 1..n : /\ G[l[k]].status = H[l[k]].status
                         /\ G[l[k]].size = H[l[k]].size
  BY DEF Kept
<1>3. /\ V \subseteq [addr : Nat, bytes : Nat] /\ IsFiniteSet(V)
      /\ \A x, y \in V : x # y => x.addr # y.addr
      /\ \A x \in V : \E k \in 1..n :
           /\ l[k] = x.addr - HEADER /\ H[l[k]].status = "USED"
           /\ x.bytes <= 8 * H[l[k]].size
      /\ \A k \in 1..n : H[l[k]].status = "USED" => \E x \in V : x.addr = l[k] + HEADER
  BY DEF Held
<1> HIDE DEF L, n
<1>4. \A x \in V : \E k \in 1..(n + 1) :
        /\ L[k] = x.addr - HEADER /\ G[L[k]].status = "USED" /\ x.bytes <= 8 * G[L[k]].size
  <2> TAKE x \in V
  <2>1. PICK k \in 1..n : /\ l[k] = x.addr - HEADER /\ H[l[k]].status = "USED"
                          /\ x.bytes <= 8 * H[l[k]].size
    BY <1>3
  <2>2. k \in 1..(n + 1) BY <1>0
  <2> QED BY <1>1, <1>2, <2>1, <2>2
<1>5. \A k \in 1..(n + 1) : G[L[k]].status = "USED" => \E x \in V : x.addr = L[k] + HEADER
  <2> SUFFICES ASSUME NEW k \in 1..(n + 1), G[L[k]].status = "USED"
               PROVE  \E x \in V : x.addr = L[k] + HEADER
    OBVIOUS
  <2>1. k # n + 1 BY <1>1
  <2>2. k \in 1..n BY <1>0, <2>1
  <2>3. L[k] = l[k] /\ H[l[k]].status = "USED" BY <1>1, <1>2, <2>2
  <2> QED BY <1>3, <2>2, <2>3
<1>6. Held(L, G, V) BY <1>1, <1>3, <1>4, <1>5 DEF Held
<1> QED BY <1>6 DEF L

------------------------------------------------------------------------------
(***************************************************************************)
(* A block that takes over the one behind it.                              *)

Joined(H, h, b) ==
  BackLink([H EXCEPT ![h].size = @ + (HEADER + H[b].size), ![h].next = H[b].next,
                     ![b] = NoHeader], H[b].next, h)

\* The fields that are written.
LEMMA JoinedFields ==
  ASSUME NEW H \in [Addr -> Header], NEW h \in Addr, NEW b \in Addr, h # b,
         NEW c, c = H[b].next, c # h, c # b, NEW G, G = Joined(H, h, b)
  PROVE  /\ G \in [Addr -> Header]
         /\ G[h].size = H[h].size + (HEADER + H[b].size) /\ G[h].next = c
         /\ G[h].status = H[h].status /\ G[h].prev = H[h].prev
         /\ G[b] = NoHeader
         /\ c # NULL => /\ G[c].prev = h /\ G[c].size = H[c].size
                        /\ G[c].next = H[c].next /\ G[c].status = H[c].status
         /\ \A x \in Addr : x # h /\ x # b /\ x # c => G[x] = H[x]
<1> DEFINE s == H[h].size + (HEADER + H[b].size)
           e == [[H[h] EXCEPT !.size = s] EXCEPT !.next = c]
           F == [H EXCEPT ![h] = e]
           E == [F EXCEPT ![b] = NoHeader]
<1>1. H[h] \in Header /\ H[b] \in Header /\ s \in Nat /\ c \in Addr \cup {NULL}
  <2>1. H[h] \in Header /\ H[b] \in Header OBVIOUS
  <2>2. H[h].size \in Nat /\ H[b].size \in Nat /\ H[b].next \in Addr \cup {NULL}
    BY <2>1 DEF Header
  <2> QED BY <2>1, <2>2, Addresses
<1>2. /\ e \in Header /\ e.next = c /\ e.prev = H[h].prev /\ e.size = s
      /\ e.status = H[h].status
  <2> HIDE DEF s
  <2> QED BY <1>1 DEF Header
<1>3. F \in [Addr -> Header] /\ F[h] = e /\ \A x \in Addr : x # h => F[x] = H[x]
  <2> HIDE DEF e
  <2> QED BY <1>2
<1>4. NoHeader \in Header BY DEF NoHeader, Header
<1>5. /\ E \in [Addr -> Header] /\ E[b] = NoHeader /\ E[h] = e
      /\ \A x \in Addr : x # h /\ x # b => E[x] = H[x]
  <2> HIDE DEF e, F
  <2> QED BY <1>3, <1>4
<1>6. [H EXCEPT ![h].size = @ + (HEADER + H[b].size), ![h].next = c, ![b] = NoHeader] = E
  <2> DEFINE F1 == [H EXCEPT ![h].size = s]
             F2 == [F1 EXCEPT ![h].next = c]
  <2>1. [H EXCEPT ![h].size = @ + (HEADER + H[b].size), ![h].next = c, ![b] = NoHeader]
        = [F2 EXCEPT ![b] = NoHeader]
    OBVIOUS
  <2>2. F1[h] = [H[h] EXCEPT !.size = s] /\ DOMAIN F1 = Addr
        /\ \A x \in Addr : x # h => F1[x] = H[x]
    <3> HIDE DEF s
    <3> QED OBVIOUS
  <2> HIDE DEF F1
  <2>3. F2[h] = [F1[h] EXCEPT !.next = c] /\ DOMAIN F2 = Addr
        /\ \A x \in Addr : x # h => F2[x] = F1[x]
    BY <2>2
  <2>4. F2 = [x \in Addr |-> F2[x]]
    <3>1. F2 = [x \in DOMAIN F1 |-> F2[x]] OBVIOUS
    <3> QED BY <2>2, <3>1
  <2> HIDE DEF F2
  <2>5. F2[h] = e /\ \A x \in Addr : x # h => F2[x] = H[x] BY <2>2, <2>3
  <2> HIDE DEF e
  <2>6. F2 = F BY <1>3, <2>4, <2>5
  <2> QED BY <2>1, <2>6
<1>7. G = BackLink(E, c, h)
  <2> HIDE DEF E
  <2> QED BY <1>6 DEF Joined
<1> HIDE DEF E, F, e, s
<1>8. CASE c = NULL
  <2>1. G = E BY <1>7, <1>8 DEF BackLink
  <2> QED BY <1>2, <1>5, <1>8, <2>1 DEF s
<1>9. CASE c # NULL
  <2> DEFINE f == [E[c] EXCEPT !.prev = h]
  <2>1. c \in Addr /\ E[c] = H[c] /\ E[c] \in Header BY <1>1, <1>5, <1>9
  <2>2. G = [E EXCEPT ![c] = f] BY <1>7, <1>9 DEF BackLink
  <2>3. /\ f \in Header /\ f.prev = h /\ f.size = H[c].size /\ f.next = H[c].next
        /\ f.status = H[c].status
    BY <2>1 DEF Header
  <2> HIDE DEF f
  <2>4. G \in [Addr -> Header] /\ G[c] = f /\ \A x \in Addr : x # c => G[x] = E[x]
    BY <1>5, <2>1, <2>2, <2>3
  <2>5. G[h] = E[h] /\ G[b] = E[b] BY <2>4
  <2>6. \A x \in Addr : x # h /\ x # b /\ x # c => G[x] = H[x] BY <1>5, <2>4
  <2> QED BY <1>2, <1>5, <2>3, <2>4, <2>5, <2>6 DEF s
<1> QED BY <1>8, <1>9

\* The list without block m + 1.
Removed(l, m) == [i \in 1..(Len(l) - 1) |-> IF i <= m THEN l[i] ELSE l[i + 1]]

\* It is a list, one block shorter.
LEMMA RemovedIs ==
  ASSUME NEW l \in Seq(Addr), NEW m \in 1..(Len(l) - 1), NEW L, L = Removed(l, m)
  PROVE  /\ L \in Seq(Addr) /\ Len(L) = Len(l) - 1
         /\ \A i \in 1..m : L[i] = l[i]
         /\ \A i \in (m + 1)..(Len(l) - 1) : L[i] = l[i + 1]
<1> DEFINE n == Len(l)
<1>0. n \in Nat /\ m \in 1..(n - 1) /\ \A i \in 1..n : l[i] \in Addr OBVIOUS
<1>1. L = [i \in 1..(n - 1) |-> IF i <= m THEN l[i] ELSE l[i + 1]] BY DEF Removed
<1> HIDE DEF n
<1>2. ASSUME NEW i \in 1..(n - 1)
      PROVE  (IF i <= m THEN l[i] ELSE l[i + 1]) \in Addr
  <2>1. i \in 1..n /\ i + 1 \in 1..n BY <1>0
  <2> QED BY <1>0, <2>1
<1>3. L \in [1..(n - 1) -> Addr] /\ n - 1 \in Nat BY <1>0, <1>1, <1>2
<1>4. L \in Seq(Addr) /\ Len(L) = n - 1 BY <1>3
<1>5. \A i \in 1..m : L[i] = l[i] BY <1>0, <1>1
<1>6. \A i \in (m + 1)..(n - 1) : L[i] = l[i + 1] BY <1>0, <1>1
<1> QED BY <1>4, <1>5, <1>6 DEF n

\* Block m has grown to where the one behind it ended, the others are as they
\* were.
JoinShape(l, H, G, m) ==
  /\ \A k \in 1..Len(l) : k # m /\ k # m + 1 =>
       /\ G[l[k]].size = H[l[k]].size /\ G[l[k]].status = H[l[k]].status
       /\ End(G, l[k]) = End(H, l[k])
  /\ G[l[m]].status = "FREE" /\ End(G, l[m]) = End(H, l[m + 1])

\* The blocks still link up and tile the pages.
LEMMA JoinListed ==
  ASSUME NEW l, NEW H, NEW P, Listed(l, H, P), NEW m, Unmerged(l, H, m),
         NEW G, G = Joined(H, l[m], l[m + 1])
  PROVE  Listed(Removed(l, m), G, P) /\ JoinShape(l, H, G, m)
<1> DEFINE L == Removed(l, m)
           n == Len(l)
           h == l[m]
           b == l[m + 1]
           c == H[b].next
<1>0. /\ l \in Seq(Addr) /\ H \in [Addr -> Header] /\ P \subseteq Space /\ n \in Nat
      /\ Linked(l, H) /\ Apart(l, H)
      /\ m \in 1..(n - 1) /\ m \in 1..n /\ m + 1 \in 1..n
      /\ H[h].status = "FREE" /\ H[b].status = "FREE" /\ End(H, h) = b
  <2>1. n \in Nat /\ m \in 1..(n - 1) BY DEF Listed, Unmerged
  <2>2. m \in 1..n /\ m + 1 \in 1..n
    <3> HIDE DEF n
    <3> QED BY <2>1
  <2> QED BY <2>1, <2>2 DEF Listed, Unmerged
<1>1. ASSUME NEW k \in 1..n
      PROVE  /\ l[k] \in Addr /\ l[k] \in Nat /\ H[l[k]].size \in Nat
             /\ End(H, l[k]) = l[k] + 2 + H[l[k]].size /\ End(H, l[k]) \in Nat
             /\ End(H, l[k]) >= l[k] + 2 /\ l[k] # NULL
  <2>1. /\ l[k] \in Addr /\ l[k] \in Nat /\ l[k] > 0 /\ H[l[k]].size \in Nat
        /\ End(H, l[k]) = l[k] + 2 + H[l[k]].size /\ End(H, l[k]) \in Nat
    BY Block
  <2>2. l[k] # NULL BY <2>1, Addresses
  <2> QED BY <2>1, <2>2
<1>2. h \in Addr /\ b \in Addr /\ h # b
  <2>1. m # m + 1 BY <1>0
  <2>2. h # b BY <1>0, <2>1, Once
  <2> QED BY <1>0, <1>1, <2>2
<1>3. c = IF m + 1 = n THEN NULL ELSE l[m + 2]
  <2>1. (m + 1) + 1 = m + 2 BY <1>0
  <2> QED BY <1>0, <2>1 DEF Linked
<1>4. c # h /\ c # b
  <2>1. CASE m + 1 = n BY <1>0, <1>1, <1>3, <2>1
  <2>2. CASE m + 1 # n
    <3>1. m + 2 \in 1..n /\ m + 2 # m /\ m + 2 # m + 1 BY <1>0, <2>2
    <3> QED BY <1>0, <1>3, <2>2, <3>1, Once
  <2> QED BY <2>1, <2>2
<1>5. /\ G \in [Addr -> Header]
      /\ G[h].size = H[h].size + (HEADER + H[b].size) /\ G[h].next = c
      /\ G[h].status = H[h].status /\ G[h].prev = H[h].prev
      /\ G[b] = NoHeader
      /\ c # NULL => /\ G[c].prev = h /\ G[c].size = H[c].size
                     /\ G[c].next = H[c].next /\ G[c].status = H[c].status
      /\ \A x \in Addr : x # h /\ x # b /\ x # c => G[x] = H[x]
  <2>1. G = Joined(H, h, b) /\ c = H[b].next OBVIOUS
  <2> HIDE DEF h, b, c, L, n
  <2> QED BY <1>0, <1>2, <1>4, <2>1, JoinedFields
<1>6. /\ L \in Seq(Addr) /\ Len(L) = n - 1
      /\ \A i \in 1..m : L[i] = l[i]
      /\ \A i \in (m + 1)..(n - 1) : L[i] = l[i + 1]
  BY <1>0, RemovedIs
<1> HIDE DEF L
<1>7. End(G, h) = End(H, b)
  <2>1. h \in Nat /\ H[h].size \in Nat /\ H[b].size \in Nat /\ b \in Nat
        /\ b = h + 2 + H[h].size /\ End(H, b) = b + 2 + H[b].size /\ HEADER = 2
    <3>1. End(H, h) = h + 2 + H[h].size BY <1>0, <1>1
    <3> QED BY <1>0, <1>1, <3>1, Addresses
  <2>2. End(G, h) = h + 2 + (H[h].size + (2 + H[b].size)) BY <1>5, <2>1 DEF End
  <2> HIDE DEF h, b
  <2>3. h + 2 + (H[h].size + (2 + H[b].size)) = (h + 2 + H[h].size) + 2 + H[b].size
    BY <2>1
  <2> QED BY <2>1, <2>2, <2>3
<1>8. ASSUME NEW k \in 1..n, k # m, k # m + 1
      PROVE  /\ G[l[k]].size = H[l[k]].size /\ G[l[k]].next = H[l[k]].next
             /\ G[l[k]].status = H[l[k]].status /\ End(G, l[k]) = End(H, l[k])
             /\ G[l[k]].prev = IF k = m + 2 THEN h ELSE H[l[k]].prev
  <2>1. l[k] # h /\ l[k] # b BY <1>0, <1>8, Once
  <2>2. /\ G[l[k]].size = H[l[k]].size /\ G[l[k]].next = H[l[k]].next
        /\ G[l[k]].status = H[l[k]].status
        /\ G[l[k]].prev = IF k = m + 2 THEN h ELSE H[l[k]].prev
    <3>1. CASE l[k] = c
      <4>1. c # NULL BY <1>1, <3>1
      <4>2. m + 2 \in 1..n /\ c = l[m + 2] BY <1>0, <1>3, <4>1
      <4>3. k = m + 2 BY <3>1, <4>2, Once
      <4> QED BY <1>5, <3>1, <4>1, <4>3
    <3>2. CASE l[k] # c
      <4>1. G[l[k]] = H[l[k]] BY <1>1, <1>5, <2>1, <3>2
      <4>2. k = m + 2 => m + 1 # n BY <1>0
      <4>3. k # m + 2 BY <1>3, <3>2, <4>2
      <4> QED BY <4>1, <4>3
    <3> QED BY <3>1, <3>2
  <2>3. End(G, l[k]) = End(H, l[k]) BY <2>2 DEF End
  <2> QED BY <2>2, <2>3
<1>9. ASSUME NEW k \in 1..(n - 1)
      PROVE  \/ k \in 1..m /\ k # m /\ k + 1 \in 1..m /\ k \in 1..n /\ k # m + 1
             \/ k = m
             \/ k \in (m + 1)..(n - 1) /\ k + 1 \in 1..n /\ k + 1 # m /\ k + 1 # m + 1
  BY <1>0
<1>10. Linked(L, G)
  <2> SUFFICES ASSUME NEW k \in 1..(n - 1)
               PROVE  /\ G[L[k]].next = IF k = n - 1 THEN NULL ELSE L[k + 1]
                      /\ G[L[k]].prev = IF k = 1 THEN NULL ELSE L[k - 1]
                      /\ G[L[k]].status \in {"FREE", "USED"}
    BY <1>6 DEF Linked
  <2>1. CASE k \in 1..m /\ k # m
    <3>1. k \in 1..n /\ k # m + 1 /\ k # m + 2 /\ k # n /\ k # n - 1 /\ k + 1 \in 1..m
      BY <1>0, <2>1
    <3>2. k # 1 => k - 1 \in 1..m BY <1>0, <2>1
    <3>3. /\ H[l[k]].next = l[k + 1] /\ H[l[k]].status \in {"FREE", "USED"}
          /\ H[l[k]].prev = IF k = 1 THEN NULL ELSE l[k - 1]
      BY <1>0, <3>1 DEF Linked
    <3> QED BY <1>6, <1>8, <2>1, <3>1, <3>2, <3>3
  <2>2. CASE k = m
    <3>1. L[k] = h BY <1>0, <1>6, <2>2
    <3>2. k # 1 => k - 1 \in 1..m BY <1>0, <2>2
    <3>3. H[h].prev = IF k = 1 THEN NULL ELSE l[k - 1] BY <1>0, <2>2 DEF Linked
    <3>4. k = n - 1 <=> m + 1 = n BY <1>0, <2>2
    <3>5. k # n - 1 => k + 1 \in (m + 1)..(n - 1) /\ (k + 1) + 1 = m + 2 BY <1>0, <2>2
    <3>6. k # n - 1 => L[k + 1] = l[m + 2] BY <1>6, <3>5
    <3> QED BY <1>0, <1>3, <1>5, <1>6, <3>1, <3>2, <3>3, <3>4, <3>6
  <2>3. CASE k \in (m + 1)..(n - 1)
    <3> DEFINE i == k + 1
    <3>1. /\ i \in 1..n /\ i # m /\ i # m + 1 /\ i # 1 /\ k # 1 /\ i - 1 = k
          /\ (i = n <=> k = n - 1)
      BY <1>0, <2>3
    <3>2. /\ H[l[i]].next = IF i = n THEN NULL ELSE l[i + 1]
          /\ H[l[i]].prev = l[k] /\ H[l[i]].status \in {"FREE", "USED"}
      BY <1>0, <3>1 DEF Linked
    <3>3. L[k] = l[i] BY <1>6, <2>3
    <3>4. k # n - 1 => k + 1 \in (m + 1)..(n - 1) BY <1>0, <2>3
    <3>5. k # n - 1 => L[k + 1] = l[i + 1] BY <1>6, <3>4
    <3>6. G[l[i]].prev = L[k - 1]
      <4>1. CASE k = m + 1
        <5>1. i = m + 2 /\ k - 1 = m /\ m \in 1..m BY <1>0, <4>1
        <5>2. L[k - 1] = h BY <1>6, <5>1
        <5> QED BY <1>8, <3>1, <5>1, <5>2
      <4>2. CASE k # m + 1
        <5>1. i # m + 2 /\ k - 1 \in (m + 1)..(n - 1) /\ (k - 1) + 1 = k BY <1>0, <2>3, <4>2
        <5>2. L[k - 1] = l[k] BY <1>6, <5>1
        <5> HIDE DEF i
        <5> QED BY <1>8, <3>1, <3>2, <5>1, <5>2
      <4> QED BY <4>1, <4>2
    <3> HIDE DEF i
    <3> QED BY <1>8, <3>1, <3>2, <3>3, <3>5, <3>6
  <2> QED BY <1>9, <2>1, <2>2, <2>3
<1> DEFINE At(i) == IF i <= m THEN i ELSE i + 1
<1>11. ASSUME NEW i \in 1..(n - 1)
       PROVE  /\ At(i) \in 1..n /\ At(i) # m + 1 /\ L[i] = l[At(i)]
              /\ End(G, L[i]) = IF i = m THEN End(H, b) ELSE End(H, l[At(i)])
  <2>1. CASE i \in 1..m /\ i # m
    <3>1. At(i) = i /\ i \in 1..n /\ i # m + 1 BY <1>0, <2>1
    <3> HIDE DEF At
    <3> QED BY <1>6, <1>8, <2>1, <3>1
  <2>2. CASE i = m
    <3>1. At(i) = m /\ m # m + 1 BY <1>0, <2>2
    <3> HIDE DEF At
    <3> QED BY <1>0, <1>6, <1>7, <2>2, <3>1
  <2>3. CASE i \in (m + 1)..(n - 1)
    <3>1. At(i) = i + 1 /\ i + 1 \in 1..n /\ i + 1 # m + 1 /\ i + 1 # m /\ i # m
      BY <1>0, <2>3
    <3> HIDE DEF At
    <3> QED BY <1>6, <1>8, <2>3, <3>1
  <2> QED BY <1>9, <2>1, <2>2, <2>3
<1>12. ASSUME NEW i \in 1..(n - 1), NEW j \in 1..(n - 1), i # j
       PROVE  At(i) # At(j) /\ (At(i) = m <=> i = m)
  BY <1>0, <1>12
<1>13. ASSUME NEW k \in 1..n, k # m, k # m + 1
       PROVE  End(H, b) <= l[k] \/ End(H, l[k]) <= h
  <2>1. /\ End(H, l[k]) <= h \/ End(H, h) <= l[k]
        /\ End(H, l[k]) <= b \/ End(H, b) <= l[k]
    BY <1>0, <1>13 DEF Apart
  <2>2. l[k] \in Nat /\ End(H, l[k]) \in Nat /\ End(H, l[k]) >= l[k] + 2
        /\ b \in Nat /\ h \in Nat /\ End(H, h) = b
    BY <1>0, <1>1
  <2> DEFINE x == l[k]
             xe == End(H, x)
             be == End(H, b)
  <2>3. /\ x \in Nat /\ xe \in Nat /\ xe >= x + 2 /\ b \in Nat /\ h \in Nat
        /\ (xe <= h \/ b <= x) /\ (xe <= b \/ be <= x)
    BY <2>1, <2>2
  <2> HIDE DEF x, xe, be, b, h
  <2>4. be <= x \/ xe <= h BY <2>3
  <2> QED BY <2>4 DEF be, x, xe
<1>14. Apart(L, G)
  <2> SUFFICES ASSUME NEW j \in 1..(n - 1), NEW k \in 1..(n - 1), j # k
               PROVE  End(G, L[j]) <= L[k] \/ End(G, L[k]) <= L[j]
    BY <1>6 DEF Apart
  <2>1. /\ At(j) \in 1..n /\ At(j) # m + 1 /\ L[j] = l[At(j)]
        /\ End(G, L[j]) = IF j = m THEN End(H, b) ELSE End(H, l[At(j)])
        /\ At(k) \in 1..n /\ At(k) # m + 1 /\ L[k] = l[At(k)]
        /\ End(G, L[k]) = IF k = m THEN End(H, b) ELSE End(H, l[At(k)])
        /\ At(j) # At(k) /\ (At(j) = m <=> j = m) /\ (At(k) = m <=> k = m)
    <3> HIDE DEF At
    <3> QED BY <1>11, <1>12
  <2> HIDE DEF At
  <2>2. CASE j = m
    <3>1. k # m /\ At(k) # m /\ L[j] = h BY <2>1, <2>2
    <3> QED BY <1>13, <2>1, <2>2, <3>1
  <2>3. CASE k = m
    <3>1. j # m /\ At(j) # m /\ L[k] = h BY <2>1, <2>3
    <3> QED BY <1>13, <2>1, <2>3, <3>1
  <2>4. CASE j # m /\ k # m BY <1>0, <2>1, <2>4 DEF Apart
  <2> QED BY <2>2, <2>3, <2>4
<1>15. \A x \in h .. (End(H, b) - 1) : x \in h .. (End(H, h) - 1) \/ x \in b .. (End(H, b) - 1)
  <2>1. h \in Nat /\ b \in Nat /\ End(H, b) \in Nat /\ End(H, h) = b BY <1>0, <1>1
  <2> HIDE DEF h, b
  <2> QED BY <2>1
<1>16. /\ h .. (End(H, h) - 1) \subseteq h .. (End(H, b) - 1)
       /\ b .. (End(H, b) - 1) \subseteq h .. (End(H, b) - 1)
  <2>1. h \in Nat /\ b \in Nat /\ End(H, b) \in Nat /\ End(H, h) = b /\ End(H, b) >= b + 2
        /\ End(H, h) >= h + 2
    BY <1>0, <1>1
  <2> HIDE DEF h, b
  <2> QED BY <2>1
<1>17. Within(L, G, P)
  <2> SUFFICES ASSUME NEW k \in 1..(n - 1), NEW x \in L[k] .. (End(G, L[k]) - 1)
               PROVE  x \in Units(P)
    BY <1>6 DEF Within
  <2>1. \A i \in 1..n : \A y \in l[i] .. (End(H, l[i]) - 1) : y \in Units(P)
    BY DEF Listed, Within
  <2>2. CASE k = m
    <3>1. L[k] = h /\ End(G, L[k]) = End(H, b) BY <1>0, <1>6, <1>11, <2>2
    <3>2. x \in h .. (End(H, h) - 1) \/ x \in b .. (End(H, b) - 1) BY <1>15, <3>1
    <3> QED BY <1>0, <2>1, <3>2
  <2>3. CASE k # m
    <3> HIDE DEF At
    <3> QED BY <1>11, <2>1, <2>3
  <2> QED BY <2>2, <2>3
<1>18. Covers(L, G, P)
  <2> SUFFICES ASSUME NEW x \in Units(P)
               PROVE  \E k \in 1..(n - 1) : x \in L[k] .. (End(G, L[k]) - 1)
    BY <1>6 DEF Covers
  <2>1. PICK k \in 1..n : x \in l[k] .. (End(H, l[k]) - 1) BY DEF Listed, Covers
  <2>2. CASE k = m \/ k = m + 1
    <3>1. x \in h .. (End(H, b) - 1) BY <1>16, <2>1, <2>2
    <3>2. m \in 1..(n - 1) /\ L[m] = h BY <1>0, <1>6
    <3> QED BY <1>7, <3>1, <3>2
  <2>3. CASE k < m
    <3>1. k \in 1..(n - 1) /\ k \in 1..m /\ k # m /\ k # m + 1 BY <1>0, <2>3
    <3> QED BY <1>6, <1>8, <2>1, <3>1
  <2>4. CASE k > m + 1
    <3>1. k - 1 \in 1..(n - 1) /\ k - 1 \in (m + 1)..(n - 1) /\ (k - 1) + 1 = k
          /\ k # m /\ k # m + 1
      BY <1>0, <2>4
    <3>2. L[k - 1] = l[k] BY <1>6, <3>1
    <3>3. End(G, L[k - 1]) = End(H, l[k]) BY <1>8, <3>1, <3>2
    <3> QED BY <2>1, <3>1, <3>2, <3>3
  <2> QED BY <1>0, <2>2, <2>3, <2>4
<1>19. Clean(L, G)
  <2> SUFFICES ASSUME NEW x \in Addr, \A k \in 1..(n - 1) : L[k] # x
               PROVE  G[x] = NoHeader
    BY <1>6 DEF Clean
  <2>1. CASE x = b BY <1>5, <2>1
  <2>2. CASE x # b
    <3>1. ASSUME NEW k \in 1..n PROVE l[k] # x
      <4>1. CASE k = m + 1 BY <2>2, <4>1
      <4>2. CASE k <= m
        <5>1. k \in 1..(n - 1) /\ k \in 1..m BY <1>0, <4>2
        <5> QED BY <1>6, <5>1
      <4>3. CASE k > m + 1
        <5>1. k - 1 \in 1..(n - 1) /\ k - 1 \in (m + 1)..(n - 1) /\ (k - 1) + 1 = k
          BY <1>0, <4>3
        <5>2. L[k - 1] = l[k] BY <1>6, <5>1
        <5> QED BY <5>1, <5>2
      <4> QED BY <1>0, <4>1, <4>2, <4>3
    <3>2. x # h BY <1>0, <3>1
    <3>3. x # c
      <4>1. CASE m + 1 = n BY <1>3, <4>1, Addresses
      <4>2. CASE m + 1 # n
        <5>1. m + 2 \in 1..n BY <1>0, <4>2
        <5> QED BY <1>3, <3>1, <4>2, <5>1
      <4> QED BY <4>1, <4>2
    <3>4. H[x] = NoHeader BY <3>1 DEF Listed, Clean
    <3> QED BY <1>5, <2>2, <3>2, <3>3, <3>4
  <2> QED BY <2>1, <2>2
<1>20. Len(L) >= 1 BY <1>0, <1>6
<1>21. Listed(L, G, P)
  BY <1>0, <1>5, <1>6, <1>10, <1>14, <1>17, <1>18, <1>19, <1>20 DEF Listed
<1>22. JoinShape(l, H, G, m) BY <1>0, <1>5, <1>7, <1>8 DEF JoinShape
<1> QED BY <1>21, <1>22 DEF L

\* Callers hold neither of the two.
LEMMA JoinHeld ==
  ASSUME NEW l \in Seq(Addr), NEW H, NEW G, NEW m, Unmerged(l, H, m),
         JoinShape(l, H, G, m), NEW V, Held(l, H, V)
  PROVE  Held(Removed(l, m), G, V)
<1> DEFINE L == Removed(l, m)
           n == Len(l)
<1>0. /\ n \in Nat /\ m \in 1..(n - 1) /\ H[l[m]].status = "FREE"
      /\ H[l[m + 1]].status = "FREE"
  BY DEF Unmerged
<1>1. /\ L \in Seq(Addr) /\ Len(L) = n - 1
      /\ \A i \in 1..m : L[i] = l[i]
      /\ \A i \in (m + 1)..(n - 1) : L[i] = l[i + 1]
  BY <1>0, RemovedIs
<1>2. /\ \A k \in 1..n : k # m /\ k # m + 1 =>
           G[l[k]].size = H[l[k]].size /\ G[l[k]].status = H[l[k]].status
      /\ G[l[m]].status = "FREE"
  BY DEF JoinShape
<1>3. /\ V \subseteq [addr : Nat, bytes : Nat] /\ IsFiniteSet(V)
      /\ \A x, y \in V : x # y => x.addr # y.addr
      /\ \A x \in V : \E k \in 1..n :
           /\ l[k] = x.addr - HEADER /\ H[l[k]].status = "USED"
           /\ x.bytes <= 8 * H[l[k]].size
      /\ \A k \in 1..n : H[l[k]].status = "USED" => \E x \in V : x.addr = l[k] + HEADER
  BY DEF Held
<1> HIDE DEF L, n
<1>4. ASSUME NEW k \in 1..n, k # m, k # m + 1
      PROVE  \E i \in 1..(n - 1) : L[i] = l[k]
  <2>1. CASE k < m
    <3>1. k \in 1..m /\ k \in 1..(n - 1) BY <1>0, <2>1
    <3> QED BY <1>1, <3>1
  <2>2. CASE k > m
    <3>1. k - 1 \in (m + 1)..(n - 1) /\ k - 1 \in 1..(n - 1) /\ (k - 1) + 1 = k
      BY <1>0, <1>4, <2>2
    <3>2. L[k - 1] = l[k] BY <1>1, <3>1
    <3> QED BY <3>1, <3>2
  <2> QED BY <1>0, <1>4, <2>1, <2>2
<1>5. \A x \in V : \E k \in 1..(n - 1) :
        /\ L[k] = x.addr - HEADER /\ G[L[k]].status = "USED" /\ x.bytes <= 8 * G[L[k]].size
  <2> TAKE x \in V
  <2>1. PICK k \in 1..n : /\ l[k] = x.addr - HEADER /\ H[l[k]].status = "USED"
                          /\ x.bytes <= 8 * H[l[k]].size
    BY <1>3
  <2>2. k # m /\ k # m + 1 BY <1>0, <2>1
  <2>3. PICK i \in 1..(n - 1) : L[i] = l[k] BY <1>4, <2>2
  <2> QED BY <1>2, <2>1, <2>2, <2>3
<1>6. \A k \in 1..(n - 1) : G[L[k]].status = "USED" => \E x \in V : x.addr = L[k] + HEADER
  <2> SUFFICES ASSUME NEW k \in 1..(n - 1), G[L[k]].status = "USED"
               PROVE  \E x \in V : x.addr = L[k] + HEADER
    OBVIOUS
  <2>1. CASE k \in 1..m
    <3>1. k # m BY <1>0, <1>1, <1>2, <2>1
    <3>2. k \in 1..n /\ k # m + 1 BY <1>0, <2>1
    <3>3. L[k] = l[k] /\ H[l[k]].status = "USED" BY <1>1, <1>2, <2>1, <3>1, <3>2
    <3> QED BY <1>3, <3>2, <3>3
  <2>2. CASE k \in (m + 1)..(n - 1)
    <3>1. k + 1 \in 1..n /\ k + 1 # m /\ k + 1 # m + 1 BY <1>0, <2>2
    <3>2. L[k] = l[k + 1] /\ H[l[k + 1]].status = "USED" BY <1>1, <1>2, <2>2, <3>1
    <3> QED BY <1>3, <3>1, <3>2
  <2> QED BY <1>0, <2>1, <2>2
<1>7. Held(L, G, V) BY <1>1, <1>3, <1>5, <1>6 DEF Held
<1> QED BY <1>7 DEF L

\* Which pairs touch behind and before the block that has grown.
LEMMA JoinUnmerged ==
  ASSUME NEW l \in Seq(Addr), NEW H, NEW G, NEW m, Unmerged(l, H, m),
         JoinShape(l, H, G, m), NEW k, Unmerged(Removed(l, m), G, k)
  PROVE  /\ k < m => Unmerged(l, H, k)
         /\ k > m => Unmerged(l, H, k + 1)
<1> DEFINE L == Removed(l, m)
           n == Len(l)
<1>0. /\ n \in Nat /\ m \in 1..(n - 1) /\ H[l[m]].status = "FREE"
  BY DEF Unmerged
<1>1. /\ L \in Seq(Addr) /\ Len(L) = n - 1
      /\ \A i \in 1..m : L[i] = l[i]
      /\ \A i \in (m + 1)..(n - 1) : L[i] = l[i + 1]
  BY <1>0, RemovedIs
<1>2. /\ \A i \in 1..n : i # m /\ i # m + 1 =>
           G[l[i]].status = H[l[i]].status /\ End(G, l[i]) = End(H, l[i])
  BY DEF JoinShape
<1>3. /\ k \in 1..((n - 1) - 1) /\ G[L[k]].status = "FREE" /\ G[L[k + 1]].status = "FREE"
      /\ End(G, L[k]) = L[k + 1]
  BY <1>1 DEF Unmerged
<1> HIDE DEF L, n
<1>4. CASE k < m
  <2>1. k \in 1..m /\ k + 1 \in 1..m /\ k \in 1..n /\ k # m /\ k # m + 1 /\ k + 1 # m + 1
        /\ k \in 1..(n - 1) /\ k + 1 \in 1..n
    BY <1>0, <1>3, <1>4
  <2>2. L[k] = l[k] /\ L[k + 1] = l[k + 1] BY <1>1, <2>1
  <2>3. H[l[k + 1]].status = "FREE"
    <3>1. CASE k + 1 = m BY <1>0, <3>1
    <3>2. CASE k + 1 # m BY <1>2, <1>3, <2>1, <2>2, <3>2
    <3> QED BY <3>1, <3>2
  <2>4. Unmerged(l, H, k) BY <1>2, <1>3, <2>1, <2>2, <2>3 DEF Unmerged, n
  <2> QED BY <1>0, <1>3, <1>4, <2>4
<1>5. CASE k > m
  <2> DEFINE q == k + 1
  <2>1. k \in (m + 1)..(n - 1) /\ k + 1 \in (m + 1)..(n - 1) /\ q \in 1..n
        /\ q # m /\ q # m + 1 /\ q + 1 \in 1..n /\ q + 1 # m /\ q + 1 # m + 1
        /\ q \in 1..(n - 1)
    BY <1>0, <1>3, <1>5
  <2>2. L[k] = l[q] /\ L[k + 1] = l[q + 1] BY <1>1, <2>1
  <2> HIDE DEF q
  <2>3. Unmerged(l, H, q) BY <1>2, <1>3, <2>1, <2>2 DEF Unmerged, n
  <2> QED BY <1>0, <1>3, <1>5, <2>3 DEF q
<1> QED BY <1>0, <1>3, <1>4, <1>5

\* What touching blocks reach behind the two they still reach.
LEMMA ReachesBehind ==
  ASSUME NEW l \in Seq(Addr), NEW H, NEW G, NEW m, Unmerged(l, H, m),
         JoinShape(l, H, G, m), NEW k \in (m + 1)..(Len(l) - 1),
         Reaches(l, H, k + 1, {})
  PROVE  Reaches(Removed(l, m), G, k, {})
<1> DEFINE L == Removed(l, m)
           n == Len(l)
<1>0. n \in Nat /\ m \in 1..(n - 1) BY DEF Unmerged
<1>1. /\ L \in Seq(Addr) /\ Len(L) = n - 1
      /\ \A i \in 1..m : L[i] = l[i]
      /\ \A i \in (m + 1)..(n - 1) : L[i] = l[i + 1]
  BY <1>0, RemovedIs
<1>2. /\ \A i \in 1..n : i # m /\ i # m + 1 =>
           G[l[i]].status = H[l[i]].status /\ End(G, l[i]) = End(H, l[i])
  BY DEF JoinShape
<1>3. PICK j \in ((k + 1) + 1)..n :
        /\ H[l[j]].status = "USED"
        /\ \A i \in (k + 1)..(j - 1) : End(H, l[i]) = l[i + 1]
        /\ \A i \in ((k + 1) + 1)..(j - 1) : H[l[i]].status = "FREE"
  BY DEF Reaches
<1> HIDE DEF L
<1>4. k \in (m + 1)..(n - 1) OBVIOUS
<1> HIDE DEF n
<1>5. /\ j - 1 \in (k + 1)..(n - 1) /\ j \in 1..n /\ j # m /\ j # m + 1
      /\ j - 1 \in (m + 1)..(n - 1) /\ (j - 1) + 1 = j
  BY <1>0, <1>3, <1>4
<1>6. ASSUME NEW i \in k..((j - 1) - 1) PROVE End(G, L[i]) = L[i + 1]
  <2>1. /\ i \in (m + 1)..(n - 1) /\ i + 1 \in (m + 1)..(n - 1) /\ i + 1 \in 1..n
        /\ i + 1 # m /\ i + 1 # m + 1 /\ i + 1 \in (k + 1)..(j - 1)
    BY <1>0, <1>4, <1>5
  <2> QED BY <1>1, <1>2, <1>3, <2>1
<1>7. ASSUME NEW i \in (k + 1)..((j - 1) - 1) PROVE G[L[i]].status = "FREE"
  <2>1. /\ i \in (m + 1)..(n - 1) /\ i + 1 \in 1..n
        /\ i + 1 # m /\ i + 1 # m + 1 /\ i + 1 \in ((k + 1) + 1)..(j - 1)
    BY <1>0, <1>4, <1>5
  <2> QED BY <1>1, <1>2, <1>3, <2>1
<1>8. G[L[j - 1]].status = "USED" BY <1>1, <1>2, <1>3, <1>5
<1> QED BY <1>1, <1>5, <1>6, <1>7, <1>8 DEF Reaches, L

\* What reaches a used block over the two still does.
LEMMA ReachesOver ==
  ASSUME NEW l \in Seq(Addr), NEW H, NEW G, NEW m, Unmerged(l, H, m),
         JoinShape(l, H, G, m), NEW k \in 1..(m - 1), Reaches(l, H, k, {})
  PROVE  Reaches(Removed(l, m), G, k, {})
<1> DEFINE L == Removed(l, m)
           n == Len(l)
<1>0. /\ n \in Nat /\ m \in 1..(n - 1) /\ H[l[m]].status = "FREE"
      /\ H[l[m + 1]].status = "FREE"
  BY DEF Unmerged
<1>1. /\ L \in Seq(Addr) /\ Len(L) = n - 1
      /\ \A i \in 1..m : L[i] = l[i]
      /\ \A i \in (m + 1)..(n - 1) : L[i] = l[i + 1]
  BY <1>0, RemovedIs
<1>2. /\ \A i \in 1..n : i # m /\ i # m + 1 =>
           G[l[i]].status = H[l[i]].status /\ End(G, l[i]) = End(H, l[i])
      /\ G[l[m]].status = "FREE" /\ End(G, l[m]) = End(H, l[m + 1])
  BY DEF JoinShape
<1>3. PICK j \in (k + 1)..n :
        /\ H[l[j]].status = "USED"
        /\ \A i \in k..(j - 1) : End(H, l[i]) = l[i + 1]
        /\ \A i \in (k + 1)..(j - 1) : H[l[i]].status = "FREE"
  BY DEF Reaches
<1> HIDE DEF L, n
<1>4. j # m /\ j # m + 1 BY <1>0, <1>3
<1>5. CASE j < m
  <2>1. j \in (k + 1)..(n - 1) /\ j \in 1..m /\ j \in 1..n BY <1>0, <1>3, <1>5
  <2>2. ASSUME NEW i \in k..(j - 1) PROVE End(G, L[i]) = L[i + 1]
    <3>1. /\ i \in 1..m /\ i + 1 \in 1..m /\ i \in 1..n /\ i # m /\ i # m + 1
      BY <1>0, <1>3, <1>5
    <3> QED BY <1>1, <1>2, <1>3, <3>1
  <2>3. ASSUME NEW i \in (k + 1)..(j - 1) PROVE G[L[i]].status = "FREE"
    <3>1. /\ i \in 1..m /\ i \in 1..n /\ i # m /\ i # m + 1 BY <1>0, <1>3, <1>5
    <3> QED BY <1>1, <1>2, <1>3, <3>1
  <2>4. G[L[j]].status = "USED" BY <1>1, <1>2, <1>3, <1>4, <2>1
  <2> QED BY <1>1, <2>1, <2>2, <2>3, <2>4 DEF Reaches, L
<1>6. CASE j > m
  <2>0. /\ j \in Int /\ k \in Int /\ m \in Int /\ n \in Int
        /\ 1 <= k /\ k < m /\ m + 1 < j /\ j <= n
    <3>1. /\ j \in Int /\ k \in Int /\ m \in Int /\ n \in Int
          /\ 1 <= k /\ k < m /\ j <= n
      BY <1>0, <1>3
    <3> QED BY <1>4, <1>6, <3>1
  <2>1. /\ j - 1 \in (k + 1)..(n - 1) /\ j \in 1..n /\ j - 1 \in (m + 1)..(n - 1)
        /\ (j - 1) + 1 = j /\ m + 1 \in k..(j - 1)
    BY <2>0
  <2>2. ASSUME NEW i \in k..((j - 1) - 1) PROVE End(G, L[i]) = L[i + 1]
    <3>1. CASE i < m
      <4>1. /\ i \in 1..m /\ i + 1 \in 1..m /\ i \in 1..n /\ i # m /\ i # m + 1
            /\ i \in k..(j - 1)
        BY <1>0, <1>3, <3>1
      <4> QED BY <1>1, <1>2, <1>3, <4>1
    <3>2. CASE i = m
      <4>1. m + 1 \in (m + 1)..(n - 1) /\ (m + 1) + 1 = m + 2 /\ m \in 1..m
        BY <1>0, <2>1, <3>2
      <4>2. L[m] = l[m] /\ L[m + 1] = l[(m + 1) + 1] BY <1>1, <4>1
      <4>3. End(H, l[m + 1]) = l[(m + 1) + 1] BY <1>3, <2>1
      <4> QED BY <1>2, <3>2, <4>2, <4>3
    <3>3. CASE i > m
      <4>1. /\ i \in (m + 1)..(n - 1) /\ i + 1 \in (m + 1)..(n - 1) /\ i + 1 \in 1..n
            /\ i + 1 # m /\ i + 1 # m + 1 /\ i + 1 \in k..(j - 1)
        BY <1>0, <2>1, <3>3
      <4> QED BY <1>1, <1>2, <1>3, <4>1
    <3> QED BY <1>0, <3>1, <3>2, <3>3
  <2>3. ASSUME NEW i \in (k + 1)..((j - 1) - 1) PROVE G[L[i]].status = "FREE"
    <3>1. CASE i < m
      <4>1. /\ i \in 1..m /\ i \in 1..n /\ i # m /\ i # m + 1 /\ i \in (k + 1)..(j - 1)
        BY <1>0, <1>3, <3>1
      <4> QED BY <1>1, <1>2, <1>3, <4>1
    <3>2. CASE i = m
      <4>1. m \in 1..m BY <1>0
      <4> QED BY <1>1, <1>2, <3>2, <4>1
    <3>3. CASE i > m
      <4>0. i \in Int /\ j \in Int /\ k \in Int /\ k + 1 <= i /\ i <= (j - 1) - 1 BY <2>1
      <4>1. /\ i \in (m + 1)..(n - 1) /\ i + 1 \in 1..n
            /\ i + 1 # m /\ i + 1 # m + 1 /\ i + 1 \in (k + 1)..(j - 1)
        BY <1>0, <2>1, <3>3, <4>0
      <4> QED BY <1>1, <1>2, <1>3, <4>1
    <3> QED BY <1>0, <3>1, <3>2, <3>3
  <2>4. G[L[j - 1]].status = "USED" BY <1>1, <1>2, <1>3, <1>4, <2>1
  <2> QED BY <1>1, <2>1, <2>2, <2>3, <2>4 DEF Reaches, L
<1> QED BY <1>0, <1>3, <1>4, <1>5, <1>6

\* What reaches the block that is freed, or a used one, reaches the block that
\* took it over, or a used one.
LEMMA ReachesUpTo ==
  ASSUME NEW l \in Seq(Addr), NEW H, NEW G, NEW m, Unmerged(l, H, m),
         JoinShape(l, H, G, m), \A i \in 1..Len(l) : l[i] = l[m + 1] => i = m + 1,
         NEW k \in 1..(m - 1), Reaches(l, H, k, {l[m + 1]})
  PROVE  Reaches(Removed(l, m), G, k, {l[m]})
<1> DEFINE L == Removed(l, m)
           n == Len(l)
<1>0. /\ n \in Nat /\ m \in 1..(n - 1) /\ H[l[m]].status = "FREE"
  BY DEF Unmerged
<1>1. /\ L \in Seq(Addr) /\ Len(L) = n - 1
      /\ \A i \in 1..m : L[i] = l[i]
      /\ \A i \in (m + 1)..(n - 1) : L[i] = l[i + 1]
  BY <1>0, RemovedIs
<1>2. /\ \A i \in 1..n : i # m /\ i # m + 1 =>
           G[l[i]].status = H[l[i]].status /\ End(G, l[i]) = End(H, l[i])
  BY DEF JoinShape
<1>3. PICK j \in (k + 1)..n :
        /\ H[l[j]].status = "USED" \/ l[j] = l[m + 1]
        /\ \A i \in k..(j - 1) : End(H, l[i]) = l[i + 1]
        /\ \A i \in (k + 1)..(j - 1) : H[l[i]].status = "FREE"
  BY DEF Reaches
<1>4. j # m BY <1>0, <1>3
<1> HIDE DEF L, n
<1>5. ASSUME NEW d \in (k + 1)..m, d <= j, G[L[d]].status = "USED" \/ L[d] = l[m]
      PROVE  Reaches(L, G, k, {l[m]})
  <2>1. d \in (k + 1)..(n - 1) BY <1>0
  <2>2. ASSUME NEW i \in k..(d - 1) PROVE End(G, L[i]) = L[i + 1]
    <3>1. /\ i \in 1..m /\ i + 1 \in 1..m /\ i \in 1..n /\ i # m /\ i # m + 1
          /\ i \in k..(j - 1)
      BY <1>0, <1>3, <1>5
    <3> QED BY <1>1, <1>2, <1>3, <3>1
  <2>3. ASSUME NEW i \in (k + 1)..(d - 1) PROVE G[L[i]].status = "FREE"
    <3>1. i \in 1..m /\ i \in 1..n /\ i # m /\ i # m + 1 /\ i \in (k + 1)..(j - 1)
      BY <1>0, <1>3, <1>5
    <3> QED BY <1>1, <1>2, <1>3, <3>1
  <2> QED BY <1>1, <1>5, <2>1, <2>2, <2>3 DEF Reaches
<1>6. CASE j < m
  <2>1. j \in (k + 1)..m /\ j <= j /\ j \in 1..m /\ j \in 1..n /\ j # m + 1
    BY <1>0, <1>3, <1>6
  <2>2. l[j] # l[m + 1] BY <2>1 DEF n
  <2>3. G[L[j]].status = "USED" BY <1>1, <1>2, <1>3, <1>4, <2>1, <2>2
  <2> QED BY <1>5, <2>1, <2>3 DEF L
<1>7. CASE j > m
  <2>1. m \in (k + 1)..m /\ m <= j /\ m \in 1..m BY <1>0, <1>7
  <2> QED BY <1>1, <1>5, <2>1 DEF L
<1> QED BY <1>0, <1>3, <1>4, <1>6, <1>7

\* kfree has merged the block with the one before it, and goes on from that.
LEMMA JoinMergesBack ==
  ASSUME NEW l, NEW H, NEW P, Listed(l, H, P), NEW G, NEW m, Unmerged(l, H, m),
         JoinShape(l, H, G, m), MergesBack(l, H, l[m + 1])
  PROVE  MergesBack(Removed(l, m), G, l[m])
<1> DEFINE L == Removed(l, m)
           n == Len(l)
<1>0. l \in Seq(Addr) /\ n \in Nat /\ m \in 1..(n - 1) BY DEF Listed, Unmerged
<1>1. Len(L) = n - 1 /\ \A i \in 1..m : L[i] = l[i] BY <1>0, RemovedIs
<1>2. m + 1 \in 1..n
  <2> HIDE DEF n
  <2> QED BY <1>0
<1>3. \A i \in 1..n : l[i] = l[m + 1] => i = m + 1 BY <1>2, Once
<1> SUFFICES ASSUME NEW k \in 1..(n - 1), Unmerged(L, G, k)
             PROVE  L[k] = l[m] \/ Reaches(L, G, k, {l[m]})
  BY <1>1 DEF MergesBack
<1> HIDE DEF L, n
<1>4. CASE k < m
  <2>1. Unmerged(l, H, k) BY <1>0, <1>4, JoinUnmerged DEF L
  <2>2. k \in 1..n /\ k # m + 1 /\ k \in 1..(m - 1) BY <1>0, <1>4
  <2>3. Reaches(l, H, k, {l[m + 1]}) BY <1>3, <2>1, <2>2 DEF MergesBack, n
  <2> QED BY <1>0, <1>3, <2>2, <2>3, ReachesUpTo DEF L, n
<1>5. CASE k = m
  <2>1. m \in 1..m BY <1>0
  <2> QED BY <1>1, <1>5, <2>1
<1>6. CASE k > m
  <2>1. Unmerged(l, H, k + 1) BY <1>0, <1>6, JoinUnmerged DEF L
  <2>2. k + 1 \in 1..n /\ k + 1 # m + 1 /\ k \in (m + 1)..(n - 1) BY <1>0, <1>6
  <2>3. Reaches(l, H, k + 1, {l[m + 1]}) BY <1>3, <2>1, <2>2 DEF MergesBack, n
  <2>4. Reaches(l, H, k + 1, {})
    <3>1. \A j \in ((k + 1) + 1)..n : j \in 1..n /\ j # m + 1 BY <1>0, <2>2
    <3>2. \A j \in ((k + 1) + 1)..n : l[j] # l[m + 1] BY <1>3, <3>1
    <3>3. PICK j \in ((k + 1) + 1)..n :
            /\ H[l[j]].status = "USED" \/ l[j] \in {l[m + 1]}
            /\ \A i \in (k + 1)..(j - 1) : End(H, l[i]) = l[i + 1]
            /\ \A i \in ((k + 1) + 1)..(j - 1) : H[l[i]].status = "FREE"
      BY <2>3 DEF Reaches, n
    <3>4. H[l[j]].status = "USED" BY <3>2, <3>3
    <3> QED BY <3>3, <3>4 DEF Reaches, n
  <2>5. Reaches(L, G, k, {}) BY <1>0, <2>2, <2>4, ReachesBehind DEF L, n
  <2> QED BY <2>5 DEF Reaches
<1> QED BY <1>0, <1>4, <1>5, <1>6

\* kfree has merged the block with the one behind it.
LEMMA JoinMergesOn ==
  ASSUME NEW l, NEW H, NEW P, Listed(l, H, P), NEW G, NEW m, Unmerged(l, H, m),
         JoinShape(l, H, G, m), MergesOn(l, H, l[m])
  PROVE  MergesOn(Removed(l, m), G, l[m])
<1> DEFINE L == Removed(l, m)
           n == Len(l)
<1>0. l \in Seq(Addr) /\ n \in Nat /\ m \in 1..(n - 1) BY DEF Listed, Unmerged
<1>1. Len(L) = n - 1 /\ \A i \in 1..m : L[i] = l[i] BY <1>0, RemovedIs
<1>2. m \in 1..n
  <2> HIDE DEF n
  <2> QED BY <1>0
<1>3. \A i \in 1..n : l[i] = l[m] => i = m BY <1>2, Once
<1> SUFFICES ASSUME NEW k \in 1..(n - 1), Unmerged(L, G, k)
             PROVE  L[k] = l[m] \/ Reaches(L, G, k, {})
  BY <1>1 DEF MergesOn
<1> HIDE DEF L, n
<1>4. CASE k < m
  <2>1. Unmerged(l, H, k) BY <1>0, <1>4, JoinUnmerged DEF L
  <2>2. k \in 1..n /\ k # m /\ k \in 1..(m - 1) BY <1>0, <1>4
  <2>3. Reaches(l, H, k, {}) BY <1>3, <2>1, <2>2 DEF MergesOn, n
  <2> QED BY <1>0, <2>2, <2>3, ReachesOver DEF L
<1>5. CASE k = m
  <2>1. m \in 1..m BY <1>0
  <2> QED BY <1>1, <1>5, <2>1
<1>6. CASE k > m
  <2>1. Unmerged(l, H, k + 1) BY <1>0, <1>6, JoinUnmerged DEF L
  <2>2. k + 1 \in 1..n /\ k + 1 # m /\ k \in (m + 1)..(n - 1) BY <1>0, <1>6
  <2>3. Reaches(l, H, k + 1, {}) BY <1>3, <2>1, <2>2 DEF MergesOn, n
  <2> QED BY <1>0, <2>2, <2>3, ReachesBehind DEF L, n
<1> QED BY <1>0, <1>4, <1>5, <1>6

\* Nothing free touches the block from before: what reached it reaches a used
\* block.
LEMMA BackIsDone ==
  ASSUME NEW l, NEW H, NEW P, Listed(l, H, P), NEW c \in 1..Len(l),
         H[l[c]].status = "FREE", MergesBack(l, H, l[c]),
         c > 1 => ~ Unmerged(l, H, c - 1)
  PROVE  MergesOn(l, H, l[c])
<1> DEFINE n == Len(l)
<1>0. n \in Nat /\ c \in 1..n BY DEF Listed
<1>1. \A i \in 1..n : l[i] = l[c] => i = c BY Once
<1> SUFFICES ASSUME NEW k \in 1..n, Unmerged(l, H, k), l[k] # l[c]
             PROVE  Reaches(l, H, k, {})
  BY DEF MergesOn
<1>2. Reaches(l, H, k, {l[c]}) BY DEF MergesBack
<1>3. PICK j \in (k + 1)..n :
        /\ H[l[j]].status = "USED" \/ l[j] \in {l[c]}
        /\ \A i \in k..(j - 1) : End(H, l[i]) = l[i + 1]
        /\ \A i \in (k + 1)..(j - 1) : H[l[i]].status = "FREE"
  BY <1>2 DEF Reaches
<1>4. k \in 1..(n - 1) /\ H[l[k]].status = "FREE" BY DEF Unmerged
<1> HIDE DEF n
<1>5. j \in 1..n BY <1>0, <1>3
<1>6. CASE j = c
  <2>1. c > 1 /\ c - 1 \in 1..(n - 1) /\ c - 1 \in k..(j - 1) /\ (c - 1) + 1 = c
    BY <1>0, <1>3, <1>5, <1>6
  <2>2. End(H, l[c - 1]) = l[c] BY <1>3, <2>1
  <2>3. H[l[c - 1]].status = "FREE"
    <3>1. CASE c - 1 = k BY <1>4, <3>1
    <3>2. CASE c - 1 # k
      <4>1. c - 1 \in (k + 1)..(j - 1) BY <1>0, <2>1, <3>2
      <4> QED BY <1>3, <4>1
    <3> QED BY <3>1, <3>2
  <2>4. Unmerged(l, H, c - 1) BY <2>1, <2>2, <2>3 DEF Unmerged, n
  <2> QED BY <2>1, <2>4
<1>7. CASE j # c
  <2>1. H[l[j]].status = "USED" BY <1>1, <1>3, <1>5, <1>7
  <2> QED BY <1>3, <2>1 DEF Reaches, n
<1> QED BY <1>6, <1>7

\* Nor does anything from behind: kfree has done.
LEMMA OnIsDone ==
  ASSUME NEW l, NEW H, NEW P, Listed(l, H, P), NEW c \in 1..Len(l),
         MergesOn(l, H, l[c]), ~ Unmerged(l, H, c)
  PROVE  Settled(l, H)
<1>1. \A i \in 1..Len(l) : l[i] = l[c] => i = c BY Once
<1> QED BY <1>1 DEF MergesOn, Settled

------------------------------------------------------------------------------
(***************************************************************************)
(* The actions.                                                            *)

\* Requests, rounded up to whole units.
LEMMA Requests ==
  ASSUME NEW n \in Sizes
  PROVE  n \in Nat /\ AlignedSize(n) \in Nat /\ n <= 8 * AlignedSize(n)
<1>1. n \in Nat
  <2> DEFINE top == 8 * (AddressSpace - PageUnits - HEADER) - 7
  <2>1. Sizes \subseteq 0..top BY HeapAssumption
  <2>2. n \in 0..top BY <2>1
  <2> HIDE DEF top
  <2> QED BY <2>2
<1>2. (n + 7) \div 8 \in Nat /\ n <= 8 * ((n + 7) \div 8) BY <1>1
<1> QED BY <1>1, <1>2 DEF AlignedSize

\* The first block that suits is one of the list that does.
LEMMA Found ==
  ASSUME NEW l, l[1] = start, Listed(l, hdr, pages), NEW a, Fitting(a) # {}
  PROVE  \E m \in 1..Len(l) : FirstFit(a) = l[m] /\ Suits(l[m], a)
<1>1. List = l BY ListIs
<1>2. Fitting(a) = {k \in 1..Len(l) : Suits(l[k], a)} BY <1>1 DEF Fitting
<1>3. Fitting(a) \subseteq Nat
  <2>1. Len(l) \in Nat BY DEF Listed
  <2> QED BY <1>2, <2>1
<1> DEFINE m == CHOOSE k \in Fitting(a) : \A j \in Fitting(a) : k <= j
<1>4. \E k \in Fitting(a) : \A j \in Fitting(a) : k <= j BY <1>3, Least
<1>5. m \in Fitting(a) BY <1>4
<1>6. FirstFit(a) = l[m] BY <1>1 DEF FirstFit
<1> HIDE DEF m
<1> QED BY <1>2, <1>5, <1>6

\* When the machine starts the heap is one free block.
LEMMA InitHeap == Init => HeapInv
<1> SUFFICES ASSUME Init PROVE HeapInv OBVIOUS
<1>1. PICK p \in Runs(InitPages, Space) :
        /\ pages = p .. (p + InitPages - 1)
        /\ start = p * PageUnits /\ regions = {start}
        /\ hdr = [a \in Addr |->
                    IF a = start
                    THEN [size |-> InitPages * PageUnits - HEADER, status |-> "FREE",
                          next |-> NULL, prev |-> NULL]
                    ELSE NoHeader]
        /\ live = {} /\ calls = 0 /\ pc = "idle" /\ cur = NULL
  BY DEF Init
<1> DEFINE l == <<start>>
           w == InitPages * PageUnits
           e == [size |-> w - HEADER, status |-> "FREE", next |-> NULL, prev |-> NULL]
<1>2. /\ PageUnits \in Nat /\ PageUnits > 2 /\ HEADER = 2
      /\ InitPages \in Nat /\ InitPages > 0
      /\ p \in Space /\ pages \subseteq Space
  <2>1. p \in Space /\ p .. (p + InitPages - 1) \subseteq Space BY DEF Runs
  <2> QED BY <1>1, <2>1, Addresses, HeapAssumption
<1>3. Units(pages) = start .. (start + w - 1) /\ start \in Nat /\ w \in Nat /\ w >= PageUnits
  BY <1>1, <1>2, Region
<1> HIDE DEF w
<1>4. start \in Units(pages) BY <1>2, <1>3
<1>5. start \in Addr BY <1>2, <1>4 DEF Units, Addr
<1>6. e \in Header
  <2>1. w - HEADER \in Nat BY <1>2, <1>3
  <2> QED BY <2>1 DEF Header
<1>7. hdr = [a \in Addr |-> IF a = start THEN e ELSE NoHeader] BY <1>1 DEF w
<1>8. e.size = w - 2 /\ e.status = "FREE" /\ e.next = NULL /\ e.prev = NULL BY <1>2
<1> HIDE DEF e
<1>9. NoHeader \in Header BY DEF NoHeader, Header
<1>10. hdr \in [Addr -> Header] /\ hdr[start] = e BY <1>5, <1>6, <1>7, <1>9
<1>11. l \in Seq(Addr) /\ Len(l) = 1 /\ l[1] = start BY <1>5
<1> HIDE DEF l
<1>12. End(hdr, start) = start + w BY <1>2, <1>3, <1>8, <1>10 DEF End
<1>13. \A k \in 1..Len(l) : k = 1 /\ l[k] = start BY <1>11
<1>14. Linked(l, hdr) BY <1>8, <1>10, <1>11, <1>13 DEF Linked
<1>15. Apart(l, hdr) BY <1>13 DEF Apart
<1>16. Within(l, hdr, pages) BY <1>3, <1>12, <1>13 DEF Within
<1>17. Covers(l, hdr, pages)
  <2>1. 1 \in 1..Len(l) BY <1>11
  <2> QED BY <1>3, <1>11, <1>12, <2>1 DEF Covers
<1>18. Clean(l, hdr)
  <2>1. 1 \in 1..Len(l) BY <1>11
  <2> QED BY <1>7, <1>11, <2>1 DEF Clean
<1>19. Listed(l, hdr, pages)
  BY <1>2, <1>10, <1>11, <1>14, <1>15, <1>16, <1>17, <1>18 DEF Listed
<1>20. IsFiniteSet(live) /\ Cardinality(live) = 0 BY <1>1, FS_EmptySet
<1>21. Held(l, hdr, live)
  <2>1. \A k \in 1..Len(l) : hdr[l[k]].status # "USED" BY <1>8, <1>10, <1>13
  <2>2. live = {} BY <1>1
  <2> QED BY <1>20, <2>1, <2>2 DEF Held
<1>22. Settled(l, hdr)
  <2>1. \A k \in 1..Len(l) : ~ Unmerged(l, hdr, k) BY <1>11 DEF Unmerged
  <2> QED BY <2>1 DEF Settled
<1>23. Freeing(l, hdr) BY <1>1, <1>22 DEF Freeing
<1>24. regions \subseteq Addr /\ Ordered(l, hdr, regions) BY <1>1, <1>5, <1>13 DEF Ordered
<1> QED BY <1>1, <1>11, <1>19, <1>20, <1>21, <1>23, <1>24 DEF HeapInv

\* A block that changes its status stays where it is.
LEMMA MarkOrdered ==
  ASSUME NEW l, Len(l) \in Nat, NEW H, NEW G, NEW m, Marked(l, H, G, m), NEW R,
         Ordered(l, H, R)
  PROVE  Ordered(l, G, R)
<1> SUFFICES ASSUME NEW k \in 1..Len(l), l[k] \notin R
             PROVE  k > 1 /\ End(G, l[k - 1]) = l[k]
  BY DEF Ordered
<1>1. k > 1 /\ End(H, l[k - 1]) = l[k] BY DEF Ordered
<1>2. k - 1 \in 1..Len(l) BY <1>1
<1> QED BY <1>1, <1>2 DEF Marked

\* A block that is cut off begins where what is left of the other one ends.
LEMMA SplitOrdered ==
  ASSUME NEW l \in Seq(Addr), NEW H, NEW G, NEW m \in 1..Len(l), NEW t \in Addr, NEW a,
         SplitShape(l, H, G, m, t, a), NEW R, Ordered(l, H, R)
  PROVE  Ordered(Inserted(l, m, t), G, R)
<1> DEFINE L == Inserted(l, m, t)
           n == Len(l)
<1>1. /\ Len(L) = n + 1 /\ \A i \in 1..m : L[i] = l[i]
      /\ L[m + 1] = t /\ \A i \in (m + 2)..(n + 1) : L[i] = l[i - 1]
  BY InsertedIs
<1>2. n \in Nat /\ m \in 1..n OBVIOUS
<1>3. /\ \A k \in 1..n : k # m => End(G, l[k]) = End(H, l[k])
      /\ End(G, l[m]) = t /\ End(G, t) = End(H, l[m])
  BY DEF SplitShape
<1>4. \A k \in 1..n : l[k] \in R \/ (k > 1 /\ End(H, l[k - 1]) = l[k]) BY DEF Ordered
<1> HIDE DEF L, n
<1> SUFFICES ASSUME NEW k \in 1..(n + 1), L[k] \notin R
             PROVE  k > 1 /\ End(G, L[k - 1]) = L[k]
  BY <1>1 DEF Ordered, L
<1>5. CASE k <= m
  <2>1. k \in 1..m /\ k \in 1..n BY <1>2, <1>5
  <2>2. L[k] = l[k] /\ k > 1 /\ End(H, l[k - 1]) = l[k] BY <1>1, <1>4, <2>1
  <2>3. k - 1 \in 1..m /\ k - 1 \in 1..n /\ k - 1 # m BY <1>2, <2>1, <2>2
  <2> QED BY <1>1, <1>3, <2>2, <2>3
<1>6. CASE k = m + 1
  <2>1. k - 1 = m /\ m \in 1..m /\ k > 1 BY <1>2, <1>6
  <2> QED BY <1>1, <1>3, <1>6, <2>1
<1>7. CASE k = m + 2
  <2>1. k - 1 = m + 1 /\ k \in (m + 2)..(n + 1) /\ k - 1 \in 1..n /\ (k - 1) - 1 = m /\ k > 1
    BY <1>2, <1>7
  <2>2. L[k] = l[k - 1] /\ L[k - 1] = t BY <1>1, <2>1
  <2>3. End(H, l[(k - 1) - 1]) = l[k - 1] BY <1>4, <2>1, <2>2
  <2> QED BY <1>3, <2>1, <2>2, <2>3
<1>8. CASE k > m + 2
  <2>1. /\ k \in (m + 2)..(n + 1) /\ k - 1 \in (m + 2)..(n + 1) /\ k > 1
        /\ k - 1 \in 1..n /\ (k - 1) - 1 \in 1..n /\ (k - 1) - 1 # m
    BY <1>2, <1>8
  <2>2. L[k] = l[k - 1] /\ L[k - 1] = l[(k - 1) - 1] BY <1>1, <2>1
  <2>3. End(H, l[(k - 1) - 1]) = l[k - 1] BY <1>4, <2>1, <2>2
  <2> QED BY <1>3, <2>1, <2>2, <2>3
<1>9. k <= m \/ k = m + 1 \/ k = m + 2 \/ k > m + 2 BY <1>2
<1> QED BY <1>5, <1>6, <1>7, <1>8, <1>9

\* A new region is behind the others.
LEMMA GrownOrdered ==
  ASSUME NEW l \in Seq(Addr), NEW H, NEW G, NEW h \in Addr, Kept(l, H, G), NEW R,
         Ordered(l, H, R)
  PROVE  Ordered(Append(l, h), G, R \cup {h})
<1> DEFINE L == Append(l, h)
           n == Len(l)
<1>1. n \in Nat /\ Len(L) = n + 1 /\ L[n + 1] = h /\ \A i \in 1..n : L[i] = l[i]
  OBVIOUS
<1>2. \A k \in 1..n : End(G, l[k]) = End(H, l[k]) BY DEF Kept
<1>3. \A k \in 1..n : l[k] \in R \/ (k > 1 /\ End(H, l[k - 1]) = l[k]) BY DEF Ordered
<1> HIDE DEF L, n
<1> SUFFICES ASSUME NEW k \in 1..(n + 1), L[k] \notin R \cup {h}
             PROVE  k > 1 /\ End(G, L[k - 1]) = L[k]
  BY <1>1 DEF Ordered, L
<1>4. k # n + 1 BY <1>1
<1>5. k \in 1..n BY <1>1, <1>4
<1>6. L[k] = l[k] /\ k > 1 /\ End(H, l[k - 1]) = l[k] BY <1>1, <1>3, <1>5
<1>7. k - 1 \in 1..n BY <1>1, <1>5, <1>6
<1> QED BY <1>1, <1>2, <1>6, <1>7

\* The block behind a merged pair begins where the pair ends.
LEMMA JoinOrdered ==
  ASSUME NEW l \in Seq(Addr), NEW H, NEW G, NEW m, Unmerged(l, H, m),
         JoinShape(l, H, G, m), NEW R, Ordered(l, H, R)
  PROVE  Ordered(Removed(l, m), G, R)
<1> DEFINE L == Removed(l, m)
           n == Len(l)
<1>1. n \in Nat /\ m \in 1..(n - 1) BY DEF Unmerged
<1>2. /\ Len(L) = n - 1 /\ \A i \in 1..m : L[i] = l[i]
      /\ \A i \in (m + 1)..(n - 1) : L[i] = l[i + 1]
  BY <1>1, RemovedIs
<1>3. /\ \A k \in 1..n : k # m /\ k # m + 1 => End(G, l[k]) = End(H, l[k])
      /\ End(G, l[m]) = End(H, l[m + 1])
  BY DEF JoinShape
<1>4. \A k \in 1..n : l[k] \in R \/ (k > 1 /\ End(H, l[k - 1]) = l[k]) BY DEF Ordered
<1> HIDE DEF L, n
<1> SUFFICES ASSUME NEW k \in 1..(n - 1), L[k] \notin R
             PROVE  k > 1 /\ End(G, L[k - 1]) = L[k]
  BY <1>2 DEF Ordered, L
<1>5. CASE k <= m
  <2>1. k \in 1..m /\ k \in 1..n BY <1>1, <1>5
  <2>2. L[k] = l[k] /\ k > 1 /\ End(H, l[k - 1]) = l[k] BY <1>2, <1>4, <2>1
  <2>3. k - 1 \in 1..m /\ k - 1 \in 1..n /\ k - 1 # m /\ k - 1 # m + 1
    BY <1>1, <2>1, <2>2
  <2> QED BY <1>2, <1>3, <2>2, <2>3
<1>6. CASE k = m + 1
  <2>1. k \in (m + 1)..(n - 1) /\ k + 1 \in 1..n /\ k > 1 /\ k - 1 = m /\ m \in 1..m
        /\ (k + 1) - 1 = m + 1
    BY <1>1, <1>6
  <2>2. L[k] = l[k + 1] /\ L[k - 1] = l[m] BY <1>2, <2>1
  <2>3. End(H, l[(k + 1) - 1]) = l[k + 1] BY <1>4, <2>1, <2>2
  <2> QED BY <1>3, <2>1, <2>2, <2>3
<1>7. CASE k > m + 1
  <2>1. /\ k \in (m + 1)..(n - 1) /\ k - 1 \in (m + 1)..(n - 1) /\ k > 1
        /\ k + 1 \in 1..n /\ (k + 1) - 1 = k /\ (k - 1) + 1 = k /\ k \in 1..n
        /\ k # m /\ k # m + 1
    BY <1>1, <1>7
  <2>2. L[k] = l[k + 1] /\ L[k - 1] = l[k] BY <1>2, <2>1
  <2>3. End(H, l[k]) = l[k + 1] BY <1>4, <2>1, <2>2
  <2> QED BY <1>3, <2>1, <2>2, <2>3
<1>8. k <= m \/ k = m + 1 \/ k > m + 1 BY <1>1
<1> QED BY <1>5, <1>6, <1>7, <1>8

\* The invariant after kmalloc, and the list that shows it.
LEMMA Rests ==
  ASSUME NEW l \in Seq(Addr), l[1] = start', Listed(l, hdr', pages'),
         Held(l, hdr', live'), Settled(l, hdr'), pc' = "idle", cur' = NULL,
         calls' \in Nat, calls' = Cardinality(live'),
         regions' \subseteq Addr, Ordered(l, hdr', regions')
  PROVE  HeapInv'
<1>1. Freeing(l, hdr)' BY DEF Freeing
<1> QED BY <1>1 DEF HeapInv

\* kmalloc takes a block of the size that is asked for.
LEMMA TakeExactKeeps ==
  ASSUME HeapInv, NEW n \in Sizes, TakeExact(n)
  PROVE  HeapInv'
<1> DEFINE a == AlignedSize(n)
<1>1. PICK l \in Seq(Addr) :
        /\ l[1] = start /\ Listed(l, hdr, pages) /\ Held(l, hdr, live) /\ Freeing(l, hdr)
        /\ regions \subseteq Addr /\ Ordered(l, hdr, regions)
  BY DEF HeapInv
<1>2. n \in Nat /\ a \in Nat /\ n <= 8 * a BY Requests
<1>3. PICK m \in 1..Len(l) : FirstFit(a) = l[m] /\ Suits(l[m], a)
  <2>1. Fitting(a) # {} BY DEF TakeExact
  <2> HIDE DEF a
  <2> QED BY <1>1, <2>1, Found
<1> DEFINE r == [addr |-> l[m] + HEADER, bytes |-> n]
<1>4. /\ pc = "idle" /\ hdr[l[m]].size = a /\ hdr' = [hdr EXCEPT ![l[m]].status = "USED"]
      /\ live' = live \cup {r} /\ calls' = calls + 1
      /\ UNCHANGED <<start, pc, cur, pages, regions>>
  BY <1>3 DEF TakeExact, Hand
<1>5. hdr[l[m]].status = "FREE" BY <1>3 DEF Suits
<1> HIDE DEF r, a
<1>6. Listed(l, hdr', pages) /\ Marked(l, hdr, hdr', m) /\ hdr'[l[m]].status = "USED"
  <2> DEFINE s == "USED"
  <2>1. s \in {"FREE", "USED"} /\ hdr' = Mark(hdr, l[m], s) BY <1>4 DEF Mark
  <2> HIDE DEF s
  <2>2. Listed(l, hdr', pages) /\ Marked(l, hdr, hdr', m) /\ hdr'[l[m]].status = s
    BY <1>1, <2>1, MarkListed
  <2> QED BY <2>2 DEF s
<1>7. Len(l) \in Nat BY <1>1
<1>8. cur = NULL /\ Settled(l, hdr) BY <1>1, <1>4 DEF Freeing
<1>9. Settled(l, hdr') BY <1>5, <1>6, <1>7, <1>8, TakeSettled
<1>10. (\A x \in live : x.addr # r.addr) /\ Held(l, hdr', live \cup {r})
  <2>1. n <= 8 * hdr[l[m]].size BY <1>2, <1>4
  <2> QED BY <1>1, <1>2, <1>5, <1>6, <2>1, TakeHeld DEF r
<1>11. calls' \in Nat /\ calls' = Cardinality(live')
  <2>1. IsFiniteSet(live) /\ calls \in Nat /\ calls = Cardinality(live)
    BY <1>1 DEF HeapInv, Held
  <2>2. r \notin live BY <1>10
  <2>3. Cardinality(live \cup {r}) = Cardinality(live) + 1 BY <2>1, <2>2, FS_AddElement
  <2> QED BY <1>4, <2>1, <2>3
<1>12. Ordered(l, hdr', regions') BY <1>1, <1>4, <1>6, <1>7, MarkOrdered
<1> QED BY <1>1, <1>4, <1>6, <1>8, <1>9, <1>10, <1>11, <1>12, Rests

\* kmalloc takes the end of a block.
LEMMA TakeSplitKeeps ==
  ASSUME HeapInv, NEW n \in Sizes, TakeSplit(n)
  PROVE  HeapInv'
<1> DEFINE a == AlignedSize(n)
<1>1. PICK l \in Seq(Addr) :
        /\ l[1] = start /\ Listed(l, hdr, pages) /\ Held(l, hdr, live) /\ Freeing(l, hdr)
        /\ regions \subseteq Addr /\ Ordered(l, hdr, regions)
  BY DEF HeapInv
<1>2. n \in Nat /\ a \in Nat /\ n <= 8 * a BY Requests
<1>3. PICK m \in 1..Len(l) : FirstFit(a) = l[m] /\ Suits(l[m], a)
  <2>1. Fitting(a) # {} BY DEF TakeSplit
  <2> HIDE DEF a
  <2> QED BY <1>1, <2>1, Found
<1> DEFINE t == LastUnits(l[m], a, hdr)
           r == [addr |-> t + HEADER, bytes |-> n]
           L == Inserted(l, m, t)
<1>4. /\ pc = "idle" /\ hdr[l[m]].size # a /\ hdr' = Split(l[m], a, hdr)
      /\ live' = live \cup {r} /\ calls' = calls + 1
      /\ UNCHANGED <<start, pc, cur, pages, regions>>
  BY <1>3 DEF TakeSplit, Hand
<1>5. hdr[l[m]].status = "FREE" /\ hdr[l[m]].size >= a + 2
  BY <1>3, <1>4, Addresses DEF Suits
<1> HIDE DEF a
<1>6. /\ t \in Addr /\ \A k \in 1..Len(l) : l[k] # t
      /\ SplitShape(l, hdr, hdr', m, t, a)
      /\ Listed(L, hdr', pages)
  BY <1>1, <1>2, <1>4, <1>5, SplitListed
<1> HIDE DEF t
<1>7. cur = NULL /\ Settled(l, hdr) BY <1>1, <1>4 DEF Freeing
<1>8. Settled(L, hdr')
  <2>1. \A k \in 1..Len(l) : Unmerged(l, hdr, k) => k + 1 = m \/ Reaches(l, hdr, k, {})
    BY <1>7 DEF Settled
  <2> QED BY <1>5, <1>6, <2>1, SplitSettled
<1>9. (\A x \in live : x.addr # r.addr) /\ Held(L, hdr', live \cup {r})
  BY <1>1, <1>2, <1>5, <1>6, SplitHeld
<1> HIDE DEF r
<1>10. calls' \in Nat /\ calls' = Cardinality(live')
  <2>1. IsFiniteSet(live) /\ calls \in Nat /\ calls = Cardinality(live)
    BY <1>1 DEF HeapInv, Held
  <2>2. r \notin live BY <1>9
  <2>3. Cardinality(live \cup {r}) = Cardinality(live) + 1 BY <2>1, <2>2, FS_AddElement
  <2> QED BY <1>4, <2>1, <2>3
<1>11. L \in Seq(Addr) /\ L[1] = start'
  <2>1. L \in Seq(Addr) /\ \A i \in 1..m : L[i] = l[i] BY <1>6, InsertedIs
  <2>2. 1 \in 1..m
    <3>1. Len(l) \in Nat /\ m \in 1..Len(l) BY <1>1
    <3> QED BY <3>1
  <2> QED BY <1>1, <1>4, <2>1, <2>2
<1>12. Ordered(L, hdr', regions') BY <1>1, <1>4, <1>6, SplitOrdered
<1> HIDE DEF L
<1> QED BY <1>1, <1>4, <1>6, <1>7, <1>8, <1>9, <1>10, <1>11, <1>12, Rests

\* kmalloc takes the end of new pages.
LEMMA GrowKeeps ==
  ASSUME RoomBehind, CleanPages, HeapInv, NEW n \in Sizes, Grow(n)
  PROVE  HeapInv'
<1> DEFINE a == AlignedSize(n)
           N == PagesFor(a)
<1>1. PICK l \in Seq(Addr) :
        /\ l[1] = start /\ Listed(l, hdr, pages) /\ Held(l, hdr, live) /\ Freeing(l, hdr)
        /\ regions \subseteq Addr /\ Ordered(l, hdr, regions)
  BY DEF HeapInv
<1>2. n \in Nat /\ a \in Nat /\ n <= 8 * a BY Requests
<1>3. N \in Nat /\ N > 0
  <2>1. PageUnits \in Nat /\ PageUnits > 2 /\ HEADER = 2 BY Addresses
  <2> DEFINE u == a + 2 + PageUnits - 1
  <2>2. N = u \div PageUnits BY <2>1 DEF PagesFor
  <2> HIDE DEF a, N
  <2>3. u \in Nat /\ u >= PageUnits BY <1>2, <2>1
  <2> HIDE DEF u
  <2>4. u \div PageUnits \in Nat /\ u \div PageUnits > 0 BY <2>1, <2>3, Z3
  <2> QED BY <2>2, <2>4
<1>4. Last = l[Len(l)]
  <2>1. List = l BY <1>1, ListIs
  <2> QED BY <2>1 DEF Last
<1>5. PICK p \in Runs(N, Space \ pages) :
        LET h == p * PageUnits
            linked == [hdr EXCEPT
                         ![Last].next = h, ![h].prev = Last, ![h].next = Leftover,
                         ![h].status = "FREE", ![h].size = N * PageUnits - HEADER]
        IN  /\ hdr' = Split(h, a, linked)
            /\ pages' = pages \cup (p .. (p + N - 1))
            /\ regions' = regions \cup {h}
            /\ Hand(LastUnits(h, a, linked), n)
  BY DEF Grow
<1> DEFINE h == p * PageUnits
           G == Grown(hdr, l[Len(l)], h, N)
           t == LastUnits(h, a, G)
           r == [addr |-> t + HEADER, bytes |-> n]
           Q == p .. (p + N - 1)
           l1 == Append(l, h)
           m == Len(l1)
           L == Inserted(l1, m, t)
<1>6. /\ hdr' = Split(h, a, G) /\ pages' = pages \cup Q
      /\ regions' = regions \cup {h} /\ live' = live \cup {r} /\ calls' = calls + 1 /\ UNCHANGED <<start, pc, cur>>
  BY <1>4, <1>5 DEF Hand, Grown, CleanPages
<1>7. pc = "idle" BY DEF Grow
<1>8. p \in Space /\ Q \subseteq Space \ pages BY DEF Runs
<1>9. a + 2 * HEADER <= N * PageUnits BY DEF RoomBehind
<1>10. N * PageUnits \in Nat BY <1>3, Addresses
<1> HIDE DEF a, N
<1>11. /\ Listed(l1, G, pages \cup Q) /\ h \in Addr /\ G[h].status = "FREE"
       /\ G[h].size = N * PageUnits - HEADER /\ Kept(l, hdr, G)
  <2>1. Extended(l, hdr, pages, G, h, p, N) BY <1>1, <1>3, <1>8, GrownListed
  <2> QED BY <2>1 DEF Extended
<1> HIDE DEF G, h, Q
<1>12. l1 \in Seq(Addr) /\ m \in 1..Len(l1) /\ l1[m] = h /\ l1[1] = start
  <2>1. Len(l) \in Nat /\ Len(l) >= 1 BY <1>1 DEF Listed
  <2>2. l1 \in Seq(Addr) /\ m = Len(l) + 1 /\ l1[Len(l) + 1] = h
        /\ \A i \in 1..Len(l) : l1[i] = l[i]
    BY <1>1, <1>11
  <2> HIDE DEF l1
  <2> QED BY <1>1, <2>1, <2>2
<1>13. G[l1[m]].size >= a + 2
  <2> DEFINE w == N * PageUnits
  <2>1. w \in Nat /\ a + 2 * 2 <= w /\ G[l1[m]].size = w - 2
    BY <1>9, <1>10, <1>11, <1>12, Addresses
  <2> HIDE DEF w
  <2> QED BY <1>2, <2>1
<1>14. cur = NULL /\ Settled(l, hdr) BY <1>1, <1>7 DEF Freeing
<1>15. \A k \in 1..Len(l1) : Unmerged(l1, G, k) => k + 1 = m \/ Reaches(l1, G, k, {})
  BY <1>1, <1>11, <1>14, GrownSettled
<1>16. Held(l1, G, live) BY <1>1, <1>11, GrownHeld
<1>23. Ordered(l1, G, regions \cup {h}) BY <1>1, <1>11, GrownOrdered
<1> HIDE DEF l1, m
<1>17. /\ t \in Addr /\ \A k \in 1..Len(l1) : l1[k] # t
       /\ SplitShape(l1, G, hdr', m, t, a)
       /\ Listed(L, hdr', pages \cup Q)
  <2>1. hdr' = Split(l1[m], a, G) /\ t = LastUnits(l1[m], a, G) BY <1>6, <1>12
  <2> QED BY <1>2, <1>11, <1>12, <1>13, <2>1, SplitListed
<1> HIDE DEF t
<1>18. G[l1[m]].status = "FREE" BY <1>11, <1>12
<1>19. Settled(L, hdr') BY <1>12, <1>15, <1>17, <1>18, SplitSettled
<1>20. (\A x \in live : x.addr # r.addr) /\ Held(L, hdr', live \cup {r})
  BY <1>2, <1>12, <1>16, <1>17, <1>18, SplitHeld
<1> HIDE DEF r
<1>21. calls' \in Nat /\ calls' = Cardinality(live')
  <2>1. IsFiniteSet(live) /\ calls \in Nat /\ calls = Cardinality(live)
    BY <1>1 DEF HeapInv, Held
  <2>2. r \notin live BY <1>20
  <2>3. Cardinality(live \cup {r}) = Cardinality(live) + 1 BY <2>1, <2>2, FS_AddElement
  <2> QED BY <1>6, <2>1, <2>3
<1>22. L \in Seq(Addr) /\ L[1] = start'
  <2>1. L \in Seq(Addr) /\ \A i \in 1..m : L[i] = l1[i] BY <1>12, <1>17, InsertedIs
  <2>2. 1 \in 1..m
    <3>1. Len(l1) \in Nat /\ m \in 1..Len(l1) BY <1>12
    <3> QED BY <3>1
  <2> QED BY <1>6, <1>12, <2>1, <2>2
<1>24. Ordered(L, hdr', regions') BY <1>6, <1>12, <1>17, <1>23, SplitOrdered
<1>25. regions' \subseteq Addr BY <1>1, <1>6, <1>11
<1> HIDE DEF L
<1> QED BY <1>6, <1>7, <1>14, <1>17, <1>19, <1>20, <1>21, <1>22, <1>24, <1>25, Rests

\* When no block suits and no pages are left nothing changes.
LEMMA StutterKeeps ==
  ASSUME HeapInv, UNCHANGED vars
  PROVE  HeapInv'
<1>1. /\ hdr' = hdr /\ start' = start /\ pages' = pages /\ live' = live /\ calls' = calls
      /\ pc' = pc /\ cur' = cur /\ regions' = regions
  BY DEF vars
<1>2. PICK l \in Seq(Addr) :
        /\ l[1] = start /\ Listed(l, hdr, pages) /\ Held(l, hdr, live) /\ Freeing(l, hdr)
        /\ regions \subseteq Addr /\ Ordered(l, hdr, regions)
  BY DEF HeapInv
<1>3. Freeing(l, hdr)' BY <1>1, <1>2 DEF Freeing
<1> QED BY <1>1, <1>2, <1>3 DEF HeapInv

\* The block behind a request that is held.
LEMMA Owner ==
  ASSUME NEW l, NEW H, NEW P, Listed(l, H, P), Held(l, H, live), NEW x \in live
  PROVE  \E m \in 1..Len(l) :
           x.addr = l[m] + HEADER /\ x.addr - HEADER = l[m] /\ H[l[m]].status = "USED"
<1>1. PICK m \in 1..Len(l) : l[m] = x.addr - HEADER /\ H[l[m]].status = "USED"
  BY DEF Held
<1>2. x.addr \in Nat /\ HEADER = 2
  <2>1. x \in [addr : Nat, bytes : Nat] BY DEF Held
  <2> QED BY <2>1, Addresses
<1> QED BY <1>1, <1>2

\* kfree marks the block free.
LEMMA FreeKeeps ==
  ASSUME HeapInv, NEW x \in live, Free(x)
  PROVE  HeapInv'
<1>1. PICK l \in Seq(Addr) :
        /\ l[1] = start /\ Listed(l, hdr, pages) /\ Held(l, hdr, live) /\ Freeing(l, hdr)
        /\ regions \subseteq Addr /\ Ordered(l, hdr, regions)
  BY DEF HeapInv
<1>2. PICK m \in 1..Len(l) :
        x.addr = l[m] + HEADER /\ x.addr - HEADER = l[m] /\ hdr[l[m]].status = "USED"
  BY <1>1, Owner
<1>3. /\ pc = "idle" /\ hdr' = [hdr EXCEPT ![l[m]].status = "FREE"]
      /\ live' = live \ {x} /\ calls' = calls - 1
      /\ pc' = "prev" /\ cur' = l[m] /\ UNCHANGED <<start, pages, regions>>
  BY <1>2 DEF Free
<1>4. Listed(l, hdr', pages) /\ Marked(l, hdr, hdr', m) /\ hdr'[l[m]].status = "FREE"
  <2> DEFINE s == "FREE"
  <2>1. s \in {"FREE", "USED"} /\ hdr' = Mark(hdr, l[m], s) BY <1>3 DEF Mark
  <2> HIDE DEF s
  <2>2. Listed(l, hdr', pages) /\ Marked(l, hdr, hdr', m) /\ hdr'[l[m]].status = s
    BY <1>1, <2>1, MarkListed
  <2> QED BY <2>2 DEF s
<1>5. Settled(l, hdr) BY <1>1, <1>3 DEF Freeing
<1>6. Len(l) \in Nat BY <1>1
<1>7. MergesBack(l, hdr', l[m]) BY <1>4, <1>5, <1>6, FreeMergesBack
<1>8. Held(l, hdr', live \ {x}) BY <1>1, <1>2, <1>4, FreeHeld
<1>9. calls' \in Nat /\ calls' = Cardinality(live')
  <2>1. IsFiniteSet(live) /\ calls \in Nat /\ calls = Cardinality(live)
    BY <1>1 DEF HeapInv, Held
  <2>2. /\ IsFiniteSet(live \ {x}) /\ Cardinality(live \ {x}) = Cardinality(live) - 1
    BY <2>1, FS_RemoveElement
  <2>3. Cardinality(live \ {x}) \in Nat BY <2>2, FS_CardinalityType
  <2> QED BY <1>3, <2>1, <2>2, <2>3
<1>10. Freeing(l, hdr)' BY <1>3, <1>4, <1>7 DEF Freeing
<1>11. Ordered(l, hdr', regions') BY <1>1, <1>3, <1>4, <1>6, MarkOrdered
<1> QED BY <1>1, <1>3, <1>4, <1>8, <1>9, <1>10, <1>11 DEF HeapInv

\* Two blocks of the list touch when the one behind follows and both are free.
LEMMA TouchUnmerged ==
  ASSUME NEW l, Listed(l, hdr, pages), NEW c \in 1..Len(l)
  PROVE  /\ Touches(hdr[l[c]].prev, l[c])
              <=> c > 1 /\ Unmerged(l, hdr, c - 1)
         /\ c > 1 => hdr[l[c]].prev = l[c - 1] /\ (c - 1) + 1 = c
         /\ Touches(l[c], hdr[l[c]].next) <=> Unmerged(l, hdr, c)
         /\ Unmerged(l, hdr, c) => hdr[l[c]].next = l[c + 1]
<1> DEFINE n == Len(l)
<1>0. n \in Nat /\ c \in 1..n /\ Linked(l, hdr) BY DEF Listed
<1>1. \A k \in 1..n : l[k] # NULL
  <2>1. \A k \in 1..n : l[k] \in Addr BY DEF Listed
  <2> QED BY <2>1, Addresses
<1>2. \A h : Stop(h) = End(hdr, h) BY DEF Stop, End
<1>3. hdr[l[c]].next = IF c = n THEN NULL ELSE l[c + 1] BY <1>0 DEF Linked
<1>4. hdr[l[c]].prev = IF c = 1 THEN NULL ELSE l[c - 1] BY <1>0 DEF Linked
<1> HIDE DEF n
<1>5. Touches(l[c], hdr[l[c]].next) <=> Unmerged(l, hdr, c)
  <2>1. CASE c = n
    <3>1. c \notin 1..(n - 1) BY <1>0, <2>1
    <3> QED BY <1>3, <2>1, <3>1 DEF Touches, Unmerged, n
  <2>2. CASE c # n
    <3>1. c \in 1..(n - 1) /\ c + 1 \in 1..n BY <1>0, <2>2
    <3> QED BY <1>0, <1>1, <1>2, <1>3, <2>2, <3>1 DEF Touches, Unmerged, n
  <2> QED BY <2>1, <2>2
<1>6. Unmerged(l, hdr, c) => hdr[l[c]].next = l[c + 1]
  <2> SUFFICES ASSUME Unmerged(l, hdr, c) PROVE c # n BY <1>3
  <2>1. c \in 1..(n - 1) BY DEF Unmerged, n
  <2> QED BY <1>0, <2>1
<1>7. Touches(hdr[l[c]].prev, l[c]) <=> c > 1 /\ Unmerged(l, hdr, c - 1)
  <2>1. CASE c = 1 BY <1>4, <2>1 DEF Touches
  <2>2. CASE c # 1
    <3>1. c - 1 \in 1..(n - 1) /\ c - 1 \in 1..n /\ (c - 1) + 1 = c /\ c > 1 BY <1>0, <2>2
    <3> QED BY <1>0, <1>1, <1>2, <1>4, <2>2, <3>1 DEF Touches, Unmerged, n
  <2> QED BY <2>1, <2>2
<1>8. c > 1 => hdr[l[c]].prev = l[c - 1] /\ (c - 1) + 1 = c BY <1>0, <1>4
<1> QED BY <1>5, <1>6, <1>7, <1>8

\* The first loop of kfree.
LEMMA MergePrevKeeps ==
  ASSUME HeapInv, MergePrev
  PROVE  HeapInv'
<1>1. PICK l \in Seq(Addr) :
        /\ l[1] = start /\ Listed(l, hdr, pages) /\ Held(l, hdr, live) /\ Freeing(l, hdr)
        /\ regions \subseteq Addr /\ Ordered(l, hdr, regions)
  BY DEF HeapInv
<1>2. pc = "prev" /\ UNCHANGED <<start, pages, regions, live, calls, pc>> BY DEF MergePrev
<1>3. PICK c \in 1..Len(l) : l[c] = cur BY <1>1, <1>2 DEF Freeing
<1>4. MergesBack(l, hdr, l[c]) BY <1>1, <1>2, <1>3 DEF Freeing
<1>5. Touches(hdr[l[c]].prev, l[c]) BY <1>3 DEF MergePrev, Prev
<1> DEFINE m == c - 1
           L == Removed(l, m)
<1>6. c > 1 /\ Unmerged(l, hdr, m) /\ hdr[l[c]].prev = l[m] /\ m + 1 = c
  BY <1>1, <1>5, TouchUnmerged
<1> HIDE DEF m
<1>7. hdr' = Joined(hdr, l[m], l[m + 1]) /\ cur' = l[m]
  BY <1>3, <1>6 DEF MergePrev, Prev, Survivor, Swallow, Gained, Joined
<1>8. Listed(L, hdr', pages) /\ JoinShape(l, hdr, hdr', m)
  BY <1>1, <1>6, <1>7, JoinListed
<1>9. MergesBack(L, hdr', l[m]) BY <1>1, <1>4, <1>6, <1>8, JoinMergesBack
<1>10. Held(L, hdr', live) BY <1>1, <1>6, <1>8, JoinHeld
<1>11. m \in 1..(Len(l) - 1) /\ Len(l) \in Nat BY <1>1, <1>6 DEF Unmerged
<1>12. /\ L \in Seq(Addr) /\ L[1] = start /\ m \in 1..Len(L) /\ L[m] = l[m]
  <2>1. L \in Seq(Addr) /\ Len(L) = Len(l) - 1 /\ \A i \in 1..m : L[i] = l[i]
    BY <1>1, <1>11, RemovedIs
  <2>2. 1 \in 1..m /\ m \in 1..m BY <1>11
  <2> HIDE DEF L
  <2> QED BY <1>1, <1>11, <2>1, <2>2
<1>13. hdr'[l[m]].status = "FREE" BY <1>8 DEF JoinShape
<1>14. PICK q \in Seq(Addr) : q = L BY <1>12
<1> HIDE DEF L
<1>15. Freeing(q, hdr)' BY <1>2, <1>7, <1>9, <1>12, <1>13, <1>14 DEF Freeing
<1>16. q[1] = start' /\ Listed(q, hdr', pages') /\ Held(q, hdr', live')
  BY <1>2, <1>8, <1>10, <1>12, <1>14
<1>18. regions' \subseteq Addr /\ Ordered(q, hdr', regions')
  BY <1>1, <1>2, <1>6, <1>8, <1>14, JoinOrdered DEF L
<1>17. calls' \in Nat /\ calls' = Cardinality(live') /\ pc' \in {"idle", "prev", "next"}
  BY <1>2 DEF HeapInv
<1> QED BY <1>15, <1>16, <1>17, <1>18 DEF HeapInv

\* It ends.
LEMMA PrevDoneKeeps ==
  ASSUME HeapInv, PrevDone
  PROVE  HeapInv'
<1>1. PICK l \in Seq(Addr) :
        /\ l[1] = start /\ Listed(l, hdr, pages) /\ Held(l, hdr, live) /\ Freeing(l, hdr)
        /\ regions \subseteq Addr /\ Ordered(l, hdr, regions)
  BY DEF HeapInv
<1>2. pc = "prev" /\ pc' = "next" /\ UNCHANGED <<hdr, start, pages, regions, live, calls, cur>>
  BY DEF PrevDone
<1>3. PICK c \in 1..Len(l) : l[c] = cur /\ hdr[cur].status = "FREE"
  BY <1>1, <1>2 DEF Freeing
<1>4. MergesBack(l, hdr, l[c]) BY <1>1, <1>2, <1>3 DEF Freeing
<1>5. ~ Touches(hdr[l[c]].prev, l[c]) BY <1>3 DEF PrevDone, Prev
<1>6. c > 1 => ~ Unmerged(l, hdr, c - 1) BY <1>1, <1>5, TouchUnmerged
<1>7. MergesOn(l, hdr, l[c]) BY <1>1, <1>3, <1>4, <1>6, BackIsDone
<1>8. Freeing(l, hdr)' BY <1>2, <1>3, <1>7 DEF Freeing
<1>9. calls' \in Nat /\ calls' = Cardinality(live') /\ pc' \in {"idle", "prev", "next"}
  BY <1>2 DEF HeapInv
<1> QED BY <1>1, <1>2, <1>8, <1>9 DEF HeapInv

\* The second loop.
LEMMA MergeNextKeeps ==
  ASSUME HeapInv, MergeNext
  PROVE  HeapInv'
<1>1. PICK l \in Seq(Addr) :
        /\ l[1] = start /\ Listed(l, hdr, pages) /\ Held(l, hdr, live) /\ Freeing(l, hdr)
        /\ regions \subseteq Addr /\ Ordered(l, hdr, regions)
  BY DEF HeapInv
<1>2. pc = "next" /\ UNCHANGED <<start, pages, regions, live, calls, pc, cur>> BY DEF MergeNext
<1>3. PICK m \in 1..Len(l) : l[m] = cur BY <1>1, <1>2 DEF Freeing
<1>4. MergesOn(l, hdr, l[m]) BY <1>1, <1>2, <1>3 DEF Freeing
<1>5. Touches(l[m], hdr[l[m]].next) BY <1>3 DEF MergeNext, MergesNext
<1> DEFINE L == Removed(l, m)
<1>6. Unmerged(l, hdr, m) /\ hdr[l[m]].next = l[m + 1]
  BY <1>1, <1>5, TouchUnmerged
<1>7. hdr' = Joined(hdr, l[m], l[m + 1])
  BY <1>3, <1>6 DEF MergeNext, Swallow, Gained, Joined
<1>8. Listed(L, hdr', pages) /\ JoinShape(l, hdr, hdr', m)
  BY <1>1, <1>6, <1>7, JoinListed
<1>9. MergesOn(L, hdr', l[m]) BY <1>1, <1>4, <1>6, <1>8, JoinMergesOn
<1>10. Held(L, hdr', live) BY <1>1, <1>6, <1>8, JoinHeld
<1>11. m \in 1..(Len(l) - 1) /\ Len(l) \in Nat BY <1>1, <1>6 DEF Unmerged
<1>12. /\ L \in Seq(Addr) /\ L[1] = start /\ m \in 1..Len(L) /\ L[m] = l[m]
  <2>1. L \in Seq(Addr) /\ Len(L) = Len(l) - 1 /\ \A i \in 1..m : L[i] = l[i]
    BY <1>1, <1>11, RemovedIs
  <2>2. 1 \in 1..m /\ m \in 1..m BY <1>11
  <2> HIDE DEF L
  <2> QED BY <1>1, <1>11, <2>1, <2>2
<1>13. hdr'[l[m]].status = "FREE" BY <1>8 DEF JoinShape
<1>17. regions' \subseteq Addr /\ Ordered(L, hdr', regions')
  BY <1>1, <1>2, <1>6, <1>8, JoinOrdered
<1> HIDE DEF L
<1>14. Freeing(L, hdr)' BY <1>2, <1>3, <1>9, <1>12, <1>13 DEF Freeing, L
<1>15. L[1] = start' /\ Listed(L, hdr', pages') /\ Held(L, hdr', live')
  BY <1>2, <1>8, <1>10, <1>12
<1>16. calls' \in Nat /\ calls' = Cardinality(live') /\ pc' \in {"idle", "prev", "next"}
  BY <1>2 DEF HeapInv
<1> QED BY <1>12, <1>14, <1>15, <1>16, <1>17 DEF HeapInv, L

\* kfree has done.
LEMMA NextDoneKeeps ==
  ASSUME HeapInv, NextDone
  PROVE  HeapInv'
<1>1. PICK l \in Seq(Addr) :
        /\ l[1] = start /\ Listed(l, hdr, pages) /\ Held(l, hdr, live) /\ Freeing(l, hdr)
        /\ regions \subseteq Addr /\ Ordered(l, hdr, regions)
  BY DEF HeapInv
<1>2. /\ pc = "next" /\ pc' = "idle" /\ cur' = NULL
      /\ UNCHANGED <<hdr, start, pages, regions, live, calls>>
  BY DEF NextDone
<1>3. PICK c \in 1..Len(l) : l[c] = cur BY <1>1, <1>2 DEF Freeing
<1>4. MergesOn(l, hdr, l[c]) BY <1>1, <1>2, <1>3 DEF Freeing
<1>5. ~ Touches(l[c], hdr[l[c]].next) BY <1>3 DEF NextDone, MergesNext
<1>6. ~ Unmerged(l, hdr, c) BY <1>1, <1>5, TouchUnmerged
<1>7. Settled(l, hdr) BY <1>1, <1>4, <1>6, OnIsDone
<1>8. calls' \in Nat /\ calls' = Cardinality(live') BY <1>2 DEF HeapInv
<1> QED BY <1>1, <1>2, <1>7, <1>8, Rests

\* Every step keeps the invariant.
LEMMA NextKeeps ==
  ASSUME RoomBehind, CleanPages, HeapInv, [Next]_vars
  PROVE  HeapInv'
<1>1. ASSUME NEW n \in Sizes, TakeExact(n) PROVE HeapInv' BY <1>1, TakeExactKeeps
<1>2. ASSUME NEW n \in Sizes, TakeSplit(n) PROVE HeapInv' BY <1>2, TakeSplitKeeps
<1>3. ASSUME NEW n \in Sizes, Grow(n) PROVE HeapInv' BY <1>3, GrowKeeps
<1>4. ASSUME NEW n \in Sizes, GrowFails(n) PROVE HeapInv'
  BY <1>4, StutterKeeps DEF GrowFails
<1>5. ASSUME NEW x \in live, Free(x) PROVE HeapInv' BY <1>5, FreeKeeps
<1>6. CASE MergePrev BY <1>6, MergePrevKeeps
<1>7. CASE PrevDone BY <1>7, PrevDoneKeeps
<1>8. CASE MergeNext BY <1>8, MergeNextKeeps
<1>9. CASE NextDone BY <1>9, NextDoneKeeps
<1>10. CASE UNCHANGED vars BY <1>10, StutterKeeps
<1> QED BY <1>1, <1>2, <1>3, <1>4, <1>5, <1>6, <1>7, <1>8, <1>9, <1>10
        DEF Next, Kmalloc, Merging

------------------------------------------------------------------------------
(***************************************************************************)
(* What the invariant says of the properties.                              *)

\* Memory has its type.
LEMMA Typed == HeapInv => TypeOK
<1> SUFFICES ASSUME HeapInv PROVE TypeOK OBVIOUS
<1>1. PICK l \in Seq(Addr) :
        /\ l[1] = start /\ Listed(l, hdr, pages) /\ Held(l, hdr, live) /\ Freeing(l, hdr)
        /\ regions \subseteq Addr /\ Ordered(l, hdr, regions)
  BY DEF HeapInv
<1>2. hdr \in [Addr -> Header] /\ pages \subseteq Space /\ Len(l) \in Nat /\ Len(l) >= 1
  BY <1>1 DEF Listed
<1>3. start \in Addr
  <2>1. 1 \in 1..Len(l) BY <1>2
  <2> QED BY <1>1, <2>1
<1>4. ASSUME NEW a \in Addr
      PROVE  hdr[a] \in [size : 0..(AddressSpace - 1), status : {"none", "FREE", "USED"},
                         next : Addr \cup {NULL}, prev : Addr \cup {NULL}]
  <2>1. hdr[a] \in Header BY <1>2
  <2>2. hdr[a].size \in 0..(AddressSpace - 1)
    <3>1. CASE \E k \in 1..Len(l) : l[k] = a
      <4>1. PICK k \in 1..Len(l) : l[k] = a BY <3>1
      <4>2. /\ a \in Nat /\ hdr[a].size \in Nat /\ AddressSpace \in Nat
            /\ End(hdr, a) = a + 2 + hdr[a].size /\ End(hdr, a) <= AddressSpace
        BY <1>1, <4>1, Block
      <4> QED BY <4>2
    <3>2. CASE ~ \E k \in 1..Len(l) : l[k] = a
      <4>1. hdr[a] = NoHeader BY <1>1, <3>2 DEF Listed, Clean
      <4>2. hdr[a].size = 0 BY <4>1 DEF NoHeader
      <4>3. a < AddressSpace /\ a \in Nat /\ AddressSpace \in Nat
        BY Addresses, HeapAssumption
      <4> QED BY <4>2, <4>3
    <3> QED BY <3>1, <3>2
  <2> QED BY <2>1, <2>2 DEF Header
<1>5. hdr \in [Addr -> [size : 0..(AddressSpace - 1), status : {"none", "FREE", "USED"},
                        next : Addr \cup {NULL}, prev : Addr \cup {NULL}]]
  BY <1>2, <1>4
<1>6. live \in SUBSET [addr : Nat, bytes : Nat] BY <1>1 DEF Held
<1>7. calls \in Nat /\ pc \in {"idle", "prev", "next"} BY DEF HeapInv
<1>8. cur \in Addr \cup {NULL} /\ (pc # "idle" => hdr[cur].status = "FREE")
  <2>1. CASE pc = "idle" BY <1>1, <2>1 DEF Freeing
  <2>2. CASE pc # "idle"
    <3>1. PICK k \in 1..Len(l) : l[k] = cur /\ hdr[cur].status = "FREE"
      BY <1>1, <2>2 DEF Freeing
    <3>2. l[k] \in Addr BY <1>2
    <3> QED BY <3>1, <3>2
  <2> QED BY <2>1, <2>2
<1>9. regions \in SUBSET Addr BY <1>1
<1> QED BY <1>2, <1>3, <1>5, <1>6, <1>7, <1>8, <1>9 DEF TypeOK

\* The list is linked and has what callers hold.
LEMMA Links == HeapInv => ListLinked
<1> SUFFICES ASSUME HeapInv PROVE ListLinked OBVIOUS
<1>1. PICK l \in Seq(Addr) : l[1] = start /\ Listed(l, hdr, pages) /\ Held(l, hdr, live)
  BY DEF HeapInv
<1> DEFINE n == Len(l)
<1>2. List = l /\ n \in Nat /\ n >= 1 /\ Linked(l, hdr) BY <1>1, ListIs DEF Listed
<1>3. Blocks = {l[k] : k \in 1..n} BY <1>2 DEF Blocks
<1>4. \A j, k \in 1..n : j # k => l[j] # l[k] BY <1>1, Once
<1>5. hdr[start].prev = NULL /\ hdr[l[n]].next = NULL
  <2>1. 1 \in 1..n /\ n \in 1..n
    <3> HIDE DEF n
    <3> QED BY <1>2
  <2> QED BY <1>1, <1>2, <2>1 DEF Linked
<1>6. \A k \in 2..n : hdr[l[k]].prev = l[k - 1]
  <2> TAKE k \in 2..n
  <2>1. k \in 1..n /\ k # 1
    <3> HIDE DEF n
    <3> QED BY <1>2
  <2> QED BY <1>2, <2>1 DEF Linked
<1>7. HEADER = 2 BY Addresses
<1>8. \A x \in live : \E k \in 1..n :
        /\ x.addr - HEADER = l[k] /\ hdr[l[k]].status = "USED"
        /\ x.bytes <= 8 * hdr[l[k]].size
  BY <1>1 DEF Held
<1>9. ASSUME NEW h \in Blocks, hdr[h].status = "USED"
      PROVE  \E x \in live : h = x.addr - HEADER
  <2>1. PICK k \in 1..n : h = l[k] BY <1>3
  <2>2. PICK x \in live : x.addr = l[k] + HEADER BY <1>1, <1>9, <2>1 DEF Held
  <2>3. l[k] \in Nat BY <1>1, Block
  <2>4. l[k] = x.addr - HEADER BY <1>7, <2>2, <2>3
  <2> QED BY <2>1, <2>4
<1> HIDE DEF n
<1>10. {h \in Blocks : hdr[h].status = "USED"} = {x.addr - HEADER : x \in live}
  BY <1>3, <1>8, <1>9
<1>11. \A x \in live : 8 * hdr[x.addr - HEADER].size >= x.bytes
  <2> TAKE x \in live
  <2>1. PICK k \in 1..n : x.addr - HEADER = l[k] /\ x.bytes <= 8 * hdr[l[k]].size BY <1>8
  <2>2. hdr[l[k]].size \in Nat BY <1>1, Block DEF n
  <2>3. x \in [addr : Nat, bytes : Nat] BY <1>1 DEF Held
  <2>4. x.bytes \in Nat BY <2>3
  <2>5. 8 * hdr[l[k]].size >= x.bytes BY <2>1, <2>2, <2>4
  <2> QED BY <2>1, <2>5
<1>12. Cardinality(live) = calls BY DEF HeapInv
<1> QED BY <1>2, <1>4, <1>5, <1>6, <1>10, <1>11, <1>12 DEF ListLinked, n

\* The blocks have each unit of the heap's pages once, and no other unit.
LEMMA Tiles == HeapInv => BlocksTile
<1> SUFFICES ASSUME HeapInv, NEW a \in Addr
             PROVE  Cardinality({h \in Blocks : a \in Span(h)})
                    = IF a \in Units(pages) THEN 1 ELSE 0
  BY DEF BlocksTile, Units
<1>1. PICK l \in Seq(Addr) : l[1] = start /\ Listed(l, hdr, pages)
  BY DEF HeapInv
<1> DEFINE n == Len(l)
           S == {h \in Blocks : a \in Span(h)}
<1>2. Blocks = {l[k] : k \in 1..n}
  <2>1. List = l BY <1>1, ListIs
  <2> QED BY <2>1 DEF Blocks
<1>3. \A h : Span(h) = h .. (End(hdr, h) - 1) BY DEF Span, Stop, End
<1>4. \A k \in 1..n : a \in l[k] .. (End(hdr, l[k]) - 1) => a \in Units(pages)
  BY <1>1 DEF Listed, Within
<1>5. CASE a \in Units(pages)
  <2>1. PICK k \in 1..n : a \in l[k] .. (End(hdr, l[k]) - 1) BY <1>1, <1>5 DEF Listed, Covers
  <2>2. ASSUME NEW j \in 1..n, a \in l[j] .. (End(hdr, l[j]) - 1) PROVE j = k
    <3>1. j # k => End(hdr, l[j]) <= l[k] \/ End(hdr, l[k]) <= l[j]
      BY <1>1 DEF Listed, Apart
    <3>2. /\ l[j] \in Nat /\ End(hdr, l[j]) \in Nat /\ l[k] \in Nat /\ End(hdr, l[k]) \in Nat
      BY <1>1, Block
    <3>3. a \in Nat BY Addresses
    <3> QED BY <2>1, <2>2, <3>1, <3>2, <3>3
  <2>3. S = {l[k]}
    <3> HIDE DEF n
    <3> QED BY <1>2, <1>3, <2>1, <2>2
  <2>4. Cardinality({l[k]}) = 1 BY FS_Singleton
  <2> QED BY <1>5, <2>3, <2>4
<1>6. CASE a \notin Units(pages)
  <2>1. S = {} BY <1>2, <1>3, <1>4, <1>6
  <2> QED BY <1>6, <2>1, FS_EmptySet
<1> QED BY <1>5, <1>6

\* With nothing held a free block that touches the next one would reach a used
\* block, and there is none.
LEMMA Merges == HeapInv => MergedWhenFree
<1> SUFFICES ASSUME HeapInv, pc = "idle", live = {} PROVE MergedWhenFree
  BY DEF MergedWhenFree
<1>1. PICK l \in Seq(Addr) :
        /\ l[1] = start /\ Listed(l, hdr, pages) /\ Held(l, hdr, live) /\ Freeing(l, hdr)
        /\ Ordered(l, hdr, regions)
  BY DEF HeapInv
<1>2. List = l /\ Len(l) \in Nat BY <1>1, ListIs
<1>3. Settled(l, hdr) BY <1>1 DEF Freeing
<1>4. \A k \in 1..Len(l) : hdr[l[k]].status = "FREE"
  <2> TAKE k \in 1..Len(l)
  <2>1. hdr[l[k]].status \in {"FREE", "USED"} BY <1>1 DEF Listed, Linked
  <2>2. hdr[l[k]].status # "USED" BY <1>1 DEF Held
  <2> QED BY <2>1, <2>2
<1>5. ASSUME NEW k \in 2..Len(l), End(hdr, l[k - 1]) = l[k] PROVE FALSE
  <2>1. k - 1 \in 1..(Len(l) - 1) /\ k - 1 \in 1..Len(l) /\ (k - 1) + 1 = k /\ k \in 1..Len(l)
    BY <1>2
  <2>2. Unmerged(l, hdr, k - 1) BY <1>4, <1>5, <2>1 DEF Unmerged
  <2>3. Reaches(l, hdr, k - 1, {}) BY <1>3, <2>1, <2>2 DEF Settled
  <2>4. PICK j \in k..Len(l) : hdr[l[j]].status = "USED" BY <2>1, <2>3 DEF Reaches
  <2>5. j \in 1..Len(l) BY <1>2
  <2> QED BY <1>4, <2>4, <2>5
<1>6. ASSUME NEW k \in 1..Len(l) PROVE l[k] \in regions
  <2> SUFFICES ASSUME l[k] \notin regions PROVE FALSE OBVIOUS
  <2>1. k > 1 /\ End(hdr, l[k - 1]) = l[k] BY <1>1 DEF Ordered
  <2>2. k \in 2..Len(l) BY <1>2, <2>1
  <2> QED BY <1>5, <2>1, <2>2
<1>7. \A k \in 2..Len(l) : Stop(l[k - 1]) # l[k] BY <1>5 DEF Stop, End
<1> QED BY <1>2, <1>6, <1>7 DEF MergedWhenFree

\* The bytes callers hold.
Holds(L) == {[addr |-> 8 * x.addr, size |-> x.bytes] : x \in L}
BytesOf(x) == 8 * x.addr .. (8 * x.addr + x.bytes - 1)

\* They are bytes of the heap's pages, and no two callers have one in common.
LEMMA LiveApart ==
  ASSUME NEW l, NEW H, NEW P, Listed(l, H, P), NEW V, Held(l, H, V)
  PROVE  /\ \A x \in V : BytesOf(x) \subseteq {8 * a + k : a \in Addr, k \in 0..7}
         /\ \A x, y \in V : x # y =>
              8 * x.addr # 8 * y.addr /\ BytesOf(x) \cap BytesOf(y) = {}
<1>0. HEADER = 2 BY Addresses
<1>1. ASSUME NEW x \in V
      PROVE  /\ x.addr \in Nat /\ x.bytes \in Nat
             /\ \E k \in 1..Len(l) :
                  /\ l[k] = x.addr - 2 /\ l[k] \in Nat /\ End(H, l[k]) \in Nat
                  /\ \A b \in BytesOf(x) : b \in Nat /\ 8 * x.addr <= b /\ b < 8 * End(H, l[k])
                  /\ \A a \in l[k] .. (End(H, l[k]) - 1) : a \in Addr
  <2>1. x \in [addr : Nat, bytes : Nat] BY DEF Held
  <2>2. x.addr \in Nat /\ x.bytes \in Nat BY <2>1
  <2>3. PICK k \in 1..Len(l) : l[k] = x.addr - HEADER /\ x.bytes <= 8 * H[l[k]].size
    BY DEF Held
  <2>4. /\ l[k] \in Nat /\ H[l[k]].size \in Nat /\ End(H, l[k]) = l[k] + 2 + H[l[k]].size
        /\ End(H, l[k]) \in Nat /\ \A a \in l[k] .. (End(H, l[k]) - 1) : a \in Addr
    BY Block
  <2>5. \A b \in BytesOf(x) : b \in Nat /\ 8 * x.addr <= b /\ b < 8 * End(H, l[k])
    <3> DEFINE s == H[l[k]].size
               e == End(H, l[k])
               p == x.addr
               w == x.bytes
    <3>1. /\ s \in Nat /\ e \in Nat /\ p \in Nat /\ w \in Nat /\ w <= 8 * s /\ e = p + s
      BY <1>0, <2>2, <2>3, <2>4
    <3>2. BytesOf(x) = 8 * p .. (8 * p + w - 1) BY DEF BytesOf
    <3> HIDE DEF s, e, p, w
    <3>3. \A b \in 8 * p .. (8 * p + w - 1) : b \in Nat /\ 8 * p <= b /\ b < 8 * e BY <3>1
    <3> QED BY <3>2, <3>3 DEF p, e
  <2> QED BY <1>0, <2>2, <2>3, <2>4, <2>5
<1>2. ASSUME NEW x \in V, NEW b \in BytesOf(x)
      PROVE  \E a \in Addr, k \in 0..7 : b = 8 * a + k
  <2>1. PICK k \in 1..Len(l) :
          /\ l[k] = x.addr - 2 /\ l[k] \in Nat /\ End(H, l[k]) \in Nat
          /\ b \in Nat /\ 8 * x.addr <= b /\ b < 8 * End(H, l[k])
          /\ \A a \in l[k] .. (End(H, l[k]) - 1) : a \in Addr
    BY <1>1
  <2>2. x.addr \in Nat BY <1>1
  <2> DEFINE h == l[k]
             e == End(H, h)
             p == x.addr
  <2>3. /\ h \in Nat /\ e \in Nat /\ p \in Nat /\ h = p - 2
        /\ b \in Nat /\ 8 * p <= b /\ b < 8 * e
    BY <2>1, <2>2
  <2> HIDE DEF h, e, p
  <2>4. /\ b \div 8 \in h .. (e - 1) /\ b % 8 \in 0..7 /\ b = 8 * (b \div 8) + (b % 8)
    BY <2>3
  <2>5. b \div 8 \in Addr BY <2>1, <2>4 DEF h, e
  <2> QED BY <2>4, <2>5
<1>3. ASSUME NEW x \in V, NEW y \in V, x # y
      PROVE  8 * x.addr # 8 * y.addr /\ BytesOf(x) \cap BytesOf(y) = {}
  <2>1. PICK j \in 1..Len(l) :
          /\ l[j] = x.addr - 2 /\ l[j] \in Nat /\ End(H, l[j]) \in Nat
          /\ \A b \in BytesOf(x) : b \in Nat /\ 8 * x.addr <= b /\ b < 8 * End(H, l[j])
    BY <1>1
  <2>2. PICK k \in 1..Len(l) :
          /\ l[k] = y.addr - 2 /\ l[k] \in Nat /\ End(H, l[k]) \in Nat
          /\ \A b \in BytesOf(y) : b \in Nat /\ 8 * y.addr <= b /\ b < 8 * End(H, l[k])
    BY <1>1
  <2>3. x.addr # y.addr /\ x.addr \in Nat /\ y.addr \in Nat BY <1>1, <1>3 DEF Held
  <2>4. j # k BY <2>1, <2>2, <2>3
  <2>5. End(H, l[j]) <= l[k] \/ End(H, l[k]) <= l[j] BY <2>4 DEF Listed, Apart
  <2> SUFFICES ASSUME NEW b \in BytesOf(x), b \in BytesOf(y) PROVE FALSE BY <2>3
  <2> DEFINE p == x.addr
             q == y.addr
             d == End(H, l[j])
             e == End(H, l[k])
  <2>6. /\ p \in Nat /\ q \in Nat /\ d \in Nat /\ e \in Nat /\ b \in Nat
        /\ 8 * p <= b /\ b < 8 * d /\ 8 * q <= b /\ b < 8 * e
        /\ d <= q - 2 \/ e <= p - 2
    BY <2>1, <2>2, <2>3, <2>5
  <2> HIDE DEF p, q, d, e
  <2> QED BY <2>6
<1> QED BY <1>2, <1>3

\* A step hands out one block, takes one back, or neither.
LEMMA Deals ==
  ASSUME [Next]_vars
  PROVE  \/ UNCHANGED live
         \/ \E x : live' = live \cup {x}
         \/ \E x \in live : live' = live \ {x}
<1>1. ASSUME NEW n \in Sizes, Kmalloc(n) PROVE UNCHANGED live \/ \E x : live' = live \cup {x}
  BY <1>1 DEF Kmalloc, TakeExact, TakeSplit, Grow, GrowFails, Hand, vars
<1>2. ASSUME NEW x \in live, Free(x) PROVE live' = live \ {x} BY <1>2 DEF Free
<1>3. ASSUME Merging PROVE UNCHANGED live
  BY <1>3 DEF Merging, MergePrev, PrevDone, MergeNext, NextDone
<1>4. CASE UNCHANGED vars BY <1>4 DEF vars
<1> QED BY <1>1, <1>2, <1>3, <1>4 DEF Next

\* Each step is a step of RangeAllocator or leaves what is held as it is.
LEMMA StepRefines ==
  ASSUME HeapInv, HeapInv', [Next]_vars
  PROVE  [Bytes!Next]_(Holds(live))
<1>1. CASE UNCHANGED live BY <1>1 DEF Holds
<1>2. CASE \E x : live' = live \cup {x} /\ x \notin live
  <2>1. PICK x : live' = live \cup {x} /\ x \notin live BY <1>2
  <2>2. PICK l : Listed(l, hdr', pages') /\ Held(l, hdr', live') BY DEF HeapInv
  <2>3. /\ BytesOf(x) \subseteq {8 * a + k : a \in Addr, k \in 0..7}
        /\ \A y \in live : 8 * y.addr # 8 * x.addr /\ BytesOf(y) \cap BytesOf(x) = {}
    BY <2>1, <2>2, LiveApart
  <2> DEFINE r == [addr |-> 8 * x.addr, size |-> x.bytes]
  <2>4. Holds(live)' = Holds(live) \cup {r} BY <2>1 DEF Holds
  <2>5. \A q \in Holds(live) : q.addr # r.addr /\ Bytes!Units(q) \cap Bytes!Units(r) = {}
    <3> TAKE q \in Holds(live)
    <3>1. PICK y \in live : q = [addr |-> 8 * y.addr, size |-> y.bytes] BY DEF Holds
    <3>2. Bytes!Units(q) = BytesOf(y) /\ Bytes!Units(r) = BytesOf(x) /\ q.addr = 8 * y.addr
      BY <3>1 DEF Bytes!Units, BytesOf
    <3> QED BY <2>3, <3>2
  <2>6. Bytes!Units(r) \subseteq {8 * a + k : a \in Addr, k \in 0..7}
    BY <2>3 DEF Bytes!Units, BytesOf
  <2>7. r \notin Holds(live) BY <2>5
  <2> HIDE DEF r
  <2>8. Bytes!Alloc(r) BY <2>4, <2>5, <2>6 DEF Bytes!Alloc, Holds
  <2>9. \E q \in Holds(live)' \ Holds(live) : Bytes!Alloc(q)
    BY <2>4, <2>7, <2>8 DEF Bytes!Alloc
  <2> QED BY <2>9 DEF Bytes!Next, Holds
<1>3. CASE \E x \in live : live' = live \ {x}
  <2>1. PICK x \in live : live' = live \ {x} BY <1>3
  <2>2. PICK l : Listed(l, hdr, pages) /\ Held(l, hdr, live) BY DEF HeapInv
  <2> DEFINE r == [addr |-> 8 * x.addr, size |-> x.bytes]
  <2>3. r \in Holds(live) BY DEF Holds
  <2>4. Holds(live)' = Holds(live) \ {r}
    <3>1. \A y \in live : y # x => 8 * y.addr # 8 * x.addr BY <2>2, LiveApart
    <3>2. \A y \in live : y # x => [addr |-> 8 * y.addr, size |-> y.bytes] # r BY <3>1
    <3> QED BY <2>1, <3>2 DEF Holds
  <2> HIDE DEF r
  <2>5. Bytes!Free(r) BY <2>4 DEF Bytes!Free, Holds
  <2> QED BY <2>3, <2>5 DEF Bytes!Next, Holds
<1>4. \/ UNCHANGED live
      \/ \E x : live' = live \cup {x} /\ x \notin live
      \/ \E x \in live : live' = live \ {x}
  <2>1. ASSUME NEW x, live' = live \cup {x}, x \in live PROVE UNCHANGED live BY <2>1
  <2> QED BY <2>1, Deals
<1> QED BY <1>1, <1>2, <1>3, <1>4

------------------------------------------------------------------------------
(***************************************************************************)
(* Theorems.                                                               *)

\* The list that the invariant speaks of is there in every state, also between
\* the steps of kfree.
THEOREM HeapInvariant == ASSUME RoomBehind, CleanPages PROVE Spec => []HeapInv
<1>1. Init => HeapInv BY InitHeap
<1>2. HeapInv /\ [Next]_vars => HeapInv' BY NextKeeps
<1> QED BY <1>1, <1>2, PTL DEF Spec

\* Sizes and addresses do not wrap, and kfree works on a free block of the
\* list.
THEOREM TypesKept == ASSUME RoomBehind, CleanPages PROVE Spec => []TypeOK
BY HeapInvariant, Typed, PTL

\* kmalloc and kfree leave a list that is linked both ways, has each block once,
\* and whose used blocks are what callers hold.
THEOREM ListKept == ASSUME RoomBehind, CleanPages PROVE Spec => []ListLinked
BY HeapInvariant, Links, PTL

\* Headers and payloads tile the heap's pages: no block reaches into another,
\* and no byte is lost.
THEOREM TilesKept == ASSUME RoomBehind, CleanPages PROVE Spec => []BlocksTile
BY HeapInvariant, Tiles, PTL

\* Once everything is freed, in whichever order, each block begins where a
\* region of alloc_block begins and none where the one before it in the list
\* ends: without growth the heap is one block again.
THEOREM Merged == ASSUME RoomBehind, CleanPages PROVE Spec => []MergedWhenFree
BY HeapInvariant, Merges, PTL

\* kmalloc and kfree implement an allocator of ranges of bytes.
THEOREM Implements == ASSUME RoomBehind, CleanPages PROVE Spec => RangeAllocatorSpec
<1>1. Init => Bytes!Init BY DEF Init, Bytes!Init
<1>2. HeapInv /\ HeapInv' /\ [Next]_vars
        => [Bytes!Next]_({[addr |-> 8 * x.addr, size |-> x.bytes] : x \in live})
  BY StepRefines DEF Holds
<1> QED BY <1>1, <1>2, HeapInvariant, PTL DEF Spec, RangeAllocatorSpec, Bytes!Spec
=============================================================================
