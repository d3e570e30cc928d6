------------------------------ MODULE Ps2_proofs ------------------------------
(***************************************************************************)
(* Theorems about Ps2, for every configuration byte and every unread byte  *)
(* the firmware may leave and all that may be at the two ports: with       *)
(* answers that come late nothing is taken for a keyboard that is none,    *)
(* with prompt answers every keyboard is found and set up.                 *)
(***************************************************************************)
EXTENDS Ps2, SequenceTheorems, FiniteSetTheorems, WellFoundedInduction, TLAPS

------------------------------------------------------------------------------
(***************************************************************************)
(* Bytes.                                                                  *)

Msg == [from : Port \cup {Controller}, val : 0..255]

\* The bits of a sum of distinct powers of two are those powers.
LEMMA BitsOfSum ==
  ASSUME NEW a \in 0..1, NEW b \in 0..1, NEW c \in 0..1, NEW d \in 0..1,
         NEW e \in 0..1, NEW f \in 0..1, NEW g \in 0..1, NEW h \in 0..1
  PROVE  LET v == a + 2 * b + 4 * c + 8 * d + 16 * e + 32 * f + 64 * g + 128 * h
         IN /\ v \in 0..255
            /\ (v \div 1) % 2 = a /\ (v \div 2) % 2 = b /\ (v \div 4) % 2 = c
            /\ (v \div 8) % 2 = d /\ (v \div 16) % 2 = e /\ (v \div 32) % 2 = f
            /\ (v \div 64) % 2 = g /\ (v \div 128) % 2 = h
<1> DEFINE v == a + 2 * b + 4 * c + 8 * d + 16 * e + 32 * f + 64 * g + 128 * h
<1>1. v \in 0..255 OBVIOUS
<1>2. (v \div 1) % 2 = a OBVIOUS
<1>3. (v \div 2) % 2 = b OBVIOUS
<1>4. (v \div 4) % 2 = c OBVIOUS
<1>5. (v \div 8) % 2 = d OBVIOUS
<1>6. (v \div 16) % 2 = e OBVIOUS
<1>7. (v \div 32) % 2 = f OBVIOUS
<1>8. (v \div 64) % 2 = g OBVIOUS
<1>9. (v \div 128) % 2 = h OBVIOUS
<1> QED BY <1>1, <1>2, <1>3, <1>4, <1>5, <1>6, <1>7, <1>8, <1>9

\* What each bit of a byte is worth.
LEMMA Weights == /\ Weight[1] = 1 /\ Weight[2] = 2 /\ Weight[3] = 4 /\ Weight[4] = 8
                 /\ Weight[5] = 16 /\ Weight[6] = 32 /\ Weight[7] = 64 /\ Weight[8] = 128
<1> QED BY DEF Weight

\* Membership in Bits, bit by bit.
LEMMA BitsAre ==
  ASSUME NEW v
  PROVE  /\ Bits(v) \subseteq Bit
         /\ 0 \in Bits(v) <=> (v \div 1) % 2 = 1
         /\ 1 \in Bits(v) <=> (v \div 2) % 2 = 1
         /\ 2 \in Bits(v) <=> (v \div 4) % 2 = 1
         /\ 3 \in Bits(v) <=> (v \div 8) % 2 = 1
         /\ 4 \in Bits(v) <=> (v \div 16) % 2 = 1
         /\ 5 \in Bits(v) <=> (v \div 32) % 2 = 1
         /\ 6 \in Bits(v) <=> (v \div 64) % 2 = 1
         /\ 7 \in Bits(v) <=> (v \div 128) % 2 = 1
<1>1. Bits(v) \subseteq Bit BY DEF Bits
<1>2. \A i \in Bit : i \in Bits(v) <=> (v \div Weight[i + 1]) % 2 = 1 BY DEF Bits
<1>3. /\ 0 \in Bit /\ 1 \in Bit /\ 2 \in Bit /\ 3 \in Bit /\ 4 \in Bit /\ 5 \in Bit
      /\ 6 \in Bit /\ 7 \in Bit BY DEF Bit
<1>4. /\ 0 \in Bits(v) <=> (v \div Weight[0 + 1]) % 2 = 1
      /\ 1 \in Bits(v) <=> (v \div Weight[1 + 1]) % 2 = 1
      /\ 2 \in Bits(v) <=> (v \div Weight[2 + 1]) % 2 = 1
      /\ 3 \in Bits(v) <=> (v \div Weight[3 + 1]) % 2 = 1
      /\ 4 \in Bits(v) <=> (v \div Weight[4 + 1]) % 2 = 1
      /\ 5 \in Bits(v) <=> (v \div Weight[5 + 1]) % 2 = 1
      /\ 6 \in Bits(v) <=> (v \div Weight[6 + 1]) % 2 = 1
      /\ 7 \in Bits(v) <=> (v \div Weight[7 + 1]) % 2 = 1
  BY <1>2, <1>3, Zenon
<1>5. /\ Weight[0 + 1] = 1 /\ Weight[1 + 1] = 2 /\ Weight[2 + 1] = 4 /\ Weight[3 + 1] = 8
      /\ Weight[4 + 1] = 16 /\ Weight[5 + 1] = 32 /\ Weight[6 + 1] = 64
      /\ Weight[7 + 1] = 128
  BY Weights
<1> QED BY <1>1, <1>4, <1>5

\* A set of bits makes a byte that has those bits.
LEMMA ByteIs ==
  ASSUME NEW S \in SUBSET Bit
  PROVE  Byte(S) \in 0..255 /\ Bits(Byte(S)) = S
<1> DEFINE B(i) == IF i \in S THEN 1 ELSE 0
           v == B(0) + 2 * B(1) + 4 * B(2) + 8 * B(3) + 16 * B(4) + 32 * B(5)
                + 64 * B(6) + 128 * B(7)
<1>1. \A i \in Bit : B(i) \in 0..1 /\ (B(i) = 1 <=> i \in S) OBVIOUS
<1>2. /\ Value(S, 0) = B(0) /\ Value(S, 1) = 2 * B(1) /\ Value(S, 2) = 4 * B(2)
      /\ Value(S, 3) = 8 * B(3) /\ Value(S, 4) = 16 * B(4) /\ Value(S, 5) = 32 * B(5)
      /\ Value(S, 6) = 64 * B(6) /\ Value(S, 7) = 128 * B(7)
  <2>1. ASSUME NEW i \in Bit PROVE Value(S, i) = Weight[i + 1] * B(i)
    <3>1. Weight[i + 1] \in Int BY Weights DEF Bit
    <3> QED BY <3>1 DEF Value
  <2>2. /\ 0 \in Bit /\ 1 \in Bit /\ 2 \in Bit /\ 3 \in Bit /\ 4 \in Bit /\ 5 \in Bit
        /\ 6 \in Bit /\ 7 \in Bit BY DEF Bit
  <2> HIDE DEF B
  <2>3. /\ Value(S, 0) = Weight[0 + 1] * B(0) /\ Value(S, 1) = Weight[1 + 1] * B(1)
        /\ Value(S, 2) = Weight[2 + 1] * B(2) /\ Value(S, 3) = Weight[3 + 1] * B(3)
        /\ Value(S, 4) = Weight[4 + 1] * B(4) /\ Value(S, 5) = Weight[5 + 1] * B(5)
        /\ Value(S, 6) = Weight[6 + 1] * B(6) /\ Value(S, 7) = Weight[7 + 1] * B(7)
    BY <2>1, <2>2
  <2>4. B(0) \in Int BY <1>1, <2>2
  <2> QED BY <2>3, <2>4, Weights
<1>3. /\ B(0) \in 0..1 /\ B(1) \in 0..1 /\ B(2) \in 0..1 /\ B(3) \in 0..1
      /\ B(4) \in 0..1 /\ B(5) \in 0..1 /\ B(6) \in 0..1 /\ B(7) \in 0..1 OBVIOUS
<1>4. Byte(S) = v
  <2> HIDE DEF B
  <2> QED BY <1>2, <1>3 DEF Byte
<1>5. /\ v \in 0..255
      /\ (v \div 1) % 2 = B(0) /\ (v \div 2) % 2 = B(1) /\ (v \div 4) % 2 = B(2)
      /\ (v \div 8) % 2 = B(3) /\ (v \div 16) % 2 = B(4) /\ (v \div 32) % 2 = B(5)
      /\ (v \div 64) % 2 = B(6) /\ (v \div 128) % 2 = B(7)
  <2> HIDE DEF B
  <2> QED BY <1>3, BitsOfSum
<1>6. \A i \in Bit : i \in Bits(v) <=> i \in S
  <2> HIDE DEF v
  <2>1. /\ (0 \in Bits(v) <=> 0 \in S) /\ (1 \in Bits(v) <=> 1 \in S)
        /\ (2 \in Bits(v) <=> 2 \in S) /\ (3 \in Bits(v) <=> 3 \in S)
        /\ (4 \in Bits(v) <=> 4 \in S) /\ (5 \in Bits(v) <=> 5 \in S)
        /\ (6 \in Bits(v) <=> 6 \in S) /\ (7 \in Bits(v) <=> 7 \in S)
    BY <1>5, BitsAre
  <2> QED BY <2>1 DEF Bit
<1>7. Bits(v) \subseteq Bit
  <2> HIDE DEF v
  <2> QED BY BitsAre
<1> HIDE DEF v
<1> QED BY <1>4, <1>5, <1>6, <1>7

\* The bytes that the kernel compares with, as bits.
LEMMA Constants ==
  /\ Bits(174) = {1, 2, 3, 5, 7} /\ Bits(221) = {0, 2, 3, 4, 6, 7}
  /\ Off(2) \in Bits(TIMEOUT) /\ Off(2) \notin Bits(85) /\ Off(2) \notin Bits(0)
  /\ {Off(1), Off(2)} \subseteq Bits(ACK)
<1>1. Bits(174) = {1, 2, 3, 5, 7}
  <2>1. /\ (174 \div 1) % 2 = 0 /\ (174 \div 2) % 2 = 1 /\ (174 \div 4) % 2 = 1
        /\ (174 \div 8) % 2 = 1 /\ (174 \div 16) % 2 = 0 /\ (174 \div 32) % 2 = 1
        /\ (174 \div 64) % 2 = 0 /\ (174 \div 128) % 2 = 1 OBVIOUS
  <2> QED BY <2>1, BitsAre DEF Bit
<1>2. Bits(221) = {0, 2, 3, 4, 6, 7}
  <2>1. /\ (221 \div 1) % 2 = 1 /\ (221 \div 2) % 2 = 0 /\ (221 \div 4) % 2 = 1
        /\ (221 \div 8) % 2 = 1 /\ (221 \div 16) % 2 = 1 /\ (221 \div 32) % 2 = 0
        /\ (221 \div 64) % 2 = 1 /\ (221 \div 128) % 2 = 1 OBVIOUS
  <2> QED BY <2>1, BitsAre DEF Bit
<1>3. Off(2) = 5 /\ Off(1) = 4 BY DEF Off
<1>4. (255 \div 32) % 2 = 1 /\ (85 \div 32) % 2 = 0 /\ (0 \div 32) % 2 = 0
      /\ (250 \div 32) % 2 = 1 /\ (250 \div 16) % 2 = 1 OBVIOUS
<1> QED BY <1>1, <1>2, <1>3, <1>4, BitsAre DEF TIMEOUT, ACK

------------------------------------------------------------------------------
(***************************************************************************)
(* What is sent and what is read.                                          *)

\* A set of naturals that is not empty has a least element.
LEMMA Least ==
  ASSUME NEW T, T \subseteq Nat, T # {}
  PROVE  \E x \in T : \A y \in T : x <= y
<1> DEFINE U == {0..x : x \in T}
           R == StrictSubsetOrdering(Nat)
<1>1. U # {} /\ U \subseteq FiniteSubsetsOf(Nat)
  <2>1. \A x \in T : IsFiniteSet(0..x) /\ 0..x \subseteq Nat BY FS_Interval
  <2> QED BY <2>1 DEF FiniteSubsetsOf
<1>2. \E u \in U : \A w \in U : ~ (<<w, u>> \in R)
  <2>1. IsWellFoundedOn(R, FiniteSubsetsOf(Nat)) BY FS_StrictSubsetOrderingWellFounded
  <2> HIDE DEF U, R
  <2> QED BY <1>1, <2>1, WFMin
<1>3. PICK x \in T : \A y \in T : ~ (<<0..y, 0..x>> \in R) BY <1>2
<1>4. SUFFICES ASSUME NEW y \in T, y < x PROVE FALSE BY <1>3
<1>5. 0..y \subseteq 0..x /\ 0..y # 0..x BY <1>4
<1>6. <<0..y, 0..x>> \in R BY <1>5 DEF StrictSubsetOrdering
<1> QED BY <1>3, <1>6


\* What one byte adds to those that are kept.
Kept(u, e, p) == IF e.from # p THEN Append(u, e) ELSE u

\* The sequences that Others builds exist, one byte at a time.
LEMMA OthersExist ==
  ASSUME NEW o \in Seq(Msg), NEW p, NEW n \in 0..Len(o)
  PROVE  \E f \in [0..n -> Seq(Msg)] :
            f[0] = <<>> /\ \A i \in 1..n : f[i] = Kept(f[i - 1], o[i], p)
<1> DEFINE Built(m) == \E f \in [0..m -> Seq(Msg)] :
                         f[0] = <<>> /\ \A i \in 1..m : f[i] = Kept(f[i - 1], o[i], p)
           T == {m \in 0..Len(o) : ~ Built(m)}
<1>1. Built(0)
  <2> DEFINE f == [i \in 0..0 |-> <<>>]
  <2>1. f \in [0..0 -> Seq(Msg)] /\ f[0] = <<>> OBVIOUS
  <2>2. 1..0 = {} OBVIOUS
  <2> HIDE DEF f
  <2> QED BY <2>1, <2>2
<1>2. SUFFICES ASSUME T # {} PROVE FALSE OBVIOUS
<1>3. T \subseteq Nat OBVIOUS
<1>4. PICK m \in T : \A k \in T : m <= k
  <2> HIDE DEF T
  <2> QED BY <1>2, <1>3, Least
<1>5. m \in 1..Len(o) /\ m - 1 \in 0..Len(o) /\ Len(o) \in Nat
  <2> HIDE DEF Built
  <2> QED BY <1>1
<1>6. Built(m - 1)
  <2> HIDE DEF Built
  <2> QED BY <1>4, <1>5
<1>7. PICK f \in [0..(m - 1) -> Seq(Msg)] :
        f[0] = <<>> /\ \A i \in 1..(m - 1) : f[i] = Kept(f[i - 1], o[i], p)
  BY <1>6
<1> DEFINE g == [i \in 0..m |-> IF i = m THEN Kept(f[m - 1], o[m], p) ELSE f[i]]
<1>8. o[m] \in Msg BY <1>5
<1>9. f[m - 1] \in Seq(Msg) BY <1>5
<1>10. Kept(f[m - 1], o[m], p) \in Seq(Msg) BY <1>8, <1>9 DEF Kept
<1>11. g \in [0..m -> Seq(Msg)] BY <1>5, <1>10
<1>12. g[0] = <<>> BY <1>5, <1>7
<1>13. ASSUME NEW i \in 1..m PROVE g[i] = Kept(g[i - 1], o[i], p)
  <2>1. g[i - 1] = f[i - 1] BY <1>5
  <2>2. CASE i = m BY <2>1, <2>2
  <2>3. CASE i # m
    <3>1. i \in 1..(m - 1) BY <1>5, <2>3
    <3>2. g[i] = f[i] BY <1>5, <2>3
    <3> QED BY <1>7, <2>1, <3>1, <3>2
  <2> QED BY <2>2, <2>3
<1>14. Built(m)
  <2> HIDE DEF g
  <2> QED BY <1>11, <1>12, <1>13
<1> QED BY <1>14

\* That u holds bytes among the first n of o, none of them from p, in the
\* order they had there.
From(u, o, n, p) ==
  \E at \in [1..Len(u) -> 1..n] :
    /\ \A j \in 1..Len(u) : j <= at[j] /\ u[j] = o[at[j]] /\ u[j].from # p
    /\ \A j, k \in 1..Len(u) : j < k => at[j] < at[k]

\* One more byte.
LEMMA KeptFrom ==
  ASSUME NEW o \in Seq(Msg), NEW p, NEW n \in 1..Len(o), NEW u \in Seq(Msg),
         From(u, o, n - 1, p)
  PROVE  From(Kept(u, o[n], p), o, n, p)
<1>1. Len(u) \in Nat /\ n \in Nat /\ n >= 1 /\ o[n] \in Msg OBVIOUS
<1>2. PICK at \in [1..Len(u) -> 1..(n - 1)] :
        /\ \A j \in 1..Len(u) : j <= at[j] /\ u[j] = o[at[j]] /\ u[j].from # p
        /\ \A j, k \in 1..Len(u) : j < k => at[j] < at[k]
  BY DEF From
<1>3. CASE o[n].from = p
  <2>1. Kept(u, o[n], p) = u BY <1>3 DEF Kept
  <2>2. at \in [1..Len(u) -> 1..n] BY <1>1, <1>2
  <2> QED BY <1>2, <2>1, <2>2 DEF From
<1>4. CASE o[n].from # p
  <2> DEFINE w == Append(u, o[n])
             new == [j \in 1..(Len(u) + 1) |-> IF j = Len(u) + 1 THEN n ELSE at[j]]
  <2>1. Kept(u, o[n], p) = w BY <1>4 DEF Kept
  <2>2. /\ Len(w) = Len(u) + 1 /\ w[Len(u) + 1] = o[n]
        /\ \A j \in 1..Len(u) : w[j] = u[j]
    BY <1>1
  <2>3. \A j \in 1..Len(u) : at[j] \in 1..(n - 1) BY <1>2
  <2>4. new \in [1..(Len(u) + 1) -> 1..n]
    <3>1. ASSUME NEW j \in 1..(Len(u) + 1), j # Len(u) + 1 PROVE at[j] \in 1..n
      <4>1. j \in 1..Len(u) BY <1>1, <3>1
      <4> QED BY <1>1, <2>3, <4>1
    <3> QED BY <1>1, <3>1
  <2>5. Len(u) <= n - 1
    <3>1. CASE Len(u) = 0 BY <1>1, <3>1
    <3>2. CASE Len(u) # 0
      <4>1. Len(u) \in 1..Len(u) BY <1>1, <3>2
      <4> QED BY <1>1, <1>2, <2>3, <4>1
    <3> QED BY <3>1, <3>2
  <2>6. ASSUME NEW j \in 1..(Len(u) + 1)
        PROVE  j <= new[j] /\ w[j] = o[new[j]] /\ w[j].from # p
    <3>1. CASE j = Len(u) + 1
      <4>1. new[j] = n BY <3>1
      <4> HIDE DEF w, new
      <4> QED BY <1>1, <1>4, <2>2, <2>5, <3>1, <4>1
    <3>2. CASE j # Len(u) + 1
      <4>1. j \in 1..Len(u) BY <1>1, <3>2
      <4>2. new[j] = at[j] BY <3>2
      <4> HIDE DEF w, new
      <4> QED BY <1>2, <2>2, <4>1, <4>2
    <3> QED BY <3>1, <3>2
  <2>7. ASSUME NEW j \in 1..(Len(u) + 1), NEW k \in 1..(Len(u) + 1), j < k
        PROVE  new[j] < new[k]
    <3>1. j \in 1..Len(u) /\ new[j] = at[j] BY <1>1, <2>7
    <3>2. CASE k = Len(u) + 1
      <4>1. new[k] = n BY <3>2
      <4> HIDE DEF new
      <4> QED BY <1>1, <2>3, <3>1, <4>1
    <3>3. CASE k # Len(u) + 1
      <4>1. k \in 1..Len(u) /\ new[k] = at[k] BY <1>1, <3>3
      <4> HIDE DEF new
      <4> QED BY <1>2, <2>7, <3>1, <4>1
    <3> QED BY <3>2, <3>3
  <2> HIDE DEF w, new
  <2> QED BY <2>1, <2>2, <2>4, <2>6, <2>7 DEF From
<1> QED BY <1>3, <1>4

\* What Others returns.
LEMMA OthersIs ==
  ASSUME NEW o \in Seq(Msg), NEW p
  PROVE  Others(o, p) \in Seq(Msg) /\ From(Others(o, p), o, Len(o), p)
<1> DEFINE Rec(f) == f = [n \in 0..Len(o) |->
                            IF n = 0 THEN <<>>
                            ELSE IF o[n].from # p THEN Append(f[n - 1], o[n]) ELSE f[n - 1]]
           others == CHOOSE f : Rec(f)
<1>1. Others(o, p) = others[Len(o)] BY Zenon DEF Others
<1>2. Len(o) \in Nat OBVIOUS
<1>3. PICK f \in [0..Len(o) -> Seq(Msg)] :
        f[0] = <<>> /\ \A i \in 1..Len(o) : f[i] = Kept(f[i - 1], o[i], p)
  <2>1. Len(o) \in 0..Len(o) BY <1>2
  <2> HIDE DEF Rec, others
  <2> QED BY <2>1, OthersExist
<1>4. Rec(f)
  <2>1. ASSUME NEW n \in 0..Len(o)
        PROVE  f[n] = (IF n = 0 THEN <<>>
                       ELSE IF o[n].from # p THEN Append(f[n - 1], o[n]) ELSE f[n - 1])
    <3>1. CASE n = 0 BY <1>3, <3>1
    <3>2. CASE n # 0
      <4>1. n \in 1..Len(o) BY <1>2, <3>2
      <4> QED BY <1>3, <3>2, <4>1 DEF Kept
    <3> QED BY <3>1, <3>2
  <2> QED BY <1>3, <2>1
<1>5. Rec(others)
  <2> HIDE DEF Rec
  <2> QED BY <1>4
<1> HIDE DEF others
<1>6. others[0] = <<>> /\ \A n \in 1..Len(o) : others[n] = Kept(others[n - 1], o[n], p)
  <2>1. 0 \in 0..Len(o) BY <1>2
  <2>2. ASSUME NEW n \in 1..Len(o) PROVE others[n] = Kept(others[n - 1], o[n], p)
    <3>1. n \in 0..Len(o) /\ n # 0 BY <1>2
    <3> QED BY <1>5, <3>1 DEF Kept
  <2> QED BY <1>5, <2>1, <2>2
<1> HIDE DEF Rec
<1> DEFINE Good(n) == others[n] \in Seq(Msg) /\ From(others[n], o, n, p)
           T == {n \in 0..Len(o) : ~ Good(n)}
<1>7. SUFFICES ASSUME T # {} PROVE FALSE BY <1>1, <1>2
<1>8. T \subseteq Nat OBVIOUS
<1>9. PICK n \in T : \A k \in T : n <= k
  <2> HIDE DEF T
  <2> QED BY <1>7, <1>8, Least
<1>10. n # 0
  <2>1. From(<<>>, o, 0, p)
    <3> DEFINE at == [j \in 1..0 |-> 0]
    <3>1. Len(<<>>) = 0 /\ 1..0 = {} OBVIOUS
    <3>2. at \in [1..0 -> 1..0] OBVIOUS
    <3> HIDE DEF at
    <3> QED BY <3>1, <3>2 DEF From
  <2>2. <<>> \in Seq(Msg) OBVIOUS
  <2> SUFFICES ASSUME n = 0 PROVE FALSE OBVIOUS
  <2>3. others[n] = <<>> BY <1>6
  <2> QED BY <1>9, <2>1, <2>2, <2>3
<1>11. n \in 1..Len(o) /\ n - 1 \in 0..Len(o) BY <1>2, <1>10
<1>12. Good(n - 1)
  <2> HIDE DEF Good
  <2> QED BY <1>9, <1>11
<1>13. From(Kept(others[n - 1], o[n], p), o, n, p) BY <1>11, <1>12, KeptFrom
<1>14. Kept(others[n - 1], o[n], p) \in Seq(Msg)
  <2>1. o[n] \in Msg BY <1>11
  <2> QED BY <1>12, <2>1 DEF Kept
<1>15. Good(n) BY <1>6, <1>11, <1>13, <1>14
<1> QED BY <1>15

\* The bytes of o after the first k.
After(o, k) == SubSeq(o, k + 1, Len(o))

LEMMA AfterIs ==
  ASSUME NEW o \in Seq(Msg), NEW k \in 0..Len(o)
  PROVE  /\ After(o, k) \in Seq(Msg) /\ Len(After(o, k)) = Len(o) - k
         /\ \A i \in 1..(Len(o) - k) : After(o, k)[i] = o[i + k]
         /\ k = Len(o) => After(o, k) = <<>>
<1>1. Len(o) \in Nat /\ k + 1 \in Nat /\ k + 1 >= 1 OBVIOUS
<1>2. /\ SubSeq(o, k + 1, Len(o)) \in Seq(Msg)
      /\ Len(SubSeq(o, k + 1, Len(o))) = Len(o) - k
  <2>1. \A i \in (k + 1)..Len(o) : o[i] \in Msg BY <1>1
  <2> QED BY <1>1, <2>1, SubSeqProperties
<1>3. \A i \in 1..(Len(o) - k) : SubSeq(o, k + 1, Len(o))[i] = o[i + k]
  BY <1>1, SubSeqProperties
<1>4. k = Len(o) => SubSeq(o, k + 1, Len(o)) = <<>> BY <1>1, <1>2, EmptySeq
<1> QED BY <1>2, <1>3, <1>4 DEF After

\* What recieve_byte may return and leave: the bytes up to the k-th are gone,
\* the last of them to the caller, unless nothing came in time.
Taken(o, r, k) ==
  /\ k \in 0..Len(o) /\ r.rest = After(o, k) /\ r.val \in 0..255
  /\ r.val = TIMEOUT \/ (k >= 1 /\ r.val = o[k].val)
  /\ IRQ(1) \notin config =>
       (k = 0 /\ r.val = TIMEOUT) \/ (k = 1 /\ r.val = o[1].val)
  /\ prompt /\ o # <<>> => k >= 1

LEMMA ReadsIs ==
  ASSUME NEW o \in Seq(Msg), NEW r \in Reads(o)
  PROVE  \E k \in 0..Len(o) : Taken(o, r, k)
<1> DEFINE G == IF IRQ(1) \in config THEN 0..Len(o) ELSE {0}
<1>1. PICK g \in G : r \in Arrives(SubSeq(o, g + 1, Len(o))) BY DEF Reads
<1>2. g \in 0..Len(o) /\ Len(o) \in Nat /\ (IRQ(1) \notin config => g = 0) OBVIOUS
<1> HIDE DEF G
<1> DEFINE a == After(o, g)
<1>3. r \in Arrives(a) BY <1>1 DEF After
<1>4. /\ a \in Seq(Msg) /\ Len(a) = Len(o) - g
      /\ \A i \in 1..(Len(o) - g) : a[i] = o[i + g]
      /\ g = Len(o) => a = <<>>
  BY <1>2, AfterIs
<1> HIDE DEF a
<1>5. CASE r = [val |-> TIMEOUT, rest |-> a] /\ (a = <<>> \/ ~ prompt)
  <2>1. r.val = TIMEOUT /\ r.rest = a BY <1>5
  <2>2. prompt /\ o # <<>> => g >= 1
    <3> SUFFICES ASSUME prompt, o # <<>> PROVE g >= 1 OBVIOUS
    <3>1. a = <<>> BY <1>5
    <3>2. Len(a) = 0 BY <3>1
    <3>3. Len(o) # 0 BY EmptySeq
    <3> QED BY <1>2, <1>4, <3>2, <3>3
  <2> QED BY <1>2, <2>1, <2>2 DEF Taken, TIMEOUT, a
<1>6. CASE a # <<>> /\ r = [val |-> Head(a).val, rest |-> Tail(a)]
  <2>1. Len(a) >= 1 /\ g + 1 \in 1..Len(o) BY <1>2, <1>4, <1>6, EmptySeq
  <2>2. Head(a) = o[g + 1]
    <3>1. Head(a) = a[1] BY <1>4, <1>6
    <3>2. 1 \in 1..(Len(o) - g) BY <1>2, <1>4, <2>1
    <3> QED BY <1>2, <1>4, <3>1, <3>2
  <2>3. r.val = o[g + 1].val /\ r.val \in 0..255
    <3>1. o[g + 1] \in Msg BY <2>1
    <3>2. r.val = Head(a).val BY <1>6
    <3> QED BY <2>2, <3>1, <3>2 DEF Msg
  <2>4. r.rest = After(o, g + 1)
    <3> DEFINE t == Tail(a)
               b == After(o, g + 1)
    <3>1. t \in Seq(Msg) /\ Len(t) = Len(a) - 1 /\ \A i \in 1..Len(t) : t[i] = a[i + 1]
      BY <1>4, <1>6, HeadTailProperties
    <3>2. /\ b \in Seq(Msg) /\ Len(b) = Len(o) - (g + 1)
          /\ \A i \in 1..(Len(o) - (g + 1)) : b[i] = o[i + (g + 1)]
      <4>1. g + 1 \in 0..Len(o) BY <1>2, <2>1
      <4> HIDE DEF a
      <4> QED BY <4>1, AfterIs
    <3> HIDE DEF t, b
    <3>3. Len(t) = Len(b) BY <1>2, <1>4, <3>1, <3>2
    <3>4. ASSUME NEW i \in 1..Len(t) PROVE t[i] = b[i]
      <4>1. i + 1 \in 1..(Len(o) - g) /\ i \in 1..(Len(o) - (g + 1)) /\ i \in Nat
        BY <1>2, <1>4, <3>1, <3>3
      <4>2. a[i + 1] = o[(i + 1) + g] BY <1>4, <4>1
      <4>3. (i + 1) + g = i + (g + 1) BY <1>2, <4>1
      <4> QED BY <3>1, <3>2, <4>1, <4>2, <4>3
    <3>5. t = b BY <3>1, <3>2, <3>3, <3>4, SeqEqual
    <3> QED BY <1>6, <3>5 DEF t, b
  <2>5. g + 1 \in 0..Len(o) /\ g + 1 >= 1 BY <1>2, <2>1
  <2>6. IRQ(1) \notin config => g + 1 = 1 /\ r.val = o[1].val BY <1>2, <2>3
  <2>7. Taken(o, r, g + 1) BY <2>3, <2>4, <2>5, <2>6 DEF Taken
  <2> QED BY <2>5, <2>7
<1> QED BY <1>3, <1>5, <1>6 DEF Arrives

\* A queue at whose end the controller answers.
LEMMA AskIs ==
  ASSUME NEW o \in Seq(Msg), NEW v \in 0..255
  PROVE  LET q == o \o Says(Controller, <<v>>)
         IN /\ q \in Seq(Msg) /\ Len(q) = Len(o) + 1
            /\ \A i \in 1..Len(o) : q[i] = o[i]
            /\ q[Len(o) + 1] = [from |-> 0, val |-> v]
            /\ o = <<>> => q = <<[from |-> 0, val |-> v]>>
<1> DEFINE m == [from |-> 0, val |-> v]
<1>1. Says(Controller, <<v>>) = <<m>> BY DEF Says, Controller
<1>2. m \in Msg BY DEF Msg, Controller
<1> HIDE DEF m
<1> DEFINE q == o \o <<m>>
<1>3. q \in Seq(Msg) BY <1>2
<1>4. Len(q) = Len(o) + 1 /\ \A i \in 1..Len(o) : q[i] = o[i] BY <1>2
<1>5. q[Len(o) + 1] = m BY <1>2
<1>6. o = <<>> => q = <<m>> BY <1>2
<1> QED BY <1>1, <1>3, <1>4, <1>5, <1>6 DEF m

\* What the kernel sends to devices.
Command == {255, 245, 242, 244, 240, 2}

\* What each device answers.
LEMMA Answers ==
  ASSUME NEW kind \in Kind
  PROVE  /\ Answer(kind, 255) = CASE kind = "keyboard" -> <<ACK, 170>>
                                  [] kind = "mouse" -> <<ACK, 170, 0>>
                                  [] kind = "faulty" -> <<ACK, 252>>
                                  [] OTHER -> <<>>
         /\ Answer(kind, 242) = CASE kind = "keyboard" -> <<ACK, 171, 131>>
                                  [] kind = "mouse" -> <<ACK, 0>>
                                  [] OTHER -> <<>>
         /\ \A v \in Command \ {255, 242} :
              Answer(kind, v) = IF kind \in {"keyboard", "mouse"} THEN <<ACK>> ELSE <<>>
<1>1. Answer(kind, 255) = CASE kind = "keyboard" -> <<ACK, 170>>
                            [] kind = "mouse" -> <<ACK, 170, 0>>
                            [] kind = "faulty" -> <<ACK, 252>>
                            [] OTHER -> <<>>
  BY DEF Answer, Kind
<1>2. Answer(kind, 242) = CASE kind = "keyboard" -> <<ACK, 171, 131>>
                            [] kind = "mouse" -> <<ACK, 0>>
                            [] OTHER -> <<>>
  BY DEF Answer, Kind
<1>3. ASSUME NEW v \in Command \ {255, 242}
      PROVE  Answer(kind, v) = IF kind \in {"keyboard", "mouse"} THEN <<ACK>> ELSE <<>>
  BY DEF Answer
<1> QED BY <1>1, <1>2, <1>3

\* No byte but the first is an ACK.
LEMMA AnswerAck ==
  ASSUME NEW kind \in Kind, NEW v \in Command
  PROVE  /\ Answer(kind, v) \in Seq(0..255)
         /\ \A i \in 1..Len(Answer(kind, v)) : Answer(kind, v)[i] = ACK => i = 1
<1> DEFINE a == Answer(kind, v)
           All == {<<ACK, 170>>, <<ACK, 171, 131>>, <<ACK, 170, 0>>, <<ACK, 0>>,
                   <<ACK, 252>>, <<ACK>>, <<>>}
<1>1. a \in All
  <2>1. CASE v = 255 BY <2>1, Answers DEF Kind
  <2>2. CASE v = 242 BY <2>2, Answers DEF Kind
  <2>3. CASE v \notin {255, 242}
    <3>1. v \in Command \ {255, 242} BY <2>3
    <3> QED BY <3>1, Answers
  <2> QED BY <2>1, <2>2, <2>3
<1> HIDE DEF a
<1>2. a \in Seq(0..255) /\ \A i \in 1..Len(a) : a[i] = ACK => i = 1
  <2>1. CASE a = <<ACK, 170>> BY <2>1 DEF ACK
  <2>2. CASE a = <<ACK, 171, 131>> BY <2>2 DEF ACK
  <2>3. CASE a = <<ACK, 170, 0>> BY <2>3 DEF ACK
  <2>4. CASE a = <<ACK, 0>> BY <2>4 DEF ACK
  <2>5. CASE a = <<ACK, 252>> BY <2>5 DEF ACK
  <2>6. CASE a = <<ACK>> BY <2>6 DEF ACK
  <2>7. CASE a = <<>> BY <2>7
  <2> QED BY <1>1, <2>1, <2>2, <2>3, <2>4, <2>5, <2>6, <2>7
<1> QED BY <1>2 DEF a

\* A port's bytes.
LEMMA SaysIs ==
  ASSUME NEW p \in Port, NEW a \in Seq(0..255)
  PROVE  /\ Says(p, a) \in Seq(Msg) /\ Len(Says(p, a)) = Len(a)
         /\ \A i \in 1..Len(a) : Says(p, a)[i].val = a[i] /\ Says(p, a)[i].from = p
         /\ a = <<>> => Says(p, a) = <<>>
<1> DEFINE f == [i \in 1..Len(a) |-> [from |-> p, val |-> a[i]]]
<1>1. Len(a) \in Nat /\ DOMAIN a = 1..Len(a) OBVIOUS
<1>2. Says(p, a) = f BY <1>1 DEF Says
<1>3. ASSUME NEW i \in 1..Len(a) PROVE [from |-> p, val |-> a[i]] \in Msg
  <2>1. a[i] \in 0..255 BY ElementOfSeq
  <2> QED BY <2>1 DEF Msg
<1>4. f \in Seq(Msg) /\ Len(f) = Len(a)
  <2>1. f \in [1..Len(a) -> Msg] BY <1>3
  <2> HIDE DEF f
  <2> QED BY <1>1, <2>1
<1>5. \A i \in 1..Len(a) : f[i].val = a[i] /\ f[i].from = p OBVIOUS
<1>6. a = <<>> => f = <<>>
  <2> HIDE DEF f
  <2> QED BY <1>4, EmptySeq
<1> QED BY <1>2, <1>4, <1>5, <1>6

\* That s is what u, taken from o, and p's answer a make.
Follows(s, u, o, p, a) ==
  /\ From(u, o, Len(o), p) /\ s = u \o Says(p, a)
  /\ Len(s) = Len(u) + Len(a)
  /\ \A i \in 1..Len(u) : s[i] = u[i]
  /\ \A i \in 1..Len(a) : s[Len(u) + i].val = a[i] /\ s[Len(u) + i].from = p

\* What send_byte leaves in the queue: when the byte gets through, the bytes
\* of the others and then the answer.
LEMMA SentIs ==
  ASSUME NEW o \in Seq(Msg), NEW cfg, NEW p \in Port, NEW v \in Command,
         kinds[p] \in Kind
  PROVE  /\ Sent(o, cfg, p, v) \in Seq(Msg)
         /\ ~ (p \in ports /\ Off(p) \notin cfg) => Sent(o, cfg, p, v) = o
         /\ p \in ports /\ Off(p) \notin cfg =>
              \E u \in Seq(Msg) : Follows(Sent(o, cfg, p, v), u, o, p, Answer(kinds[p], v))
<1> DEFINE a == Answer(kinds[p], v)
           w == Says(p, a)
           u == Others(o, p)
<1>1. a \in Seq(0..255) BY AnswerAck
<1>2. /\ w \in Seq(Msg) /\ Len(w) = Len(a)
      /\ \A i \in 1..Len(a) : w[i].val = a[i] /\ w[i].from = p
  <2> HIDE DEF a
  <2> QED BY <1>1, SaysIs
<1>3. u \in Seq(Msg) /\ From(u, o, Len(o), p) BY OthersIs
<1>4. Sent(o, cfg, p, v) = IF p \in ports /\ Off(p) \notin cfg THEN u \o w ELSE o
  BY DEF Sent
<1> HIDE DEF a, w, u
<1>5. /\ u \o w \in Seq(Msg) /\ Len(u \o w) = Len(u) + Len(a)
      /\ \A i \in 1..Len(u) : (u \o w)[i] = u[i]
      /\ \A i \in 1..Len(a) : (u \o w)[Len(u) + i] = w[i]
  <2>1. Len(u \o w) = Len(u) + Len(w) BY <1>2, <1>3, ConcatProperties
  <2>2. u \o w \in Seq(Msg) BY <1>2, <1>3
  <2>3. \A i \in 1..Len(u) : (u \o w)[i] = u[i] BY <1>2, <1>3
  <2>4. \A i \in 1..Len(w) : (u \o w)[Len(u) + i] = w[i] BY <1>2, <1>3
  <2> QED BY <1>2, <2>1, <2>2, <2>3, <2>4
<1>6. CASE p \in ports /\ Off(p) \notin cfg
  <2>1. Sent(o, cfg, p, v) = u \o w BY <1>4, <1>6
  <2>2. Follows(u \o w, u, o, p, a) BY <1>2, <1>3, <1>5, Zenon DEF Follows, w
  <2> QED BY <1>3, <1>5, <1>6, <2>1, <2>2 DEF a
<1>7. CASE ~ (p \in ports /\ Off(p) \notin cfg)
  <2>1. Sent(o, cfg, p, v) = o BY <1>4, <1>7
  <2> QED BY <1>7, <2>1
<1> QED BY <1>6, <1>7

\* Where nothing but p's own bytes are unread, or nothing at all, its answer is
\* all there is.
LEMMA SentAlone ==
  ASSUME NEW o \in Seq(Msg), NEW cfg, NEW p \in Port, NEW v \in Command,
         kinds[p] \in Kind, p \in ports, Off(p) \notin cfg,
         \A i \in 1..Len(o) : o[i].from = p
  PROVE  Sent(o, cfg, p, v) = Says(p, Answer(kinds[p], v))
<1>1. PICK u \in Seq(Msg) : Follows(Sent(o, cfg, p, v), u, o, p, Answer(kinds[p], v))
  BY SentIs
<1>2. PICK at \in [1..Len(u) -> 1..Len(o)] :
        \A j \in 1..Len(u) : u[j] = o[at[j]] /\ u[j].from # p
  BY <1>1 DEF Follows, From
<1>3. Len(u) = 0
  <2> SUFFICES ASSUME Len(u) # 0 PROVE FALSE OBVIOUS
  <2>1. 1 \in 1..Len(u) OBVIOUS
  <2>2. at[1] \in 1..Len(o) BY <1>2, <2>1
  <2> QED BY <1>2, <2>1, <2>2
<1>4. u = <<>> BY <1>3, EmptySeq
<1>5. Says(p, Answer(kinds[p], v)) \in Seq(Msg) BY AnswerAck, SaysIs
<1> QED BY <1>1, <1>4, <1>5 DEF Follows

\* When nothing is unread the answer is all there is.
Empty(o) == o \in Seq(Msg) /\ Len(o) = 0

LEMMA SentFirst ==
  ASSUME NEW o, Empty(o), NEW cfg, NEW p \in Port, NEW v \in Command,
         kinds[p] \in Kind, p \in ports, Off(p) \notin cfg
  PROVE  Sent(o, cfg, p, v) = Says(p, Answer(kinds[p], v))
<1>1. o \in Seq(Msg) /\ \A i \in 1..Len(o) : o[i].from = p BY DEF Empty
<1> QED BY <1>1, SentAlone

------------------------------------------------------------------------------
(***************************************************************************)
(* Types.                                                                  *)

\* What is left is bytes, and what is returned is one.
LEMMA Reading ==
  ASSUME NEW o \in Seq(Msg), NEW r \in Reads(o)
  PROVE  r.rest \in Seq(Msg) /\ r.val \in 0..255
<1>1. PICK k \in 0..Len(o) : Taken(o, r, k) BY ReadsIs
<1> QED BY <1>1, AfterIs DEF Taken

\* The same when the controller is asked first.
LEMMA Asking ==
  ASSUME out \in Seq(Msg), NEW v \in 0..255, NEW r \in Asks(v)
  PROVE  r.rest \in Seq(Msg) /\ r.val \in 0..255
<1>1. out \o Says(Controller, <<v>>) \in Seq(Msg) BY AskIs
<1> QED BY <1>1, Reading DEF Asks

LEMMA AskingTest ==
  ASSUME out \in Seq(Msg), NEW r \in Test
  PROVE  r.rest \in Seq(Msg) /\ r.val \in 0..255
<1> DEFINE v == IF kinds[port] = "broken" THEN 1 ELSE 0
<1>1. v \in 0..255 /\ Test = Asks(v) BY DEF Test
<1> HIDE DEF v
<1> QED BY <1>1, Asking

LEMMA AskingConfig ==
  ASSUME out \in Seq(Msg), NEW cfg \in SUBSET Bit, NEW r \in ReadConfig(cfg)
  PROVE  r.rest \in Seq(Msg) /\ r.val \in 0..255
<1> QED BY Asking, ByteIs DEF ReadConfig

\* The parts of TypeOK that the proofs need by name.
LEMMA Types ==
  ASSUME TypeOK
  PROVE  /\ out \in Seq(Msg) /\ Len(out) \in Nat
         /\ config \in SUBSET Bit /\ config_byte \in SUBSET Bit /\ saved \in SUBSET Bit
         /\ port \in Port /\ ports \subseteq Port /\ PS2_port \in Port
         /\ id \in Int /\ tries \in Int /\ device \in [Port -> 0..NONE]
         /\ kinds[1] \in Kind \ {"absent"} /\ kinds[2] \in Kind
         /\ kinds[port] \in Kind /\ prompt \in BOOLEAN
<1>1. kinds[1] \in Kind \ {"absent"} /\ kinds[2] \in Kind BY Ps2Assumption DEF TypeOK
<1>2. kinds[port] \in Kind BY <1>1 DEF TypeOK, Port
<1>3. out \in Seq(Msg) /\ Len(out) \in Nat BY DEF TypeOK, Msg
<1>4. id \in Int /\ tries \in Int
  <2>1. id \in 0..NONE /\ tries \in 0..3 BY DEF TypeOK
  <2>2. NONE \in Nat BY DEF NONE
  <2> QED BY <2>1, <2>2
<1>5. /\ config \in SUBSET Bit /\ config_byte \in SUBSET Bit /\ saved \in SUBSET Bit
      /\ port \in Port /\ ports \subseteq Port /\ PS2_port \in Port
      /\ device \in [Port -> 0..NONE] /\ prompt \in BOOLEAN
  BY DEF TypeOK
<1> QED BY <1>1, <1>2, <1>3, <1>4, <1>5

\* The types hold at first.
LEMMA TypeInit == Init => TypeOK
<1> SUFFICES ASSUME Init PROVE TypeOK OBVIOUS
<1>1. out \in Seq(Msg)
  <2>1. CASE out = <<>> BY <2>1
  <2>2. CASE out # <<>>
    <3>1. PICK v \in Leftovers : out = <<[from |-> 1, val |-> v]>> BY <2>2 DEF Init
    <3>2. [from |-> 1, val |-> v] \in Msg BY Ps2Assumption DEF Msg, Port
    <3> QED BY <3>1, <3>2
  <2> QED BY <2>1, <2>2
<1>2. kinds \in KindsOne \X KindsTwo BY DEF Init
<1>3. config \in SUBSET Bit /\ config_byte \in SUBSET Bit /\ saved \in SUBSET Bit
  BY Ps2Assumption DEF Init
<1>4. id \in 0..NONE /\ device \in [Port -> 0..NONE] /\ tries \in 0..3
  <2>1. NONE \in Nat BY DEF NONE
  <2> QED BY <2>1 DEF Init
<1>5. prompt \in BOOLEAN /\ port \in Port /\ ports \in SUBSET Port /\ PS2_port \in Port
  BY DEF Init, Port
<1> QED BY <1>1, <1>2, <1>3, <1>4, <1>5 DEF TypeOK, Msg

\* An id keeps its 16 bits.
LEMMA AppendedIs ==
  ASSUME id \in Int, NEW v \in 0..255 PROVE Appended(v) \in 0..NONE
<1>1. \A x \in Int : x % 65536 \in Int /\ 0 <= x % 65536 /\ x % 65536 <= 65535 OBVIOUS
<1>2. \A x \in Int, y \in 0..255 : 256 * x + y \in Int OBVIOUS
<1> DEFINE n == 256 * id + v
           m == n % 65536
<1>3. n \in Int BY <1>2
<1>4. m \in Int /\ 0 <= m /\ m <= 65535
  <2> HIDE DEF n
  <2> QED BY <1>1, <1>3
<1>5. Appended(v) = m BY DEF Appended
<1>6. NONE \in Int /\ 65535 <= NONE BY DEF NONE
<1> HIDE DEF m
<1>7. m \in 0..NONE BY <1>4, <1>6
<1> QED BY <1>5, <1>7

\* The types are kept.
LEMMA TypeKeeps == ASSUME TypeOK, [Next]_vars PROVE TypeOK'
<1> USE DEF Port
<1>0. /\ out \in Seq(Msg) /\ kinds[1] \in Kind /\ kinds[2] \in Kind /\ kinds[port] \in Kind
      /\ config \in SUBSET Bit /\ config_byte \in SUBSET Bit /\ saved \in SUBSET Bit
      /\ port \in Port /\ Byte(config) \in 0..255 /\ id \in Int
  BY Types, ByteIs
<1>t. TypeOK BY DEF TypeOK
<1>b. \A v : Bits(v) \in SUBSET Bit BY BitsAre
<1>s. \A o \in Seq(Msg), v \in Command : \A cfg : Sent(o, cfg, port, v) \in Seq(Msg)
  BY <1>0, SentIs
<1>c. /\ 255 \in Command /\ 245 \in Command /\ 242 \in Command
      /\ 244 \in Command /\ 240 \in Command /\ 2 \in Command
  BY DEF Command
<1>n. NONE \in 0..NONE /\ 0 \in 0..NONE
  <2>1. NONE \in Nat BY DEF NONE
  <2> QED BY <2>1
<1>1. CASE Flush
  <2>1. out' \in Seq(Msg) BY <1>0, <1>1, Reading DEF Flush
  <2>2. config' \in SUBSET Bit BY <1>0, <1>1 DEF Flush, Off, Bit
  <2> QED BY <1>t, <1>1, <2>1, <2>2 DEF Flush, TypeOK, Msg, machine, locals
<1>2. CASE ClearConfig
  <2>1. out' \in Seq(Msg) BY <1>0, <1>2, AskingConfig DEF ClearConfig
  <2>2. config_byte' \in SUBSET Bit BY <1>b, <1>2 DEF ClearConfig
  <2>3. config' \in SUBSET Bit BY <1>0, <1>2, <2>2 DEF ClearConfig, WriteConfig
  <2> QED BY <1>t, <1>2, <2>1, <2>2, <2>3 DEF ClearConfig, TypeOK, Msg, machine
<1>3. CASE SelfTest
  <2>1. out' \in Seq(Msg)
    <3>1. 85 \in 0..255 OBVIOUS
    <3>2. PICK r \in Asks(85) : out' = r.rest BY <1>3 DEF SelfTest
    <3> QED BY <1>0, <3>1, <3>2, Asking
  <2>2. config' \in SUBSET Bit
    BY <1>0, <1>3, Ps2Assumption DEF SelfTest, WriteConfig
  <2> QED BY <1>t, <1>3, <2>1, <2>2 DEF SelfTest, TypeOK, Msg, machine, locals
<1>4. CASE SecondPort
  <2> DEFINE tried == IF kinds[2] = "absent" THEN config ELSE config \ {Off(2)}
  <2>1. tried \in SUBSET Bit BY <1>0
  <2> HIDE DEF tried
  <2>2. PICK r \in ReadConfig(tried) :
        /\ out' = r.rest /\ config_byte' = Bits(r.val)
        /\ config' \in {tried, tried \cup {Off(2)}} /\ port' \in {1, port}
        /\ ports' \in {ports, ports \cup {2}}
    BY <1>4 DEF SecondPort, tried
  <2>3. out' \in Seq(Msg) BY <1>0, <2>1, <2>2, AskingConfig
  <2>4. config' \in SUBSET Bit BY <2>1, <2>2 DEF Off, Bit
  <2> QED BY <1>t, <1>b, <1>4, <2>2, <2>3, <2>4 DEF SecondPort, TypeOK, Msg, machine
<1>5. CASE SecondConfig
  <2>1. out' \in Seq(Msg) BY <1>0, <1>5, AskingConfig DEF SecondConfig
  <2>2. config_byte' \in SUBSET Bit BY <1>b, <1>5 DEF SecondConfig
  <2>3. config' \in SUBSET Bit BY <1>0, <1>5, <2>2 DEF SecondConfig, WriteConfig
  <2> QED BY <1>t, <1>5, <2>1, <2>2, <2>3 DEF SecondConfig, TypeOK, Msg, machine
<1>6. CASE PortFails
  <2>1. out' \in Seq(Msg) BY <1>0, <1>6, AskingTest DEF PortFails
  <2> QED BY <1>t, <1>6, <2>1 DEF PortFails, NextPort, TypeOK, Msg, machine, locals
<1>7. CASE ResetDevice
  <2>1. PICK r \in Test : out' = Sent(r.rest, config', port, 255) BY <1>7 DEF ResetDevice
  <2>2. r.rest \in Seq(Msg) BY <1>0, <2>1, AskingTest
  <2>3. out' \in Seq(Msg) BY <1>c, <1>s, <2>1, <2>2
  <2> QED BY <1>t, <1>n, <1>7, <2>3 DEF ResetDevice, TypeOK, Msg, machine
<1>8. CASE Collect
  <2>1. PICK r \in Reads(out) : out' = r.rest /\ id' = Appended(r.val)
    BY <1>8 DEF Collect
  <2>2. out' \in Seq(Msg) /\ r.val \in 0..255 BY <1>0, <2>1, Reading
  <2>3. id' \in 0..NONE BY <1>0, <2>1, <2>2, AppendedIs
  <2> QED BY <1>t, <1>8, <2>2, <2>3 DEF Collect, TypeOK, Msg, machine
<1>9. CASE NoDevice
  <2>1. out' \in Seq(Msg) BY <1>0, <1>9, Reading DEF NoDevice
  <2> QED BY <1>t, <1>n, <1>9, <2>1 DEF NoDevice, NextPort, TypeOK, Msg, machine, locals
<1>10. CASE Identify
  <2>1. PICK r \in Reads(out) :
        \E c \in Reads(r.rest \o Says(Controller, <<Byte(config)>>)) :
          /\ saved' = Bits(c.val) /\ WriteConfig(saved' \ {TRANSLATION})
          /\ out' = Sent(c.rest, config', port, 245)
    BY <1>10 DEF Identify
  <2>2. r.rest \in Seq(Msg) BY <1>0, <2>1, Reading
  <2>3. r.rest \o Says(Controller, <<Byte(config)>>) \in Seq(Msg) BY <1>0, <2>2, AskIs
  <2>4. PICK c \in Reads(r.rest \o Says(Controller, <<Byte(config)>>)) :
          /\ saved' = Bits(c.val) /\ WriteConfig(saved' \ {TRANSLATION})
          /\ out' = Sent(c.rest, config', port, 245)
    BY <2>1
  <2>5. out' \in Seq(Msg) 
    <3>1. c.rest \in Seq(Msg) BY <2>3, Reading
    <3> QED BY <1>c, <1>s, <2>4, <3>1
  <2>6. saved' \in SUBSET Bit BY <1>b, <2>4
  <2>7. config' \in SUBSET Bit BY <1>0, <2>4, <2>6 DEF WriteConfig
  <2> QED BY <1>t, <1>10, <2>5, <2>6, <2>7 DEF Identify, TypeOK, Msg, machine
<1>11. CASE NotIdentified
  <2>1. out' \in Seq(Msg) BY <1>0, <1>11, Reading DEF NotIdentified
  <2> QED BY <1>t, <1>n, <1>11, <2>1
      DEF NotIdentified, NextPort, TypeOK, Msg, machine, locals
<1>12. CASE Disabled
  <2>1. PICK r \in Reads(out) : out' = Sent(r.rest, config, port, 242)
    BY <1>12 DEF Disabled
  <2>2. r.rest \in Seq(Msg) BY <1>0, Reading
  <2>3. out' \in Seq(Msg) BY <1>c, <1>s, <2>1, <2>2
  <2> QED BY <1>t, <1>12, <2>3 DEF Disabled, TypeOK, Msg, machine, locals
<1>13. CASE Identified
  <2>1. out' \in Seq(Msg) BY <1>0, <1>13, Reading DEF Identified
  <2> QED BY <1>t, <1>n, <1>13, <2>1 DEF Identified, TypeOK, Msg, machine
<1>14. CASE Enable
  <2>1. PICK r \in Reads(out) : out' = Sent(r.rest, config, port, 244)
    BY <1>14 DEF Enable
  <2>2. r.rest \in Seq(Msg) BY <1>0, Reading
  <2>3. out' \in Seq(Msg) BY <1>c, <1>s, <2>1, <2>2
  <2> QED BY <1>t, <1>14, <2>3 DEF Enable, TypeOK, Msg, machine, locals
<1>15. CASE Enabled
  <2>1. out' \in Seq(Msg) BY <1>0, <1>15, Reading DEF Enabled
  <2>2. config' \in SUBSET Bit BY <1>0, <1>15 DEF Enabled, WriteConfig
  <2>3. /\ port' \in Port /\ tries' \in 0..3 /\ PS2_port' \in Port
        /\ device' = [device EXCEPT ![port] = id]
        /\ UNCHANGED <<kinds, prompt, config_byte, saved, id, ports>>
    BY <1>t, <1>15 DEF Enabled, NextPort, TypeOK, machine
  <2> QED BY <1>t, <2>1, <2>2, <2>3 DEF TypeOK, Msg
<1>16. CASE KeyboardInit
  <2> DEFINE sent == Sent(Sent(out, config, port, 240), config, port, 2)
  <2>1. sent \in Seq(Msg)
    <3>1. Sent(out, config, port, 240) \in Seq(Msg) BY <1>0, <1>c, <1>s
    <3> QED BY <1>c, <1>s, <3>1
  <2>2. PICK r \in Reads(sent) : out' = r.rest BY <1>16 DEF KeyboardInit
  <2>3. out' \in Seq(Msg)
    <3> HIDE DEF sent
    <3> QED BY <2>1, <2>2, Reading
  <2>4. /\ port' \in Port /\ tries' \in 0..3
        /\ UNCHANGED <<kinds, prompt, config, config_byte, saved, id, ports, device,
                       PS2_port>>
    BY <1>t, <1>16 DEF KeyboardInit, NextPort, NextTry, TypeOK, machine
  <2> QED BY <1>t, <2>3, <2>4 DEF TypeOK, Msg
<1>17. CASE EnableIrqs
  <2>1. out' \in Seq(Msg) BY <1>0, <1>17, AskingConfig DEF EnableIrqs
  <2>2. config_byte' \in SUBSET Bit BY <1>b, <1>17 DEF EnableIrqs, IRQ, TRANSLATION, Bit
  <2>3. config' \in SUBSET Bit BY <1>0, <1>17, <2>2 DEF EnableIrqs, WriteConfig
  <2> QED BY <1>t, <1>17, <2>1, <2>2, <2>3 DEF EnableIrqs, TypeOK, Msg, machine
<1>18. CASE UNCHANGED vars BY <1>t, <1>18 DEF vars, machine, locals, TypeOK
<1> QED BY <1>1, <1>2, <1>3, <1>4, <1>5, <1>6, <1>7, <1>8, <1>9, <1>10, <1>11, <1>12,
           <1>13, <1>14, <1>15, <1>16, <1>17, <1>18 DEF Next

------------------------------------------------------------------------------
(***************************************************************************)
(* Where PS2_init is and what can be unread there, however late answers    *)
(* come.  What matters is where an ACK can be, since only an ACK makes     *)
(* identify_device go on, and whose it is.                                 *)

Identifying == {"disable", "identify", "identity", "enable"}
SettingUp == {"scan_codes", "lights"}
Talking == {"reset"} \cup Identifying \cup SettingUp

Passes == Off(port) \notin config
Own == \A i \in 1..Len(out) : out[i].from = port
AckFree == \A i \in 1..Len(out) : out[i].val # ACK
EarlyAcks == \A i \in 1..Len(out) : out[i].val = ACK => i <= 2

AtClear == Len(out) <= 1 /\ {Off(1), Off(2)} \subseteq config
AtSelfTest ==
  /\ Len(out) <= 2 /\ config = config_byte /\ config \subseteq Bits(174)
  /\ out # <<>> => Off(2) \in Bits(out[Len(out)].val)
AtSecond ==
  /\ config \subseteq Bits(174)
  /\ out # <<>> => Len(out) = 2 /\ Off(2) \in Bits(out[1].val) /\ out[2].val = 85
AtSecondConfig == out = <<>> /\ config \subseteq Bits(174) /\ Off(2) \in config
\* Nothing unread can pass for a port that works, nor for an ACK.
AtTestTwo == Len(out) <= 1 /\ (out # <<>> => out[1].val \notin {0, ACK})

\* An ACK of another sender is not followed by an id.
AtReset ==
  /\ Passes
  /\ \A i \in 1..Len(out) : out[i].val = ACK /\ out[i].from # port => i = 1 /\ id = 0
  /\ \A i, j \in 1..Len(out) :
       out[i].val = ACK /\ out[i].from = port /\ out[j].val = ACK /\ out[j].from = port
         => i = j
  /\ port = 2 => Own /\ \A i \in 1..Len(out) : out[i].val = ACK => i = 1 /\ id = 0
\* The only ACK is the port's own; what comes before it is lost with it.
AtDisable ==
  /\ \A i \in 1..Len(out) : out[i].val = ACK => out[i].from = port
  /\ \A i, j \in 1..Len(out) : out[i].val = ACK /\ out[j].val = ACK => i = j
  /\ Passes => \A i \in 1..Len(out) : out[i].from = port => i = Len(out)
  /\ port = 2 => EarlyAcks
AtIdentify ==
  /\ AckFree \/ (Passes /\ out = Says(port, Answer(kinds[port], 242)))
  /\ port = 2 => EarlyAcks
\* What is left is the identity of the device at the port.
AtIdentity ==
  /\ Passes /\ Own /\ AckFree
  /\ kinds[port] # "keyboard" => id = 0 /\ \A i \in 1..Len(out) : out[i].val = 0
AtEnable == Own /\ Len(out) <= 1 /\ (kinds[port] # "keyboard" => id = 0)
AtSetUp == Own /\ Len(out) <= 1

PlaceInv ==
  /\ pc \in {"flush", "clear", "selftest", "second", "second_config", "test",
             "enable_irqs", "done", "failed", "panic"} \cup Talking
  /\ pc \in {"flush", "clear", "selftest", "second"} => ports = {1} /\ port = 2
  /\ pc = "second_config" => ports = {1, 2} /\ port = 2
  /\ pc \in {"test"} \cup Talking => port \in ports /\ 1 \in ports
  /\ pc \in SettingUp => tries \in 1..3

UnreadInv ==
  /\ pc = "flush" => Len(out) <= 1
  /\ pc = "clear" => AtClear
  /\ pc = "selftest" => AtSelfTest
  /\ pc = "second" => AtSecond
  /\ pc = "second_config" => AtSecondConfig
  /\ pc = "test" => IF port = 2 THEN AtTestTwo ELSE EarlyAcks
  /\ pc = "reset" => AtReset
  /\ pc = "disable" => AtDisable
  /\ pc = "identify" => AtIdentify
  /\ pc = "identity" => AtIdentity
  /\ pc = "enable" => AtEnable
  /\ pc \in SettingUp => AtSetUp

LateInv == TypeOK /\ PlaceInv /\ UnreadInv

\* The stages hold at first.
LEMMA LateInit == Init => LateInv
<1> SUFFICES ASSUME Init PROVE LateInv OBVIOUS
<1>1. TypeOK BY TypeInit
<1>2. Len(out) <= 1 BY DEF Init
<1>3. pc = "flush" /\ port = 2 /\ ports = {1} BY DEF Init
<1>4. PlaceInv BY <1>3 DEF PlaceInv, SettingUp, Talking, Identifying
<1>5. UnreadInv BY <1>2, <1>3 DEF UnreadInv, SettingUp
<1> QED BY <1>1, <1>4, <1>5 DEF LateInv

\* Where the next port follows, only EarlyAcks is asked for.
LEMMA NextPortKeeps ==
  ASSUME port \in Port, NextPort, port = 2 => 1 \in ports' /\ EarlyAcks'
  PROVE  PlaceInv' /\ UnreadInv'
<1>1. CASE port = 2
  <2>1. pc' = "test" /\ port' = 1 /\ 1 \in ports' /\ EarlyAcks' BY <1>1 DEF NextPort
  <2>2. PlaceInv' BY <2>1 DEF PlaceInv, SettingUp, Talking, Identifying
  <2>3. UnreadInv' BY <2>1 DEF UnreadInv, SettingUp
  <2> QED BY <2>2, <2>3
<1>2. CASE port = 1
  <2>1. pc' = "enable_irqs" BY <1>2 DEF NextPort
  <2>2. PlaceInv' BY <2>1 DEF PlaceInv, SettingUp, Talking, Identifying
  <2>3. UnreadInv' BY <2>1 DEF UnreadInv, SettingUp
  <2> QED BY <2>2, <2>3
<1> QED BY <1>1, <1>2 DEF Port

\* Reading moves every byte that stays to the front.
Moved(o, r, k) ==
  /\ k \in 0..Len(o) /\ r.rest \in Seq(Msg) /\ Len(r.rest) = Len(o) - k
  /\ \A i \in 1..Len(r.rest) : i + k \in 1..Len(o) /\ r.rest[i] = o[i + k]

LEMMA ReadOn ==
  ASSUME NEW o \in Seq(Msg), NEW r \in Reads(o)
  PROVE  \E k \in 0..Len(o) : Taken(o, r, k) /\ Moved(o, r, k)
<1>1. PICK k \in 0..Len(o) : Taken(o, r, k) BY ReadsIs
<1>2. /\ r.rest \in Seq(Msg) /\ Len(r.rest) = Len(o) - k
      /\ \A i \in 1..(Len(o) - k) : r.rest[i] = o[i + k]
  BY <1>1, AfterIs DEF Taken
<1>3. \A i \in 1..(Len(o) - k) : i + k \in 1..Len(o) OBVIOUS
<1>4. Moved(o, r, k) BY <1>2, <1>3 DEF Moved
<1> QED BY <1>1, <1>4

\* The same where the controller has been asked: its answer v is the last byte.
Answered(o, v, r, k) ==
  /\ k \in 0..(Len(o) + 1) /\ r.rest \in Seq(Msg) /\ Len(r.rest) = Len(o) + 1 - k
  /\ \A i \in 1..Len(r.rest) :
       \/ i + k \in 1..Len(o) /\ r.rest[i] = o[i + k]
       \/ i = Len(r.rest) /\ r.rest[i].from = 0 /\ r.rest[i].val = v
  /\ k <= Len(o) => r.rest[Len(r.rest)].val = v
  /\ r.val \in 0..255
  /\ \/ r.val = TIMEOUT
     \/ k \in 1..Len(o) /\ r.val = o[k].val
     \/ k = Len(o) + 1 /\ r.val = v
  /\ IRQ(1) \notin config =>
       \/ k = 0 /\ r.val = TIMEOUT
       \/ k = 1 /\ r.val = IF Len(o) = 0 THEN v ELSE o[1].val
  /\ prompt => k >= 1

LEMMA AnsweredIs ==
  ASSUME NEW o \in Seq(Msg), NEW v \in 0..255,
         NEW r \in Reads(o \o Says(Controller, <<v>>))
  PROVE  \E k \in 0..(Len(o) + 1) : Answered(o, v, r, k)
<1> DEFINE q == o \o Says(Controller, <<v>>)
           m == [from |-> 0, val |-> v]
<1>1. /\ q \in Seq(Msg) /\ Len(q) = Len(o) + 1 /\ Len(o) \in Nat
      /\ \A i \in 1..Len(o) : q[i] = o[i]
      /\ q[Len(o) + 1] = m
  <2>1. Len(o) \in Nat OBVIOUS
  <2> QED BY <2>1, AskIs, Zenon
<1>2. m.from = 0 /\ m.val = v OBVIOUS
<1> HIDE DEF q, m
<1>3. PICK k \in 0..Len(q) : Taken(q, r, k) /\ Moved(q, r, k) BY <1>1, ReadOn DEF q
<1>4. /\ k \in 0..(Len(o) + 1) /\ r.rest \in Seq(Msg) /\ Len(r.rest) = Len(o) + 1 - k
      /\ r.val \in 0..255
  BY <1>1, <1>3 DEF Taken, Moved
<1>5. ASSUME NEW i \in 1..Len(r.rest)
      PROVE  \/ i + k \in 1..Len(o) /\ r.rest[i] = o[i + k]
             \/ i = Len(r.rest) /\ r.rest[i].from = 0 /\ r.rest[i].val = v
  <2>1. i + k \in 1..(Len(o) + 1) /\ r.rest[i] = q[i + k] BY <1>1, <1>3 DEF Moved
  <2>2. CASE i + k = Len(o) + 1
    <3>1. i = Len(r.rest) BY <1>1, <1>4, <2>2
    <3> QED BY <1>1, <1>2, <2>1, <2>2, <3>1
  <2>3. CASE i + k # Len(o) + 1
    <3>1. i + k \in 1..Len(o) BY <1>1, <1>4, <2>1, <2>3
    <3> QED BY <1>1, <2>1, <3>1
  <2> QED BY <2>2, <2>3
<1>6. ASSUME k <= Len(o) PROVE r.rest[Len(r.rest)].val = v
  <2>1. Len(r.rest) \in 1..Len(r.rest) /\ Len(r.rest) + k = Len(o) + 1
    BY <1>1, <1>4, <1>6
  <2>2. r.rest[Len(r.rest)] = q[Len(r.rest) + k] BY <1>3, <2>1 DEF Moved
  <2> QED BY <1>1, <1>2, <2>1, <2>2
<1>7. r.val = TIMEOUT \/ (k >= 1 /\ r.val = q[k].val) BY <1>3 DEF Taken
<1>8. \/ r.val = TIMEOUT
      \/ k \in 1..Len(o) /\ r.val = o[k].val
      \/ k = Len(o) + 1 /\ r.val = v
  <2>1. CASE r.val = TIMEOUT BY <2>1
  <2>2. CASE k >= 1 /\ r.val = q[k].val
    <3>1. CASE k = Len(o) + 1 BY <1>1, <1>2, <2>2, <3>1
    <3>2. CASE k # Len(o) + 1
      <4>1. k \in 1..Len(o) BY <1>1, <1>4, <2>2, <3>2
      <4> QED BY <1>1, <2>2, <4>1
    <3> QED BY <3>1, <3>2
  <2> QED BY <1>7, <2>1, <2>2
<1>9. IRQ(1) \notin config =>
        \/ k = 0 /\ r.val = TIMEOUT
        \/ k = 1 /\ r.val = IF Len(o) = 0 THEN v ELSE o[1].val
  <2>1. q[1].val = IF Len(o) = 0 THEN v ELSE o[1].val
    <3>1. CASE Len(o) = 0 BY <1>1, <1>2, <3>1
    <3>2. CASE Len(o) # 0
      <4>1. 1 \in 1..Len(o) BY <1>1, <3>2
      <4> QED BY <1>1, <3>2, <4>1
    <3> QED BY <3>1, <3>2
  <2> QED BY <1>3, <2>1 DEF Taken
<1>10. prompt => k >= 1
  <2>1. q # <<>>
    <3> SUFFICES ASSUME q = <<>> PROVE FALSE OBVIOUS
    <3>1. Len(q) = 0 BY EmptySeq
    <3> QED BY <1>1, <3>1
  <2> QED BY <1>3, <2>1 DEF Taken
<1>11. Answered(o, v, r, k) BY <1>4, <1>5, <1>6, <1>8, <1>9, <1>10 DEF Answered
<1> QED BY <1>4, <1>11

\* The first byte that was unread is read or stays.
LEMMA FlushKeeps == ASSUME LateInv, Flush PROVE PlaceInv' /\ UnreadInv'
<1>1. out \in Seq(Msg) /\ Len(out) <= 1 /\ Len(out) \in Nat /\ pc = "flush"
  BY Types DEF LateInv, UnreadInv, Flush
<1>2. PICK r \in Reads(out) : out' = r.rest BY DEF Flush
<1>3. PICK k \in 0..Len(out) : Len(r.rest) = Len(out) - k BY <1>1, ReadOn DEF Moved
<1>4. AtClear'
  <2>1. Len(out') <= 1 BY <1>1, <1>2, <1>3
  <2>2. {Off(1), Off(2)} \subseteq config' BY DEF Flush
  <2> QED BY <2>1, <2>2 DEF AtClear
<1>5. pc' = "clear" /\ UNCHANGED <<ports, port>> BY DEF Flush
<1>6. PlaceInv' BY <1>1, <1>5 DEF LateInv, PlaceInv, SettingUp, Talking, Identifying
<1>7. UnreadInv' BY <1>4, <1>5 DEF UnreadInv, SettingUp
<1> QED BY <1>6, <1>7

\* With both ports off, the configuration that is read has bit 5.
LEMMA ClearConfigKeeps == ASSUME LateInv, ClearConfig PROVE PlaceInv' /\ UnreadInv'
<1>1. /\ out \in Seq(Msg) /\ Len(out) \in Nat /\ config \in SUBSET Bit
      /\ pc = "clear" /\ AtClear /\ ports = {1} /\ port = 2
  BY Types DEF LateInv, UnreadInv, PlaceInv, ClearConfig
<1>2. Byte(config) \in 0..255 /\ Bits(Byte(config)) = config BY <1>1, ByteIs
<1>3. PICK r \in Reads(out \o Says(Controller, <<Byte(config)>>)) :
        /\ out' = r.rest /\ config_byte' = Bits(r.val) \cap Bits(174)
        /\ config' = config_byte'
  BY <1>1 DEF ClearConfig, ReadConfig, Asks, WriteConfig
<1>4. PICK k \in 0..(Len(out) + 1) : Answered(out, Byte(config), r, k)
  BY <1>1, <1>2, AnsweredIs
<1>5. Len(out') = Len(out) + 1 - k /\ (k <= Len(out) => out'[Len(out')].val = Byte(config))
  BY <1>3, <1>4 DEF Answered
<1>6. Len(out') <= 2 BY <1>1, <1>5 DEF AtClear
<1>7. ASSUME out' # <<>> PROVE Off(2) \in Bits(out'[Len(out')].val)
  <2>1. out' \in Seq(Msg) BY <1>3, <1>4 DEF Answered
  <2>2. Len(out') # 0 BY <1>7, <2>1, EmptySeq
  <2> QED BY <1>1, <1>2, <1>5, <2>2 DEF AtClear
<1>8. AtSelfTest' BY <1>3, <1>6, <1>7 DEF AtSelfTest
<1>9. pc' = "selftest" /\ UNCHANGED <<ports, port>> BY DEF ClearConfig
<1>10. PlaceInv' BY <1>1, <1>9 DEF PlaceInv, SettingUp, Talking, Identifying
<1>11. UnreadInv' BY <1>8, <1>9 DEF UnreadInv, SettingUp
<1> QED BY <1>10, <1>11

\* Only the test's own answer can have let the self test pass: bytes before it
\* have bit 5, 0x55 has not.
LEMMA SelfTestKeeps == ASSUME LateInv, SelfTest PROVE PlaceInv' /\ UnreadInv'
<1>1. /\ out \in Seq(Msg) /\ Len(out) \in Nat /\ pc = "selftest" /\ AtSelfTest
      /\ ports = {1} /\ port = 2
  BY Types DEF LateInv, UnreadInv, PlaceInv, SelfTest
<1>2. UNCHANGED <<ports, port, config_byte>> BY DEF SelfTest, locals
<1>3. PICK r \in Reads(out \o Says(Controller, <<85>>)) :
        /\ out' = r.rest
        /\ \/ r.val = 85 /\ pc' = "second" /\ config' = config_byte
           \/ r.val # 85 /\ pc' = "failed"
  BY <1>1 DEF SelfTest, Asks, WriteConfig
<1>4. CASE pc' = "failed"
  <2>1. PlaceInv' BY <1>1, <1>4 DEF PlaceInv, SettingUp, Talking, Identifying
  <2>2. UnreadInv' BY <1>4 DEF UnreadInv, SettingUp
  <2> QED BY <2>1, <2>2
<1>5. CASE r.val = 85 /\ pc' = "second" /\ config' = config_byte
  <2>1. IRQ(1) \notin config
    BY <1>1, Constants DEF AtSelfTest, IRQ
  <2>2. 85 \in 0..255 OBVIOUS
  <2>3. PICK k \in 0..(Len(out) + 1) : Answered(out, 85, r, k) BY <1>1, <2>2, AnsweredIs
  <2>4. k = 1 /\ r.val = IF Len(out) = 0 THEN 85 ELSE out[1].val
    BY <1>5, <2>1, <2>3 DEF Answered, TIMEOUT
  <2>5. out' \in Seq(Msg) /\ Len(out') = Len(out) BY <1>1, <1>3, <2>3, <2>4 DEF Answered
  <2>6. ASSUME out' # <<>>
        PROVE  Len(out') = 2 /\ Off(2) \in Bits(out'[1].val) /\ out'[2].val = 85
    <3>1. Len(out) # 0 BY <2>5, <2>6, EmptySeq
    <3>2. out[1].val = 85 BY <1>5, <2>4, <3>1
    <3>3. Off(2) \in Bits(out[Len(out)].val) BY <1>1, <3>1 DEF AtSelfTest
    <3>4. Len(out) # 1 BY <3>2, <3>3, Constants
    <3>5. Len(out) = 2
      <4>1. Len(out) <= 2 BY <1>1 DEF AtSelfTest
      <4>2. Len(out) \in Nat BY <1>1
      <4>3. \A n \in Nat : n <= 2 /\ n # 0 /\ n # 1 => n = 2 OBVIOUS
      <4> QED BY <3>1, <3>4, <4>1, <4>2, <4>3
    <3>6. out'[2].val = 85 BY <1>3, <2>3, <2>4, <2>5, <3>5 DEF Answered
    <3>7. out'[1] = out[2]
      <4>1. 1 \in 1..Len(r.rest) /\ 1 # Len(r.rest) /\ 1 + k = 2 BY <1>3, <2>4, <2>5, <3>5
      <4> QED BY <1>3, <2>3, <4>1 DEF Answered
    <3> QED BY <2>5, <3>3, <3>5, <3>6, <3>7
  <2>7. AtSecond' BY <1>1, <1>5, <2>6 DEF AtSelfTest, AtSecond
  <2>8. PlaceInv' BY <1>1, <1>2, <1>5 DEF PlaceInv, SettingUp, Talking, Identifying
  <2>9. UnreadInv' BY <1>5, <2>7 DEF UnreadInv, SettingUp
  <2> QED BY <2>8, <2>9
<1> QED BY <1>3, <1>4, <1>5

\* A configuration without bit 4 or without bit 5 is not read as an ACK.
LEMMA NotAck ==
  ASSUME NEW cfg \in SUBSET Bit, NEW p \in Port, Off(p) \notin cfg
  PROVE  Byte(cfg) \in 0..255 /\ Bits(Byte(cfg)) = cfg /\ Byte(cfg) # ACK
<1>1. Byte(cfg) \in 0..255 /\ Bits(Byte(cfg)) = cfg BY ByteIs
<1>2. Off(p) \in Bits(ACK) BY Constants DEF Port
<1> QED BY <1>1, <1>2

\* A byte with bit 5 means no second port: one is found by a prompt answer only.
LEMMA SecondPortKeeps == ASSUME LateInv, SecondPort PROVE PlaceInv' /\ UnreadInv'
<1> DEFINE tried == IF kinds[2] = "absent" THEN config ELSE config \ {Off(2)}
<1>1. /\ out \in Seq(Msg) /\ Len(out) \in Nat /\ pc = "second" /\ AtSecond
      /\ ports = {1} /\ port = 2 /\ config \in SUBSET Bit
  BY Types DEF LateInv, UnreadInv, PlaceInv, SecondPort
<1>2. tried \in SUBSET Bit /\ tried \subseteq config BY <1>1
<1>3. Off(1) \notin tried /\ IRQ(1) \notin config
  BY <1>1, <1>2, Constants DEF AtSecond, Off, IRQ
<1> HIDE DEF tried
<1>4. Byte(tried) \in 0..255 /\ Bits(Byte(tried)) = tried /\ Byte(tried) # ACK
  BY <1>2, <1>3, NotAck DEF Port
<1>5. PICK r \in Reads(out \o Says(Controller, <<Byte(tried)>>)) :
        /\ out' = r.rest
        /\ IF Off(2) \in Bits(r.val)
           THEN pc' = "test" /\ port' = 1 /\ ports' = ports
           ELSE /\ pc' = "second_config" /\ ports' = ports \cup {2} /\ port' = port
                /\ config' = tried \cup {Off(2)}
  BY DEF SecondPort, tried, ReadConfig, Asks
<1>6. PICK k \in 0..(Len(out) + 1) : Answered(out, Byte(tried), r, k)
  BY <1>1, <1>4, AnsweredIs
<1>7. out' \in Seq(Msg) /\ Len(out') = Len(out) + 1 - k BY <1>5, <1>6 DEF Answered
<1>8. CASE Off(2) \in Bits(r.val)
  <2>1. ASSUME NEW i \in 1..Len(out'), out'[i].val = ACK PROVE i <= 2
    <3>1. \/ i + k \in 1..Len(out) /\ out'[i] = out[i + k]
          \/ out'[i].val = Byte(tried)
      BY <1>5, <1>6 DEF Answered
    <3>2. i + k \in 1..Len(out) BY <1>4, <2>1, <3>1
    <3>3. Len(out) = 2 BY <1>1, <3>2, EmptySeq DEF AtSecond
    <3> QED BY <3>2, <3>3
  <2>2. EarlyAcks' BY <2>1 DEF EarlyAcks
  <2>3. pc' = "test" /\ port' = 1 /\ ports' = {1} BY <1>1, <1>5, <1>8
  <2>4. PlaceInv' BY <2>3 DEF PlaceInv, SettingUp, Talking, Identifying
  <2>5. UnreadInv' BY <2>2, <2>3 DEF UnreadInv, SettingUp
  <2> QED BY <2>4, <2>5
<1>9. CASE Off(2) \notin Bits(r.val)
  <2>1. r.val # TIMEOUT BY <1>9, Constants
  <2>2. k = 1 /\ r.val = IF Len(out) = 0 THEN Byte(tried) ELSE out[1].val
    BY <1>3, <1>6, <2>1 DEF Answered
  <2>3. Len(out) = 0
    <3> SUFFICES ASSUME Len(out) # 0 PROVE FALSE OBVIOUS
    <3>1. out # <<>> BY <1>1
    <3>2. r.val = out[1].val BY <2>2
    <3> QED BY <1>1, <1>9, <3>1, <3>2 DEF AtSecond
  <2>4. out' = <<>> BY <1>7, <2>2, <2>3, EmptySeq
  <2>5. /\ pc' = "second_config" /\ ports' = {1, 2} /\ port' = 2
        /\ config' = tried \cup {Off(2)}
    BY <1>1, <1>5, <1>9
  <2>6. AtSecondConfig'
    BY <1>1, <1>2, <2>4, <2>5, Constants DEF AtSecond, AtSecondConfig, Off
  <2>7. PlaceInv' BY <2>5 DEF PlaceInv, SettingUp, Talking, Identifying
  <2>8. UnreadInv' BY <2>5, <2>6 DEF UnreadInv, SettingUp
  <2> QED BY <2>7, <2>8
<1> QED BY <1>8, <1>9

\* A late answer leaves a byte with bit 5 and without bit 4.
LEMMA SecondConfigKeeps == ASSUME LateInv, SecondConfig PROVE PlaceInv' /\ UnreadInv'
<1>1. /\ out = <<>> /\ out \in Seq(Msg) /\ Len(out) = 0 /\ pc = "second_config"
      /\ AtSecondConfig /\ ports = {1, 2} /\ port = 2 /\ config \in SUBSET Bit
  BY Types DEF LateInv, UnreadInv, PlaceInv, SecondConfig, AtSecondConfig
<1>2. Off(1) \notin config BY <1>1, Constants DEF AtSecondConfig, Off
<1>3. Byte(config) \in 0..255 /\ Bits(Byte(config)) = config /\ Byte(config) # ACK
  BY <1>1, <1>2, NotAck DEF Port
<1>4. Byte(config) # 0 BY <1>1, <1>3, Constants DEF AtSecondConfig
<1>5. PICK r \in Reads(out \o Says(Controller, <<Byte(config)>>)) : out' = r.rest
  BY DEF SecondConfig, ReadConfig, Asks
<1>6. PICK k \in 0..(Len(out) + 1) : Answered(out, Byte(config), r, k)
  BY <1>1, <1>3, AnsweredIs
<1>7. Len(out') <= 1 BY <1>1, <1>5, <1>6 DEF Answered
<1>8. ASSUME out' # <<>> PROVE out'[1].val \notin {0, ACK}
  <2>1. out' \in Seq(Msg) /\ Len(out') # 0 BY <1>5, <1>6, <1>8, EmptySeq DEF Answered
  <2>2. Len(out') = 1
    <3>1. Len(out') \in Nat BY <2>1
    <3> QED BY <1>7, <2>1, <3>1
  <2>3. k <= Len(out)
    <3>1. Len(out') = Len(out) + 1 - k BY <1>5, <1>6 DEF Answered
    <3> QED BY <1>1, <2>2, <3>1
  <2> QED BY <1>3, <1>4, <1>5, <1>6, <2>2, <2>3 DEF Answered
<1>9. AtTestTwo' BY <1>7, <1>8 DEF AtTestTwo
<1>10. pc' = "test" /\ port' = 2 /\ ports' = {1, 2} BY <1>1 DEF SecondConfig
<1>11. PlaceInv' BY <1>10 DEF PlaceInv, SettingUp, Talking, Identifying
<1>12. UnreadInv' BY <1>9, <1>10 DEF UnreadInv, SettingUp
<1> QED BY <1>11, <1>12

\* A port's test leaves the ACKs where they were or earlier, and adds none.
LEMMA PortFailsKeeps == ASSUME LateInv, PortFails PROVE PlaceInv' /\ UnreadInv'
<1> DEFINE v == IF kinds[port] = "broken" THEN 1 ELSE 0
<1>1. /\ out \in Seq(Msg) /\ Len(out) \in Nat /\ pc = "test" /\ port \in Port
      /\ 1 \in ports
  BY Types DEF LateInv, PlaceInv, PortFails
<1>2. PICK r \in Reads(out \o Says(Controller, <<v>>)) : out' = r.rest
  BY DEF PortFails, Test, Asks
<1>3. v \in 0..255 /\ v # ACK BY DEF ACK
<1> HIDE DEF v
<1>4. PICK k \in 0..(Len(out) + 1) : Answered(out, v, r, k) BY <1>1, <1>3, AnsweredIs
<1>5. ASSUME port = 2 PROVE 1 \in ports' /\ EarlyAcks'
  <2>1. AtTestTwo BY <1>1, <1>5 DEF LateInv, UnreadInv
  <2>2. Len(out') <= 2 BY <1>1, <1>2, <1>4, <2>1 DEF AtTestTwo, Answered
  <2>3. 1 \in ports' BY <1>1, <1>5 DEF PortFails
  <2>4. out' \in Seq(Msg) BY <1>2, <1>4 DEF Answered
  <2>5. ASSUME NEW i \in 1..Len(out') PROVE i <= 2 BY <2>2, <2>4
  <2> QED BY <2>3, <2>5 DEF EarlyAcks
<1>6. CASE NextPort BY <1>1, <1>5, <1>6, NextPortKeeps
<1>7. CASE pc' = "panic"
  <2>1. PlaceInv' BY <1>7 DEF PlaceInv, SettingUp, Talking, Identifying
  <2>2. UnreadInv' BY <1>7 DEF UnreadInv, SettingUp
  <2> QED BY <2>1, <2>2
<1> QED BY <1>6, <1>7 DEF PortFails

\* Where a byte gets through, the first n bytes are others' and stood no
\* earlier before; of the device's only the first can be an ACK.
Mixed(s, o, p, n) ==
  \A i \in 1..Len(s) :
    \/ i <= n /\ s[i].from # p /\ \E j \in 1..Len(o) : i <= j /\ s[i] = o[j]
    \/ i > n /\ s[i].from = p /\ (s[i].val = ACK => i = n + 1)

LEMMA MixedIs ==
  ASSUME NEW o \in Seq(Msg), NEW cfg, NEW p \in Port, NEW v \in Command,
         kinds[p] \in Kind, p \in ports, Off(p) \notin cfg
  PROVE  \E u \in Seq(Msg) :
           /\ From(u, o, Len(o), p)
           /\ Mixed(Sent(o, cfg, p, v), o, p, Len(u))
           /\ Len(Sent(o, cfg, p, v)) = Len(u) + Len(Answer(kinds[p], v))
<1> DEFINE s == Sent(o, cfg, p, v)
           a == Answer(kinds[p], v)
<1>1. PICK u \in Seq(Msg) : Follows(s, u, o, p, a) BY SentIs
<1>2. PICK at \in [1..Len(u) -> 1..Len(o)] :
        \A j \in 1..Len(u) : j <= at[j] /\ u[j] = o[at[j]] /\ u[j].from # p
  BY <1>1 DEF Follows, From
<1>3. a \in Seq(0..255) /\ \A i \in 1..Len(a) : a[i] = ACK => i = 1
  BY AnswerAck
<1> HIDE DEF s, a
<1>4. ASSUME NEW i \in 1..Len(s)
      PROVE  \/ i <= Len(u) /\ s[i].from # p /\ \E j \in 1..Len(o) : i <= j /\ s[i] = o[j]
             \/ i > Len(u) /\ s[i].from = p /\ (s[i].val = ACK => i = Len(u) + 1)
  <2>1. Len(u) \in Nat /\ Len(a) \in Nat /\ i \in Nat /\ i >= 1 BY <1>3
  <2>2. CASE i <= Len(u)
    <3>1. i \in 1..Len(u) /\ at[i] \in 1..Len(o) BY <1>2, <2>1, <2>2
    <3>2. s[i] = u[i] BY <1>1, <3>1 DEF Follows
    <3> QED BY <1>2, <2>2, <3>1, <3>2
  <2>3. CASE i > Len(u)
    <3> DEFINE m == i - Len(u)
    <3>1. m \in 1..Len(a) /\ Len(u) + m = i
      <4>1. Len(s) = Len(u) + Len(a) BY <1>1 DEF Follows
      <4> QED BY <2>1, <2>3, <4>1
    <3> HIDE DEF m
    <3>2. s[i].val = a[m] /\ s[i].from = p BY <1>1, <3>1 DEF Follows
    <3>3. s[i].val = ACK => m = 1 BY <1>3, <3>1, <3>2
    <3> QED BY <2>3, <3>1, <3>2, <3>3
  <2> QED BY <2>1, <2>2, <2>3
<1>5. Mixed(s, o, p, Len(u)) BY <1>4 DEF Mixed
<1> QED BY <1>1, <1>5 DEF Follows, s, a

\* A test that is passed has consumed an answer: no ACK but the first byte is
\* left, and none at all at port two.
LEMMA ResetKeeps == ASSUME LateInv, ResetDevice PROVE PlaceInv' /\ UnreadInv'
<1> DEFINE v == IF kinds[port] = "broken" THEN 1 ELSE 0
<1>1. /\ out \in Seq(Msg) /\ Len(out) \in Nat /\ pc = "test" /\ port \in Port
      /\ port \in ports /\ 1 \in ports /\ kinds[port] \in Kind
      /\ port = 2 => AtTestTwo
      /\ port # 2 => EarlyAcks
  BY Types DEF LateInv, PlaceInv, UnreadInv, ResetDevice
<1>2. PICK r \in Reads(out \o Says(Controller, <<v>>)) :
        r.val = 0 /\ out' = Sent(r.rest, config', port, 255)
  BY DEF ResetDevice, Test, Asks, Works
<1>3. v \in 0..255 /\ v # ACK BY DEF ACK
<1> HIDE DEF v
<1>4. PICK k \in 0..(Len(out) + 1) : Answered(out, v, r, k) BY <1>1, <1>3, AnsweredIs
<1>5. /\ r.rest \in Seq(Msg) /\ Len(r.rest) = Len(out) + 1 - k
      /\ \/ k \in 1..Len(out) /\ out[k].val = 0
         \/ k = Len(out) + 1
  BY <1>2, <1>4 DEF Answered, TIMEOUT
<1>6. /\ pc' = "reset" /\ id' = 0 /\ UNCHANGED <<port, ports, kinds>>
      /\ Off(port) \notin config'
  BY DEF ResetDevice, machine
<1>7. Passes' BY <1>6 DEF Passes
<1>c. 255 \in Command BY DEF Command
<1>8. CASE port = 2
  <2>1. Len(r.rest) = 0
    <3>1. AtTestTwo BY <1>1, <1>8
    <3>2. k = Len(out) + 1
      <4> SUFFICES ASSUME k \in 1..Len(out), out[k].val = 0 PROVE FALSE BY <1>5
      <4>1. Len(out) <= 1 BY <3>1 DEF AtTestTwo
      <4>2. k = 1 /\ out # <<>> BY <1>1, <4>1
      <4> QED BY <3>1, <4>2 DEF AtTestTwo
    <3> QED BY <1>1, <1>5, <3>2
  <2> DEFINE a == Answer(kinds[port], 255)
  <2>2. out' = Says(port, a)
    <3>1. Empty(r.rest) BY <1>5, <2>1 DEF Empty
    <3>2. Sent(r.rest, config', port, 255) = Says(port, Answer(kinds[port], 255))
      BY <1>1, <1>6, <1>c, <3>1, SentFirst
    <3> QED BY <1>2, <3>2
  <2>3. a \in Seq(0..255) /\ \A i \in 1..Len(a) : a[i] = ACK => i = 1
    BY <1>1, <1>c, AnswerAck
  <2> HIDE DEF a
  <2>4. \A i \in 1..Len(out') : out'[i].from = port /\ (out'[i].val = ACK => i = 1)
    BY <1>1, <2>2, <2>3, SaysIs
  <2>5. AtReset' BY <1>6, <1>7, <2>4 DEF AtReset, Own
  <2> QED BY <1>1, <1>6, <2>5
      DEF PlaceInv, UnreadInv, SettingUp, Talking, Identifying
<1>9. CASE port # 2
  <2>1. ASSUME NEW i \in 1..Len(r.rest), r.rest[i].val = ACK PROVE i = 1
    <3>1. i + k \in 1..Len(out) /\ out[i + k].val = ACK
      BY <1>3, <1>4, <2>1 DEF Answered
    <3>2. i + k <= 2 BY <1>1, <1>9, <3>1 DEF EarlyAcks
    <3>3. i >= 1 /\ k >= 1 /\ i \in Int /\ k \in Int BY <1>1, <1>5
    <3> QED BY <3>2, <3>3
  <2>2. PICK u \in Seq(Msg) : Mixed(out', r.rest, port, Len(u))
    BY <1>1, <1>2, <1>5, <1>6, <1>c, MixedIs
  <2>3. ASSUME NEW i \in 1..Len(out'), out'[i].val = ACK, out'[i].from # port
        PROVE  i = 1
    <3>1. PICK j \in 1..Len(r.rest) : i <= j /\ out'[i] = r.rest[j]
      BY <2>2, <2>3 DEF Mixed
    <3>2. j = 1 BY <2>1, <2>3, <3>1
    <3> QED BY <3>1, <3>2
  <2>4. ASSUME NEW i \in 1..Len(out'), out'[i].val = ACK, out'[i].from = port
        PROVE  i = Len(u) + 1
    BY <2>2, <2>4 DEF Mixed
  <2>5. AtReset' BY <1>6, <1>7, <1>9, <2>3, <2>4 DEF AtReset
  <2> QED BY <1>1, <1>6, <2>5
      DEF PlaceInv, UnreadInv, SettingUp, Talking, Identifying
<1> QED BY <1>8, <1>9

\* A byte is read: what could be taken for another ACK is gone with it.
LEMMA CollectKeeps == ASSUME LateInv, Collect PROVE PlaceInv' /\ UnreadInv'
<1>1. out \in Seq(Msg) /\ Len(out) \in Nat /\ port \in Port /\ id \in Int
  BY Types DEF LateInv
<1>2. PICK r \in Reads(out) : r.val # TIMEOUT /\ out' = r.rest /\ id' = Appended(r.val)
  BY DEF Collect
<1>3. PICK k \in 0..Len(out) : Taken(out, r, k) /\ Moved(out, r, k) BY <1>1, ReadOn
<1>4. k >= 1 /\ r.val = out[k].val /\ k \in 1..Len(out) BY <1>1, <1>2, <1>3 DEF Taken
<1>5. \A i \in 1..Len(out') : i + k \in 1..Len(out) /\ i + k # 1 /\ out'[i] = out[i + k]
  BY <1>1, <1>2, <1>3, <1>4 DEF Moved
<1>6. pc \in {"reset", "identity"} /\ UNCHANGED <<pc, port, ports, config, kinds>>
  BY DEF Collect, machine
<1>7. PlaceInv'
  BY <1>6 DEF LateInv, PlaceInv, SettingUp, Talking, Identifying
<1>8. CASE pc = "reset"
  <2>1. AtReset BY <1>8 DEF LateInv, UnreadInv
  <2>2. ASSUME NEW i \in 1..Len(out') PROVE ~ (out'[i].val = ACK /\ out'[i].from # port)
    <3>1. i + k \in 1..Len(out) /\ i + k # 1 /\ out'[i] = out[i + k] BY <1>5
    <3> QED BY <2>1, <3>1 DEF AtReset
  <2>3. ASSUME NEW i \in 1..Len(out'), NEW j \in 1..Len(out'),
               out'[i].val = ACK, out'[i].from = port, out'[j].val = ACK,
               out'[j].from = port
        PROVE  i = j
    <3>1. /\ i + k \in 1..Len(out) /\ out'[i] = out[i + k]
          /\ j + k \in 1..Len(out) /\ out'[j] = out[j + k]
      BY <1>5
    <3>2. i + k = j + k BY <2>1, <2>3, <3>1 DEF AtReset
    <3> QED BY <3>2
  <2>4. ASSUME port = 2, NEW i \in 1..Len(out')
        PROVE  out'[i].from = port /\ out'[i].val # ACK
    <3>1. i + k \in 1..Len(out) /\ i + k # 1 /\ out'[i] = out[i + k] BY <1>5
    <3> QED BY <2>1, <2>4, <3>1 DEF AtReset, Own
  <2>5. AtReset' BY <1>6, <2>1, <2>2, <2>3, <2>4 DEF AtReset, Own, Passes
  <2>6. pc' = "reset" BY <1>6, <1>8
  <2> QED BY <1>7, <2>5, <2>6 DEF UnreadInv, SettingUp
<1>9. CASE pc = "identity"
  <2>1. AtIdentity BY <1>9 DEF LateInv, UnreadInv
  <2>2. ASSUME NEW i \in 1..Len(out')
        PROVE  /\ out'[i].from = port /\ out'[i].val # ACK
               /\ kinds[port] # "keyboard" => out'[i].val = 0
    <3>1. i + k \in 1..Len(out) /\ out'[i] = out[i + k] BY <1>5
    <3> QED BY <2>1, <3>1 DEF AtIdentity, Own, AckFree
  <2>3. ASSUME kinds[port] # "keyboard" PROVE id' = 0
    <3>1. id = 0 /\ out[k].val = 0 BY <1>4, <2>1, <2>3 DEF AtIdentity
    <3>2. (256 * 0 + 0) % 65536 = 0 OBVIOUS
    <3> QED BY <1>2, <1>4, <3>1, <3>2 DEF Appended
  <2>4. AtIdentity' BY <1>6, <2>1, <2>2, <2>3 DEF AtIdentity, Own, AckFree, Passes
  <2>5. pc' = "identity" BY <1>6, <1>9
  <2> QED BY <1>7, <2>4, <2>5 DEF UnreadInv, SettingUp
<1> QED BY <1>6, <1>8, <1>9

\* What is left keeps ACKs early.
LEMMA StillEarly ==
  ASSUME out \in Seq(Msg), EarlyAcks, NEW r \in Reads(out), out' = r.rest
  PROVE  EarlyAcks'
<1>1. PICK k \in 0..Len(out) : Moved(out, r, k) BY ReadOn
<1>2. ASSUME NEW i \in 1..Len(out'), out'[i].val = ACK PROVE i <= 2
  <2>1. i + k \in 1..Len(out) /\ out[i + k].val = ACK BY <1>1, <1>2 DEF Moved
  <2>2. i + k <= 2 BY <2>1 DEF EarlyAcks
  <2>3. i \in Int /\ k \in Int /\ k >= 0 BY <1>1 DEF Moved
  <2> QED BY <2>2, <2>3
<1> QED BY <1>2 DEF EarlyAcks

\* Where at most one byte is unread, its place is early.
LEMMA FewEarly == ASSUME out \in Seq(Msg), Len(out) <= 2 PROVE EarlyAcks
<1> QED BY DEF EarlyAcks

LEMMA NoDeviceKeeps == ASSUME LateInv, NoDevice PROVE PlaceInv' /\ UnreadInv'
<1>1. /\ out \in Seq(Msg) /\ port \in Port /\ pc = "reset" /\ AtReset /\ 1 \in ports
  BY Types DEF LateInv, UnreadInv, PlaceInv, NoDevice, Talking
<1>2. port = 2 => 1 \in ports' /\ EarlyAcks'
  <2> SUFFICES ASSUME port = 2 PROVE 1 \in ports' /\ EarlyAcks' OBVIOUS
  <2>1. EarlyAcks BY <1>1 DEF AtReset, EarlyAcks
  <2> QED BY <1>1, <2>1, StillEarly DEF NoDevice
<1> QED BY <1>1, <1>2, NextPortKeeps DEF NoDevice

LEMMA NotIdentifiedKeeps == ASSUME LateInv, NotIdentified PROVE PlaceInv' /\ UnreadInv'
<1>1. out \in Seq(Msg) /\ Len(out) \in Nat /\ port \in Port /\ 1 \in ports
  BY Types DEF LateInv, PlaceInv, NotIdentified, Talking, Identifying
<1>2. port = 2 => 1 \in ports' /\ EarlyAcks'
  <2> SUFFICES ASSUME port = 2 PROVE 1 \in ports' /\ EarlyAcks' OBVIOUS
  <2>1. EarlyAcks
    <3>1. CASE pc = "disable" BY <3>1 DEF LateInv, UnreadInv, AtDisable
    <3>2. CASE pc = "identify" BY <3>2 DEF LateInv, UnreadInv, AtIdentify
    <3>3. CASE pc = "enable"
      <4>1. Len(out) <= 1 BY <3>3 DEF LateInv, UnreadInv, AtEnable
      <4>2. Len(out) <= 2 BY <1>1, <4>1
      <4> QED BY <1>1, <4>2, FewEarly
    <3> QED BY <3>1, <3>2, <3>3 DEF NotIdentified
  <2> QED BY <1>1, <2>1, StillEarly DEF NotIdentified
<1> QED BY <1>1, <1>2, NextPortKeeps DEF NotIdentified

\* An id has been read, so no ACK of another sender is left; the configuration,
\* read with the port on, is none either.
LEMMA IdentifyKeeps == ASSUME LateInv, Identify PROVE PlaceInv' /\ UnreadInv'
<1>1. /\ out \in Seq(Msg) /\ Len(out) \in Nat /\ pc = "reset" /\ AtReset /\ port \in Port
      /\ port \in ports /\ 1 \in ports /\ kinds[port] \in Kind /\ config \in SUBSET Bit
  BY Types DEF LateInv, UnreadInv, PlaceInv, Identify, Talking
<1>2. Byte(config) \in 0..255 /\ Byte(config) # ACK BY <1>1, NotAck DEF AtReset, Passes
<1>3. id # 0 BY DEF Identify, Unusable
<1>4. PICK r \in Reads(out) :
        \E c \in Reads(r.rest \o Says(Controller, <<Byte(config)>>)) :
          out' = Sent(c.rest, config', port, 245)
  BY DEF Identify
<1>5. PICK m \in 0..Len(out) : Moved(out, r, m) BY <1>1, ReadOn
<1>6. /\ r.rest \in Seq(Msg) /\ m \in Nat
      /\ \A i \in 1..Len(r.rest) : i + m \in 1..Len(out) /\ r.rest[i] = out[i + m]
  BY <1>5 DEF Moved
<1>7. PICK c \in Reads(r.rest \o Says(Controller, <<Byte(config)>>)) :
        out' = Sent(c.rest, config', port, 245)
  BY <1>4
<1>8. PICK k \in 0..(Len(r.rest) + 1) : Answered(r.rest, Byte(config), c, k)
  BY <1>2, <1>6, AnsweredIs
<1> DEFINE n == m + k
<1>9. ASSUME NEW i \in 1..Len(c.rest)
      PROVE  \/ i + n \in 1..Len(out) /\ c.rest[i] = out[i + n]
             \/ i = Len(c.rest) /\ c.rest[i].from = 0 /\ c.rest[i].val # ACK
  <2>1. CASE i + k \in 1..Len(r.rest) /\ c.rest[i] = r.rest[i + k]
    <3>1. (i + k) + m \in 1..Len(out) /\ r.rest[i + k] = out[(i + k) + m] BY <1>6, <2>1
    <3>2. (i + k) + m = i + n BY <1>6
    <3> QED BY <2>1, <3>1, <3>2
  <2>2. CASE i = Len(c.rest) /\ c.rest[i].from = 0 /\ c.rest[i].val = Byte(config)
    BY <1>2, <2>2
  <2> QED BY <1>8, <2>1, <2>2 DEF Answered
<1>10. n \in Nat /\ c.rest \in Seq(Msg) BY <1>6, <1>8 DEF Answered
<1> HIDE DEF n
<1>11. ASSUME NEW i \in 1..Len(c.rest), c.rest[i].val = ACK
       PROVE  i + n \in 1..Len(out) /\ out[i + n].val = ACK /\ c.rest[i].from = port
              /\ out[i + n].from = port
  <2>1. i + n \in 1..Len(out) /\ c.rest[i] = out[i + n] BY <1>9, <1>11
  <2>2. out[i + n].from = port BY <1>1, <1>3, <1>11, <2>1 DEF AtReset
  <2> QED BY <1>11, <2>1, <2>2
<1>12. ASSUME NEW i \in 1..Len(c.rest), NEW j \in 1..Len(c.rest),
              c.rest[i].val = ACK, c.rest[j].val = ACK
       PROVE  i = j
  <2>1. i + n = j + n BY <1>1, <1>11, <1>12 DEF AtReset
  <2> QED BY <1>10, <2>1
<1>13. ASSUME port = 2, NEW i \in 1..Len(c.rest)
       PROVE  c.rest[i].val # ACK /\ (c.rest[i].from # port => i = Len(c.rest))
  <2>1. c.rest[i].val # ACK
    <3> SUFFICES ASSUME c.rest[i].val = ACK PROVE FALSE OBVIOUS
    <3> QED BY <1>1, <1>3, <1>11, <1>13 DEF AtReset
  <2>2. ASSUME c.rest[i].from # port PROVE i = Len(c.rest)
    BY <1>1, <1>9, <1>13, <2>2 DEF AtReset, Own
  <2> QED BY <2>1, <2>2
<1>14. pc' = "disable" /\ UNCHANGED <<port, ports, kinds>> BY DEF Identify, machine
<1>c. 245 \in Command BY DEF Command
<1>15. CASE Off(port) \in config'
  <2>1. out' = c.rest BY <1>1, <1>7, <1>10, <1>15, <1>c, SentIs
  <2>2. ~ Passes' BY <1>14, <1>15 DEF Passes
  <2>3. port = 2 => EarlyAcks' BY <1>13, <2>1 DEF EarlyAcks
  <2>4. AtDisable' BY <1>11, <1>12, <1>14, <2>1, <2>2, <2>3 DEF AtDisable
  <2> QED BY <1>1, <1>14, <2>4
      DEF PlaceInv, UnreadInv, SettingUp, Talking, Identifying
<1>16. CASE Off(port) \notin config'
  <2>1. PICK u \in Seq(Msg) :
          /\ From(u, c.rest, Len(c.rest), port)
          /\ Mixed(out', c.rest, port, Len(u))
          /\ Len(out') = Len(u) + Len(Answer(kinds[port], 245))
    BY <1>1, <1>7, <1>10, <1>16, <1>c, MixedIs
  <2>2. Len(Answer(kinds[port], 245)) \in {0, 1}
    <3>1. 245 \in Command \ {255, 242} BY DEF Command
    <3>2. Answer(kinds[port], 245) \in {<<>>, <<ACK>>} BY <1>1, <3>1, Answers
    <3>3. Len(<<>>) = 0 /\ Len(<<ACK>>) = 1 OBVIOUS
    <3> QED BY <3>2, <3>3
  <2>3. ASSUME NEW i \in 1..Len(out'), out'[i].from = port PROVE i = Len(out')
    <3>1. i > Len(u) BY <2>1, <2>3 DEF Mixed
    <3>2. Len(u) \in Nat /\ i \in Nat /\ i <= Len(out') /\ Len(out') \in Nat
      BY <2>1, <2>2
    <3>3. \A x, y, z \in Nat, w \in {0, 1} : x > y /\ x <= z /\ z = y + w => x = z OBVIOUS
    <3> QED BY <2>1, <2>2, <3>1, <3>2, <3>3
  <2>4. ASSUME NEW i \in 1..Len(out'), out'[i].val = ACK
        PROVE  out'[i].from = port
    <3> SUFFICES ASSUME out'[i].from # port PROVE FALSE OBVIOUS
    <3>1. PICK j \in 1..Len(c.rest) : out'[i] = c.rest[j] BY <2>1 DEF Mixed
    <3> QED BY <1>11, <2>4, <3>1
  <2>5. ASSUME port = 2 PROVE Len(u) <= 1
    <3> SUFFICES ASSUME Len(u) > 1 PROVE FALSE
      <4>1. Len(u) \in Nat OBVIOUS
      <4> QED BY <4>1
    <3>1. PICK at \in [1..Len(u) -> 1..Len(c.rest)] :
            /\ \A j \in 1..Len(u) : u[j] = c.rest[at[j]] /\ u[j].from # port
            /\ \A i, j \in 1..Len(u) : i < j => at[i] < at[j]
      BY <2>1 DEF From
    <3>2. 1 \in 1..Len(u) /\ 2 \in 1..Len(u) OBVIOUS
    <3>3. at[1] \in 1..Len(c.rest) /\ at[2] \in 1..Len(c.rest) BY <3>1, <3>2
    <3>4. at[1] = Len(c.rest) /\ at[2] = Len(c.rest) BY <1>13, <2>5, <3>1, <3>2, <3>3
    <3>5. at[1] < at[2] BY <3>1, <3>2
    <3> QED BY <3>3, <3>4, <3>5
  <2>6. port = 2 => EarlyAcks'
    <3> SUFFICES ASSUME port = 2, NEW i \in 1..Len(out') PROVE i <= 2
      BY <1>14 DEF EarlyAcks
    <3>1. Len(u) \in Nat /\ Len(u) <= 1 /\ i \in Nat /\ i <= Len(out') /\ Len(out') \in Nat
      BY <2>1, <2>2, <2>5
    <3>2. \A x, y, z \in Nat, w \in {0, 1} : y <= 1 /\ x <= z /\ z = y + w => x <= 2 OBVIOUS
    <3> QED BY <2>1, <2>2, <3>1, <3>2
  <2>7. AtDisable' BY <1>14, <2>3, <2>4, <2>6 DEF AtDisable, Passes
  <2> QED BY <1>1, <1>14, <2>7
      DEF PlaceInv, UnreadInv, SettingUp, Talking, Identifying
<1> QED BY <1>15, <1>16

\* The ACK that is read is the port's last byte, or nothing more is sent.
LEMMA DisabledKeeps == ASSUME LateInv, Disabled PROVE PlaceInv' /\ UnreadInv'
<1>1. /\ out \in Seq(Msg) /\ Len(out) \in Nat /\ pc = "disable" /\ AtDisable
      /\ port \in Port /\ port \in ports /\ 1 \in ports /\ kinds[port] \in Kind
  BY Types DEF LateInv, UnreadInv, PlaceInv, Disabled, Talking, Identifying
<1>2. PICK r \in Reads(out) : r.val = ACK /\ out' = Sent(r.rest, config, port, 242)
  BY DEF Disabled, IsAck
<1>3. PICK k \in 0..Len(out) : Taken(out, r, k) /\ Moved(out, r, k) BY <1>1, ReadOn
<1>4. k \in 1..Len(out) /\ out[k].val = ACK /\ out[k].from = port
  <2>1. k >= 1 /\ out[k].val = ACK BY <1>2, <1>3 DEF Taken, ACK, TIMEOUT
  <2> QED BY <1>1, <2>1 DEF AtDisable
<1>5. pc' = "identify" /\ UNCHANGED <<port, ports, kinds, config>> BY DEF Disabled, machine
<1>6. PlaceInv' BY <1>1, <1>5 DEF PlaceInv, SettingUp, Talking, Identifying
<1>7. AtIdentify' => UnreadInv' BY <1>5 DEF UnreadInv, SettingUp
<1>c. 242 \in Command BY DEF Command
<1>8. r.rest \in Seq(Msg) /\ Len(r.rest) = Len(out) - k BY <1>3 DEF Moved
<1>9. CASE Passes
  <2> DEFINE a == Answer(kinds[port], 242)
  <2>1. k = Len(out) BY <1>1, <1>4, <1>9 DEF AtDisable
  <2>2. Len(r.rest) = 0 BY <1>1, <1>8, <2>1
  <2>3. \A i \in 1..Len(r.rest) : r.rest[i].from = port BY <2>2
  <2>4. out' = Says(port, a)
    <3>1. Sent(r.rest, config, port, 242) = Says(port, a)
      BY <1>1, <1>8, <1>9, <1>c, <2>3, SentAlone DEF Passes
    <3> QED BY <1>2, <3>1
  <2>5. a \in Seq(0..255) /\ \A i \in 1..Len(a) : a[i] = ACK => i = 1
    BY <1>1, <1>c, AnswerAck
  <2>6. EarlyAcks'
    <3> HIDE DEF a
    <3>1. \A i \in 1..Len(out') : out'[i].val = ACK => i = 1 BY <1>1, <2>4, <2>5, SaysIs
    <3> QED BY <3>1 DEF EarlyAcks
  <2>7. AtIdentify' BY <1>5, <1>9, <2>4, <2>6 DEF AtIdentify, Passes
  <2> QED BY <1>6, <1>7, <2>7
<1>10. CASE ~ Passes
  <2>1. out' = r.rest BY <1>1, <1>2, <1>8, <1>10, <1>c, SentIs DEF Passes
  <2>2. ASSUME NEW i \in 1..Len(out') PROVE out'[i].val # ACK
    <3>1. i + k \in 1..Len(out) /\ out'[i] = out[i + k] BY <1>3, <2>1 DEF Moved
    <3> SUFFICES ASSUME out[i + k].val = ACK PROVE FALSE BY <3>1
    <3>2. i + k = k BY <1>1, <1>4, <3>1 DEF AtDisable
    <3> QED BY <1>4, <3>2
  <2>3. AckFree' /\ EarlyAcks' BY <2>2 DEF AckFree, EarlyAcks
  <2>4. AtIdentify' BY <2>3 DEF AtIdentify
  <2> QED BY <1>6, <1>7, <2>4
<1> QED BY <1>9, <1>10

\* The ACK is the answer's first byte; the identity follows.
LEMMA IdentifiedKeeps == ASSUME LateInv, Identified PROVE PlaceInv' /\ UnreadInv'
<1> DEFINE a == Answer(kinds[port], 242)
<1>1. /\ out \in Seq(Msg) /\ Len(out) \in Nat /\ pc = "identify" /\ AtIdentify
      /\ port \in Port /\ port \in ports /\ 1 \in ports /\ kinds[port] \in Kind
  BY Types DEF LateInv, UnreadInv, PlaceInv, Identified, Talking, Identifying
<1>2. PICK r \in Reads(out) : r.val = ACK /\ out' = r.rest BY DEF Identified, IsAck
<1>3. PICK k \in 0..Len(out) : Taken(out, r, k) /\ Moved(out, r, k) BY <1>1, ReadOn
<1>4. k \in 1..Len(out) /\ out[k].val = ACK
  BY <1>1, <1>2, <1>3 DEF Taken, ACK, TIMEOUT
<1>5. Passes /\ out = Says(port, a) BY <1>1, <1>4 DEF AtIdentify, AckFree
<1>c. 242 \in Command BY DEF Command
<1>6. a \in Seq(0..255) /\ \A i \in 1..Len(a) : a[i] = ACK => i = 1
  BY <1>1, <1>c, AnswerAck
<1>7. kinds[port] # "keyboard" => \A i \in 1..Len(a) : i = 1 \/ a[i] = 0
  <2>1. CASE kinds[port] = "mouse"
    <3>1. a = <<ACK, 0>> BY <1>1, <2>1, Answers
    <3>2. Len(<<ACK, 0>>) = 2 /\ <<ACK, 0>>[2] = 0 OBVIOUS
    <3> HIDE DEF a
    <3> QED BY <3>1, <3>2
  <2>2. CASE kinds[port] \notin {"mouse", "keyboard"}
    <3>1. a = <<>> BY <1>1, <2>2, Answers
    <3> HIDE DEF a
    <3> QED BY <3>1
  <2> QED BY <2>1, <2>2
<1> HIDE DEF a
<1>8. /\ Len(out) = Len(a)
      /\ \A i \in 1..Len(out) : out[i].val = a[i] /\ out[i].from = port
  BY <1>1, <1>5, <1>6, SaysIs
<1>9. k = 1 BY <1>4, <1>6, <1>8
<1>10. ASSUME NEW i \in 1..Len(out')
       PROVE  /\ out'[i].from = port /\ out'[i].val # ACK
              /\ kinds[port] # "keyboard" => out'[i].val = 0
  <2>1. i + 1 \in 1..Len(out) /\ out'[i] = out[i + 1] BY <1>2, <1>3, <1>9 DEF Moved
  <2>2. i + 1 # 1 OBVIOUS
  <2>3. out'[i].val = a[i + 1] /\ i + 1 \in 1..Len(a) BY <1>8, <2>1
  <2> QED BY <1>6, <1>7, <1>8, <2>1, <2>2, <2>3
<1>11. pc' = "identity" /\ id' = 0 /\ UNCHANGED <<port, ports, kinds, config>>
  BY DEF Identified, machine
<1>12. AtIdentity' BY <1>5, <1>10, <1>11 DEF AtIdentity, Own, AckFree, Passes
<1>13. PlaceInv' BY <1>1, <1>11 DEF PlaceInv, SettingUp, Talking, Identifying
<1>14. UnreadInv' BY <1>11, <1>12 DEF UnreadInv, SettingUp
<1> QED BY <1>13, <1>14

\* One byte at most answers, and nothing else is there.
LEMMA OneAnswer ==
  ASSUME NEW o \in Seq(Msg), NEW cfg, NEW p \in Port, NEW v \in Command \ {255, 242},
         kinds[p] \in Kind, p \in ports, Off(p) \notin cfg,
         \A i \in 1..Len(o) : o[i].from = p
  PROVE  /\ Sent(o, cfg, p, v) \in Seq(Msg) /\ Len(Sent(o, cfg, p, v)) <= 1
         /\ \A i \in 1..Len(Sent(o, cfg, p, v)) : Sent(o, cfg, p, v)[i].from = p
<1> DEFINE a == Answer(kinds[p], v)
<1>1. a \in Seq(0..255) BY AnswerAck
<1>2. Len(a) <= 1
  <2>1. a \in {<<>>, <<ACK>>} BY Answers
  <2>2. Len(<<>>) = 0 /\ Len(<<ACK>>) = 1 OBVIOUS
  <2> HIDE DEF a
  <2>3. CASE a = <<>> BY <2>2, <2>3
  <2>4. CASE a = <<ACK>> BY <2>2, <2>4
  <2> QED BY <2>1, <2>3, <2>4
<1>3. Sent(o, cfg, p, v) = Says(p, a) BY SentAlone
<1> HIDE DEF a
<1> QED BY <1>1, <1>2, <1>3, SaysIs

\* At most one byte, of p.
Alone(o, p) ==
  o \in Seq(Msg) /\ Len(o) <= 1 /\ \A i \in 1..Len(o) : o[i].from = p

LEMMA StillAlone ==
  ASSUME NEW o, NEW cfg, NEW p \in Port, NEW v \in Command \ {255, 242},
         kinds[p] \in Kind, Alone(o, p)
  PROVE  Alone(Sent(o, cfg, p, v), p)
<1>1. /\ o \in Seq(Msg) /\ Len(o) <= 1
      /\ \A i \in 1..Len(o) : o[i].from = p
  BY DEF Alone
<1>2. CASE p \in ports /\ Off(p) \notin cfg BY <1>1, <1>2, OneAnswer DEF Alone
<1>3. CASE ~ (p \in ports /\ Off(p) \notin cfg)
  <2>1. Sent(o, cfg, p, v) = o BY <1>1, <1>3, SentIs
  <2> QED BY <2>1
<1> QED BY <1>2, <1>3

LEMMA EnableKeeps == ASSUME LateInv, Enable PROVE PlaceInv' /\ UnreadInv'
<1>1. /\ out \in Seq(Msg) /\ pc = "identity" /\ AtIdentity
      /\ port \in Port /\ port \in ports /\ 1 \in ports /\ kinds[port] \in Kind
  BY Types DEF LateInv, UnreadInv, PlaceInv, Enable, Talking, Identifying
<1>2. PICK r \in Reads(out) : out' = Sent(r.rest, config, port, 244) BY DEF Enable
<1>3. PICK k \in 0..Len(out) : Moved(out, r, k) BY <1>1, ReadOn
<1>4. r.rest \in Seq(Msg) /\ \A i \in 1..Len(r.rest) : r.rest[i].from = port
  BY <1>1, <1>3 DEF Moved, AtIdentity, Own
<1>5. 244 \in Command \ {255, 242} BY DEF Command
<1>6. Len(out') <= 1 /\ \A i \in 1..Len(out') : out'[i].from = port
  BY <1>1, <1>2, <1>4, <1>5, OneAnswer DEF AtIdentity, Passes
<1>7. pc' = "enable" /\ UNCHANGED <<port, ports, kinds, id>> BY DEF Enable, machine, locals
<1>8. AtEnable' BY <1>1, <1>6, <1>7 DEF AtIdentity, AtEnable, Own
<1>9. PlaceInv' BY <1>1, <1>7 DEF PlaceInv, SettingUp, Talking, Identifying
<1>10. UnreadInv' BY <1>7, <1>8 DEF UnreadInv, SettingUp
<1> QED BY <1>9, <1>10

\* What is left of one byte of the port.
LEMMA OneLeft ==
  ASSUME NEW o \in Seq(Msg), NEW r \in Reads(o), Len(o) <= 1,
         \A i \in 1..Len(o) : o[i].from = port
  PROVE  /\ r.rest \in Seq(Msg) /\ Len(r.rest) <= 1
         /\ \A i \in 1..Len(r.rest) : r.rest[i].from = port
<1>1. PICK k \in 0..Len(o) : Moved(o, r, k) BY ReadOn
<1>2. /\ r.rest \in Seq(Msg) /\ Len(r.rest) = Len(o) - k /\ Len(o) \in Nat
      /\ \A i \in 1..Len(r.rest) : r.rest[i].from = port
  BY <1>1 DEF Moved
<1> QED BY <1>2

LEMMA EnabledKeeps == ASSUME LateInv, Enabled PROVE PlaceInv' /\ UnreadInv'
<1>1. /\ out \in Seq(Msg) /\ pc = "enable" /\ AtEnable
      /\ port \in Port /\ port \in ports /\ 1 \in ports
  BY Types DEF LateInv, UnreadInv, PlaceInv, Enabled, Talking, Identifying
<1>2. PICK r \in Reads(out) : out' = r.rest BY DEF Enabled
<1>3. /\ out' \in Seq(Msg) /\ Len(out') <= 1
      /\ \A i \in 1..Len(out') : out'[i].from = port
  BY <1>1, <1>2, OneLeft DEF AtEnable, Own
<1>4. UNCHANGED ports BY DEF Enabled
<1>5. CASE NextPort
  <2>1. EarlyAcks' BY <1>3 DEF EarlyAcks
  <2> QED BY <1>1, <1>4, <1>5, <2>1, NextPortKeeps
<1>6. CASE pc' = "scan_codes" /\ tries' = 1 /\ UNCHANGED port
  <2>1. AtSetUp' BY <1>3, <1>6 DEF AtSetUp, Own
  <2>2. PlaceInv' BY <1>1, <1>4, <1>6 DEF PlaceInv, SettingUp, Talking, Identifying
  <2>3. UnreadInv' BY <1>6, <2>1 DEF UnreadInv, SettingUp
  <2> QED BY <2>2, <2>3
<1> QED BY <1>5, <1>6 DEF Enabled

LEMMA KeyboardInitKeeps == ASSUME LateInv, KeyboardInit PROVE PlaceInv' /\ UnreadInv'
<1> DEFINE first == Sent(out, config, port, 240)
           sent == Sent(first, config, port, 2)
<1>1. /\ out \in Seq(Msg) /\ pc \in SettingUp /\ Own /\ Len(out) <= 1 /\ port \in Port
      /\ port \in ports /\ 1 \in ports /\ kinds[port] \in Kind /\ tries \in 1..3
  BY Types
  DEF LateInv, UnreadInv, PlaceInv, KeyboardInit, Talking, SettingUp, AtSetUp
<1>2. 240 \in Command \ {255, 242} /\ 2 \in Command \ {255, 242} BY DEF Command
<1>3. Alone(out, port) BY <1>1 DEF Alone, Own
<1>4. Alone(sent, port)
  <2>1. Alone(first, port) BY <1>1, <1>2, <1>3, StillAlone
  <2> HIDE DEF first
  <2> QED BY <1>1, <1>2, <2>1, StillAlone
<1>5. PICK r \in Reads(sent) :
        /\ out' = r.rest
        /\ \/ tries < 3 /\ tries' = tries + 1 /\ UNCHANGED <<pc, port>>
           \/ tries' = 1 /\ ((pc' = "lights" /\ UNCHANGED port) \/ NextPort)
  BY DEF KeyboardInit, NextTry
<1> HIDE DEF first, sent
<1>6. /\ out' \in Seq(Msg) /\ Len(out') <= 1
      /\ \A i \in 1..Len(out') : out'[i].from = port
  BY <1>4, <1>5, OneLeft DEF Alone
<1>7. UNCHANGED ports BY DEF KeyboardInit
<1>8. CASE NextPort
  <2>1. EarlyAcks' BY <1>6 DEF EarlyAcks
  <2> QED BY <1>1, <1>7, <1>8, <2>1, NextPortKeeps
<1>9. CASE pc' \in SettingUp /\ tries' \in 1..3 /\ UNCHANGED port
  <2>1. AtSetUp' BY <1>6, <1>9 DEF AtSetUp, Own
  <2>2. PlaceInv' BY <1>1, <1>7, <1>9 DEF PlaceInv, SettingUp, Talking, Identifying
  <2>3. UnreadInv' BY <1>9, <2>1 DEF UnreadInv, SettingUp
  <2> QED BY <2>2, <2>3
<1>10. CASE tries < 3 /\ tries' = tries + 1 /\ UNCHANGED <<pc, port>>
  <2>1. tries' \in 1..3 BY <1>1, <1>10
  <2> QED BY <1>1, <1>9, <1>10, <2>1
<1>11. CASE tries' = 1 /\ pc' = "lights" /\ UNCHANGED port
  BY <1>9, <1>11 DEF SettingUp
<1> QED BY <1>5, <1>8, <1>10, <1>11

\* Every step keeps what can be unread where.
LEMMA LateKeeps == ASSUME LateInv, [Next]_vars PROVE LateInv'
<1>1. TypeOK' BY TypeKeeps DEF LateInv
<1>2. PlaceInv' /\ UnreadInv'
  <2>1. CASE EnableIrqs
    <3>1. pc' = "done" BY <2>1 DEF EnableIrqs
    <3> QED BY <3>1 DEF PlaceInv, UnreadInv, SettingUp, Talking, Identifying
  <2>2. CASE UNCHANGED vars
    <3>1. PlaceInv' BY <2>2 DEF LateInv, vars, machine, locals, PlaceInv
    <3>2. UnreadInv'
      BY <2>2 DEF LateInv, vars, machine, locals, UnreadInv, AtClear, AtSelfTest,
                  AtSecond, AtSecondConfig, AtTestTwo, AtReset, AtDisable, AtIdentify,
                  AtIdentity, AtEnable, AtSetUp, Passes, Own, AckFree, EarlyAcks
    <3> QED BY <3>1, <3>2
  <2> QED BY <2>1, <2>2, FlushKeeps, ClearConfigKeeps, SelfTestKeeps, SecondPortKeeps,
             SecondConfigKeeps, PortFailsKeeps, ResetKeeps, CollectKeeps, NoDeviceKeeps,
             IdentifyKeeps, NotIdentifiedKeeps, DisabledKeeps, IdentifiedKeeps,
             EnableKeeps, EnabledKeeps, KeyboardInitKeeps
          DEF Next
<1> QED BY <1>1, <1>2 DEF LateInv

\* The invariant holds always.
LEMMA AlwaysLate == Spec => []LateInv
<1>1. Init => LateInv BY LateInit
<1>2. LateInv /\ [Next]_vars => LateInv' BY LateKeeps
<1> QED BY <1>1, <1>2, PTL DEF Spec

\* Variables keep their types: an id has 16 bits, three attempts are made at
\* most, whatever is read.
THEOREM TypeCorrect == Spec => []TypeOK
<1>1. LateInv => TypeOK BY DEF LateInv
<1> QED BY <1>1, AlwaysLate, PTL

\* Only Enabled gives a port a device, and an id only a keyboard has.
LEMMA PhantomKeeps ==
  ASSUME LateInv, NoPhantomKeyboard, [Next]_vars
  PROVE  NoPhantomKeyboard'
<1>1. device \in [Port -> 0..NONE] /\ port \in Port BY Types DEF LateInv
<1>2. UNCHANGED kinds
  BY DEF Next, vars, machine, Flush, ClearConfig, SelfTest, SecondPort, SecondConfig,
         PortFails, ResetDevice, Collect, NoDevice, Identify, NotIdentified, Disabled,
         Identified, Enable, Enabled, KeyboardInit, EnableIrqs
<1>3. \/ UNCHANGED device
      \/ device' = [device EXCEPT ![port] = NONE]
      \/ pc = "enable" /\ device' = [device EXCEPT ![port] = id]
  BY DEF Next, vars, Flush, ClearConfig, SelfTest, SecondPort, SecondConfig,
         PortFails, ResetDevice, Collect, NoDevice, Identify, NotIdentified, Disabled,
         Identified, Enable, Enabled, KeyboardInit, EnableIrqs
<1>4. CASE UNCHANGED device BY <1>2, <1>4 DEF NoPhantomKeyboard, Keyboards
<1>5. CASE device' = [device EXCEPT ![port] = NONE]
  BY <1>1, <1>2, <1>5 DEF NoPhantomKeyboard, Keyboards
<1>6. CASE pc = "enable" /\ device' = [device EXCEPT ![port] = id]
  <2>1. kinds[port] # "keyboard" => id = 0 BY <1>6 DEF LateInv, UnreadInv, AtEnable
  <2> QED BY <1>1, <1>2, <1>6, <2>1 DEF NoPhantomKeyboard, Keyboards
<1> QED BY <1>3, <1>4, <1>5, <1>6

\* However late answers come, one port's answers, or the controller's, are
\* never taken for a keyboard at a port that has none.
THEOREM NeverPhantom == Spec => []NoPhantomKeyboard
<1>1. Init => NoPhantomKeyboard BY DEF Init, NoPhantomKeyboard, Port, Keyboards
<1>2. LateInv /\ NoPhantomKeyboard /\ [Next]_vars => NoPhantomKeyboard' BY PhantomKeeps
<1> QED BY <1>1, <1>2, AlwaysLate, PTL DEF Spec

------------------------------------------------------------------------------
(***************************************************************************)
(* Prompt answers: what is unread is what the command that was sent last   *)
(* still has to answer, and every port that is finished is set up.         *)

Left(vals) == out = Says(port, vals)
Usable == kinds[port] \in {"keyboard", "mouse"}

\* What a device has answered to its reset, and what is to come.
DueAtReset ==
  \/ /\ kinds[port] = "keyboard"
     /\ \/ Left(<<ACK, 170>>) /\ id = 0
        \/ Left(<<170>>) /\ id = 250
        \/ Left(<<>>) /\ id = 64170
  \/ /\ kinds[port] = "mouse"
     /\ \/ Left(<<ACK, 170, 0>>) /\ id = 0
        \/ Left(<<170, 0>>) /\ id = 250
        \/ Left(<<0>>) /\ id = 64170
        \/ Left(<<>>) /\ id = 43520
  \/ /\ kinds[port] = "faulty"
     /\ \/ Left(<<ACK, 252>>) /\ id = 0
        \/ Left(<<252>>) /\ id = 250
        \/ Left(<<>>) /\ id = 64252
  \/ kinds[port] \notin {"keyboard", "mouse", "faulty"} /\ Left(<<>>) /\ id = 0
DueAtDisable == Usable /\ Left(<<ACK>>)
DueAtIdentify == Usable /\ Left(Answer(kinds[port], 242))
DueAtIdentity ==
  \/ /\ kinds[port] = "keyboard"
     /\ \/ Left(<<171, 131>>) /\ id = 0
        \/ Left(<<131>>) /\ id = 171
        \/ Left(<<>>) /\ id = 43907
  \/ kinds[port] = "mouse" /\ id = 0 /\ (Left(<<0>>) \/ Left(<<>>))
DueAtEnable ==
  Usable /\ Left(<<ACK>>) /\ id = IF kinds[port] = "keyboard" THEN 43907 ELSE 0
DueAtSetUp == kinds[port] = "keyboard" /\ out = <<>>

DueInv ==
  /\ pc \notin {"flush"} \cup Talking => out = <<>>
  /\ pc = "reset" => DueAtReset
  /\ pc = "disable" => DueAtDisable
  /\ pc = "identify" => DueAtIdentify
  /\ pc = "identity" => DueAtIdentity
  /\ pc = "enable" => DueAtEnable
  /\ pc \in SettingUp => DueAtSetUp

\* Until the end the controller neither interrupts nor translates.
ConfigInv ==
  /\ pc \in {"selftest", "second", "second_config", "test", "enable_irqs"} \cup Talking
       => IRQ(1) \notin config /\ TRANSLATION \notin config
  /\ pc \in {"selftest", "second", "second_config"} => Off(2) \in config
  /\ pc \in Talking => Passes
  /\ pc \in Identifying => saved = config

Works2 == kinds[2] \notin {"absent", "broken"}

PortsInv ==
  /\ pc = "second_config" \/ (pc = "test" /\ port = 2) => kinds[2] # "absent"
  /\ pc \in Talking => kinds[port] \notin {"absent", "broken"}
  /\ port = 1 /\ pc \in {"test"} \cup Talking => (2 \in ports <=> Works2)
  /\ pc = "enable_irqs" => kinds[1] = "broken" \/ 1 \in ports
  /\ pc = "panic" => kinds[1] = "broken" /\ ~ Works2

Finished == IF pc \in {"enable_irqs", "done"} THEN Port
            ELSE (IF port = 1 /\ pc \in {"test"} \cup Talking THEN {2} ELSE {})
                 \cup (IF pc \in SettingUp THEN {port} ELSE {})

Found(q) == kinds[q] = "keyboard" =>
              device[q] = 43907 /\ Off(q) \notin config /\ PS2_port \in Keyboards

FoundInv ==
  /\ \A q \in Finished : Found(q)
  /\ pc = "done" /\ kinds[1] # "broken" =>
       \A q \in Keyboards : {IRQ(q), TRANSLATION} \subseteq config

PromptInv == prompt => DueInv /\ ConfigInv /\ PortsInv /\ FoundInv

\* With every answer in time all that is unread can be read in order.
LEMMA PromptRead ==
  ASSUME prompt, IRQ(1) \notin config, NEW p \in Port, NEW a \in Seq(0..255),
         NEW r \in Reads(Says(p, a))
  PROVE  /\ a = <<>> => r.val = TIMEOUT /\ r.rest = <<>>
         /\ a # <<>> => r.val = a[1] /\ r.rest = Says(p, Tail(a))
<1> DEFINE o == Says(p, a)
<1>1. /\ o \in Seq(Msg) /\ Len(o) = Len(a) /\ Len(a) \in Nat
      /\ \A i \in 1..Len(a) : o[i].val = a[i] /\ o[i].from = p
  BY SaysIs
<1>2. PICK k \in 0..Len(o) : Taken(o, r, k) /\ Moved(o, r, k)
  <2> HIDE DEF o
  <2>1. r \in Reads(o) BY DEF o
  <2> QED BY <1>1, <2>1, ReadOn
<1>3. ASSUME a = <<>> PROVE r.val = TIMEOUT /\ r.rest = <<>>
  <2>1. Len(a) = 0 BY <1>3
  <2> HIDE DEF o
  <2>2. r.rest \in Seq(Msg) /\ Len(r.rest) = 0
    <3>1. k = 0 /\ Len(o) = 0 BY <1>1, <2>1
    <3>2. r.rest \in Seq(Msg) /\ Len(r.rest) = 0 - 0 BY <1>2, <3>1 DEF Moved
    <3> QED BY <3>2
  <2> QED BY <1>1, <1>2, <2>1, <2>2, EmptySeq DEF Taken
<1>4. ASSUME a # <<>> PROVE r.val = a[1] /\ r.rest = Says(p, Tail(a))
  <2> HIDE DEF o
  <2>1. Len(a) # 0 /\ o # <<>> BY <1>1, <1>4, EmptySeq
  <2>2. k = 1 /\ r.val = o[1].val BY <1>1, <1>2, <2>1 DEF Taken
  <2>3. /\ Tail(a) \in Seq(0..255) /\ Len(Tail(a)) = Len(a) - 1
        /\ \A i \in 1..Len(Tail(a)) : Tail(a)[i] = a[i + 1]
    BY <1>4, HeadTailProperties
  <2> DEFINE b == Tail(a)
             t == Says(p, b)
  <2>4. /\ t \in Seq(Msg) /\ Len(t) = Len(b)
        /\ \A i \in 1..Len(b) : t[i].val = b[i] /\ t[i].from = p
    <3> HIDE DEF b
    <3> QED BY <2>3, SaysIs DEF b
  <2>5. /\ r.rest \in Seq(Msg) /\ Len(r.rest) = Len(o) - 1
        /\ \A i \in 1..Len(r.rest) : i + 1 \in 1..Len(o) /\ r.rest[i] = o[i + 1]
    BY <1>2, <2>2 DEF Moved
  <2> HIDE DEF b, t
  <2>6. Len(t) = Len(r.rest) BY <1>1, <2>3, <2>4, <2>5 DEF b
  <2>7. ASSUME NEW i \in 1..Len(r.rest) PROVE r.rest[i] = t[i]
    <3>1. r.rest[i] = o[i + 1] /\ i + 1 \in 1..Len(a) BY <1>1, <2>5
    <3>2. i \in 1..Len(b) /\ i \in 1..Len(t) BY <2>4, <2>6
    <3>3. t[i].val = a[i + 1] /\ t[i].from = p BY <2>3, <2>4, <3>2 DEF b
    <3>4. o[i + 1].val = a[i + 1] /\ o[i + 1].from = p BY <1>1, <3>1
    <3>5. t[i] \in Msg /\ o[i + 1] \in Msg BY <1>1, <2>4, <3>1, <3>2
    <3> QED BY <3>1, <3>3, <3>4, <3>5 DEF Msg
  <2>8. r.rest = t BY <2>4, <2>5, <2>6, <2>7, SeqEqual
  <2>9. 1 \in 1..Len(a) BY <1>1, <2>1
  <2> QED BY <1>1, <2>2, <2>8, <2>9 DEF t, b
<1> QED BY <1>3, <1>4

\* An empty queue is what any sender says of nothing.
LEMMA Nothing == ASSUME NEW p \in Port PROVE Says(p, <<>>) = <<>>
<1>1. <<>> \in Seq(0..255) OBVIOUS
<1> QED BY <1>1, SaysIs

\* The answer to a question is what is read, and nothing is left.
LEMMA PromptAsk ==
  ASSUME prompt, out = <<>>, NEW v \in 0..255, NEW r \in Asks(v)
  PROVE  r.rest = <<>> /\ r.val \in {v, TIMEOUT} /\ (IRQ(1) \notin config => r.val = v)
<1>1. out \in Seq(Msg) /\ Len(out) = 0 OBVIOUS
<1>2. PICK k \in 0..(Len(out) + 1) : Answered(out, v, r, k)
  BY <1>1, AnsweredIs DEF Asks
<1>3. k = 1 /\ r.rest \in Seq(Msg) /\ Len(r.rest) = 0 BY <1>1, <1>2 DEF Answered
<1>4. r.rest = <<>> BY <1>3, EmptySeq
<1> QED BY <1>1, <1>2, <1>3, <1>4 DEF Answered

\* What is kept by a step after which nothing is unread and the next port
\* follows.
LEMMA NextPortDue ==
  ASSUME port \in Port, NextPort, UNCHANGED kinds, out' = <<>>,
         IRQ(1) \notin config', TRANSLATION \notin config',
         port = 2 => (2 \in ports' <=> Works2),
         port = 1 => kinds[1] = "broken" \/ 1 \in ports',
         \A q \in Port : q >= port => Found(q)'
  PROVE  DueInv' /\ ConfigInv' /\ PortsInv' /\ FoundInv'
<1> USE DEF SettingUp, Talking, Identifying
<1>1. CASE port = 2
  <2>1. pc' = "test" /\ port' = 1 BY <1>1 DEF NextPort
  <2>2. DueInv' BY <2>1 DEF DueInv
  <2>3. ConfigInv' BY <2>1 DEF ConfigInv
  <2>4. PortsInv' BY <1>1, <2>1 DEF PortsInv, Works2
  <2>5. FoundInv'
    <3>1. Finished' = {2} BY <2>1 DEF Finished
    <3>2. Found(2)' BY <1>1 DEF Port
    <3> QED BY <2>1, <3>1, <3>2 DEF FoundInv
  <2> QED BY <2>2, <2>3, <2>4, <2>5
<1>2. CASE port = 1
  <2>1. pc' = "enable_irqs" /\ port' = 1 BY <1>2 DEF NextPort
  <2>2. DueInv' BY <2>1 DEF DueInv
  <2>3. ConfigInv' BY <2>1 DEF ConfigInv
  <2>4. PortsInv' BY <1>2, <2>1 DEF PortsInv
  <2>5. FoundInv'
    <3>1. Finished' = Port BY <2>1 DEF Finished
    <3>2. \A q \in Port : Found(q)' BY <1>2 DEF Port
    <3> QED BY <2>1, <3>1, <3>2 DEF FoundInv
  <2> QED BY <2>2, <2>3, <2>4, <2>5
<1> QED BY <1>1, <1>2 DEF Port

\* Before the ports are tried, nothing is finished.
LEMMA NotYet ==
  ASSUME \/ pc' \in {"clear", "selftest", "second", "second_config", "failed", "panic"}
         \/ pc' = "test" /\ port' = 2
  PROVE  FoundInv'
<1>1. Finished' = {} BY DEF Finished, SettingUp, Talking, Identifying
<1>2. pc' # "done" OBVIOUS
<1> QED BY <1>1, <1>2 DEF FoundInv

LEMMA FlushDue ==
  ASSUME LateInv, prompt, Flush PROVE DueInv' /\ ConfigInv' /\ PortsInv' /\ FoundInv'
<1>1. out \in Seq(Msg) /\ Len(out) <= 1 /\ Len(out) \in Nat
  BY Types DEF LateInv, UnreadInv, Flush
<1>2. PICK r \in Reads(out) : out' = r.rest BY DEF Flush
<1>3. PICK k \in 0..Len(out) : Taken(out, r, k) /\ Moved(out, r, k) BY <1>1, ReadOn
<1>4. out' \in Seq(Msg) /\ Len(out') = Len(out) - k BY <1>2, <1>3 DEF Moved
<1>5. Len(out') = 0
  <2>1. CASE out = <<>>
    <3>1. Len(out) = 0 /\ k = 0 BY <2>1
    <3>2. Len(out') = 0 - 0 BY <1>4, <3>1
    <3> QED BY <3>2
  <2>2. CASE out # <<>>
    <3>1. k >= 1 /\ k <= Len(out) BY <1>3, <2>2 DEF Taken
    <3>2. \A x, y, z \in Nat : x <= 1 /\ y >= 1 /\ y <= x /\ z = x - y => z = 0 OBVIOUS
    <3> QED BY <1>1, <1>4, <3>1, <3>2
  <2> QED BY <2>1, <2>2
<1>6. out' = <<>> BY <1>4, <1>5, EmptySeq
<1>7. pc' = "clear" BY DEF Flush
<1>8. FoundInv' BY <1>7, NotYet
<1> QED BY <1>6, <1>7, <1>8
    DEF DueInv, ConfigInv, PortsInv, SettingUp, Talking, Identifying

LEMMA ClearConfigDue ==
  ASSUME LateInv, PromptInv, prompt, ClearConfig
  PROVE  DueInv' /\ ConfigInv' /\ PortsInv' /\ FoundInv'
<1>1. /\ pc = "clear" /\ AtClear /\ ports = {1} /\ config \in SUBSET Bit
      /\ out = <<>>
  BY Types DEF LateInv, UnreadInv, PlaceInv, ClearConfig, PromptInv, DueInv, Talking,
               Identifying, SettingUp
<1>2. Byte(config) \in 0..255 /\ Bits(Byte(config)) = config BY <1>1, ByteIs
<1>3. PICK r \in Asks(Byte(config)) :
        out' = r.rest /\ config' = Bits(r.val) \cap Bits(174)
  BY <1>1 DEF ClearConfig, ReadConfig, WriteConfig
<1>4. r.rest = <<>> /\ r.val \in {Byte(config), TIMEOUT} BY <1>1, <1>2, PromptAsk
<1>5. Off(2) \in Bits(r.val) BY <1>1, <1>2, <1>4, Constants DEF AtClear
<1>6. Off(2) \in config' /\ IRQ(1) \notin config' /\ TRANSLATION \notin config'
  BY <1>3, <1>5, Constants DEF Off, IRQ, TRANSLATION
<1>7. pc' = "selftest" BY DEF ClearConfig
<1>8. FoundInv' BY <1>7, NotYet
<1>9. out' = <<>> BY <1>3, <1>4
<1> QED BY <1>6, <1>7, <1>8, <1>9
    DEF DueInv, ConfigInv, PortsInv, SettingUp, Talking, Identifying

LEMMA SelfTestDue ==
  ASSUME LateInv, PromptInv, prompt, SelfTest
  PROVE  DueInv' /\ ConfigInv' /\ PortsInv' /\ FoundInv'
<1>1. /\ pc = "selftest" /\ AtSelfTest /\ ports = {1} /\ out = <<>>
      /\ IRQ(1) \notin config /\ TRANSLATION \notin config /\ Off(2) \in config
  BY DEF LateInv, UnreadInv, PlaceInv, SelfTest, PromptInv, DueInv, ConfigInv, Talking,
         Identifying, SettingUp
<1>2. PICK r \in Asks(85) :
        /\ out' = r.rest
        /\ r.val = 85 => pc' = "second" /\ config' = config_byte
  BY <1>1 DEF SelfTest, WriteConfig
<1>3. 85 \in 0..255 OBVIOUS
<1>4. r.rest = <<>> /\ r.val = 85 BY <1>1, <1>3, PromptAsk
<1>5. out' = <<>> /\ pc' = "second" /\ config' = config BY <1>1, <1>2, <1>4 DEF AtSelfTest
<1>6. FoundInv' BY <1>5, NotYet
<1> QED BY <1>1, <1>5, <1>6
    DEF DueInv, ConfigInv, PortsInv, SettingUp, Talking, Identifying

LEMMA SecondPortDue ==
  ASSUME LateInv, PromptInv, prompt, SecondPort
  PROVE  DueInv' /\ ConfigInv' /\ PortsInv' /\ FoundInv'
<1> DEFINE tried == IF kinds[2] = "absent" THEN config ELSE config \ {Off(2)}
<1>1. /\ pc = "second" /\ ports = {1} /\ port = 2 /\ out = <<>> /\ config \in SUBSET Bit
      /\ IRQ(1) \notin config /\ TRANSLATION \notin config /\ Off(2) \in config
  BY Types DEF LateInv, PlaceInv, SecondPort, PromptInv, DueInv, ConfigInv, Talking,
               Identifying, SettingUp
<1>2. /\ tried \in SUBSET Bit /\ tried \subseteq config
      /\ (Off(2) \in tried <=> kinds[2] = "absent")
  BY <1>1
<1> HIDE DEF tried
<1>3. Byte(tried) \in 0..255 /\ Bits(Byte(tried)) = tried BY <1>2, ByteIs
<1>4. PICK r \in Asks(Byte(tried)) :
        /\ out' = r.rest
        /\ IF Off(2) \in Bits(r.val)
           THEN pc' = "test" /\ port' = 1 /\ ports' = ports /\ config' = tried
           ELSE /\ pc' = "second_config" /\ ports' = ports \cup {2} /\ port' = port
                /\ config' = tried \cup {Off(2)}
  BY DEF SecondPort, tried, ReadConfig
<1>5. r.rest = <<>> /\ r.val = Byte(tried) BY <1>1, <1>3, PromptAsk
<1>6. out' = <<>> /\ UNCHANGED kinds BY <1>4, <1>5 DEF SecondPort, machine
<1>7. CASE kinds[2] = "absent"
  <2>1. /\ pc' = "test" /\ port' = 1 /\ 2 \notin ports'
        /\ IRQ(1) \notin config' /\ TRANSLATION \notin config'
    BY <1>1, <1>2, <1>3, <1>4, <1>5, <1>7
  <2>2. Finished' = {2} BY <2>1 DEF Finished, SettingUp, Talking, Identifying
  <2>3. FoundInv' BY <1>6, <1>7, <2>1, <2>2 DEF FoundInv, Found
  <2> QED BY <1>6, <1>7, <2>1, <2>3
      DEF DueInv, ConfigInv, PortsInv, Works2, SettingUp, Talking, Identifying
<1>8. CASE kinds[2] # "absent"
  <2>1. /\ pc' = "second_config" /\ port' = 2 /\ Off(2) \in config'
        /\ IRQ(1) \notin config' /\ TRANSLATION \notin config'
    BY <1>1, <1>2, <1>3, <1>4, <1>5, <1>8 DEF Off, IRQ, TRANSLATION
  <2>2. FoundInv' BY <2>1, NotYet
  <2> QED BY <1>6, <1>8, <2>1, <2>2
      DEF DueInv, ConfigInv, PortsInv, SettingUp, Talking, Identifying
<1> QED BY <1>7, <1>8

LEMMA SecondConfigDue ==
  ASSUME LateInv, PromptInv, prompt, SecondConfig
  PROVE  DueInv' /\ ConfigInv' /\ PortsInv' /\ FoundInv'
<1>1. /\ pc = "second_config" /\ ports = {1, 2} /\ port = 2 /\ out = <<>>
      /\ config \in SUBSET Bit /\ IRQ(1) \notin config /\ TRANSLATION \notin config
      /\ kinds[2] # "absent"
  BY Types DEF LateInv, PlaceInv, SecondConfig, PromptInv, DueInv, ConfigInv, PortsInv,
               Talking, Identifying, SettingUp
<1>2. Byte(config) \in 0..255 /\ Bits(Byte(config)) = config BY <1>1, ByteIs
<1>3. PICK r \in Asks(Byte(config)) :
        out' = r.rest /\ config' = Bits(r.val) \cap Bits(221)
  BY <1>1 DEF SecondConfig, ReadConfig, WriteConfig
<1>4. r.rest = <<>> /\ r.val = Byte(config) BY <1>1, <1>2, PromptAsk
<1>5. IRQ(1) \notin config' /\ TRANSLATION \notin config' BY <1>1, <1>2, <1>3, <1>4
<1>6. pc' = "test" /\ port' = 2 /\ UNCHANGED kinds BY <1>1 DEF SecondConfig, machine
<1>7. FoundInv' BY <1>6, NotYet
<1>8. out' = <<>> BY <1>3, <1>4
<1> QED BY <1>1, <1>5, <1>6, <1>7, <1>8
    DEF DueInv, ConfigInv, PortsInv, SettingUp, Talking, Identifying

\* What the invariants say of a port that is talked to.
LEMMA TalkingTo ==
  ASSUME LateInv, PromptInv, prompt, pc \in Talking
  PROVE  /\ port \in Port /\ port \in ports /\ 1 \in ports /\ kinds[port] \in Kind
         /\ kinds[port] \notin {"absent", "broken"}
         /\ Off(port) \notin config /\ IRQ(1) \notin config /\ TRANSLATION \notin config
         /\ config \in SUBSET Bit /\ device \in [Port -> 0..NONE]
         /\ port = 1 => (2 \in ports <=> Works2) /\ Found(2)
         /\ port = 2 => (2 \in ports <=> Works2)
<1>1. /\ port \in Port /\ kinds[port] \in Kind /\ config \in SUBSET Bit
      /\ device \in [Port -> 0..NONE]
  BY Types DEF LateInv
<1>2. port \in ports /\ 1 \in ports BY DEF LateInv, PlaceInv
<1>3. Off(port) \notin config /\ IRQ(1) \notin config /\ TRANSLATION \notin config
  BY DEF PromptInv, ConfigInv, Passes
<1>4. /\ kinds[port] \notin {"absent", "broken"}
      /\ port = 1 => (2 \in ports <=> Works2)
  BY DEF PromptInv, PortsInv
<1>5. port = 1 => Found(2)
  <2> SUFFICES ASSUME port = 1 PROVE Found(2) OBVIOUS
  <2>1. 2 \in Finished BY DEF Finished, Talking, Identifying, SettingUp, Port
  <2> QED BY <2>1 DEF PromptInv, FoundInv
<1>6. port = 2 => (2 \in ports <=> Works2) BY <1>2, <1>4 DEF Works2
<1> QED BY <1>1, <1>2, <1>3, <1>4, <1>5, <1>6

LEMMA PortFailsDue ==
  ASSUME LateInv, PromptInv, prompt, PortFails
  PROVE  DueInv' /\ ConfigInv' /\ PortsInv' /\ FoundInv'
<1> DEFINE v == IF kinds[port] = "broken" THEN 1 ELSE 0
<1>1. /\ pc = "test" /\ out = <<>> /\ port \in Port /\ port \in ports /\ 1 \in ports
      /\ IRQ(1) \notin config /\ TRANSLATION \notin config
      /\ port = 1 => (2 \in ports <=> Works2)
      /\ port = 1 => Found(2)
  <2>1. pc = "test" BY DEF PortFails
  <2>2. port = 1 => Found(2)
    <3>1. port = 1 => 2 \in Finished BY <2>1 DEF Finished, SettingUp
    <3> QED BY <3>1 DEF PromptInv, FoundInv
  <2> QED BY <2>1, <2>2, Types
      DEF LateInv, PlaceInv, PromptInv, DueInv, ConfigInv, PortsInv, Talking,
          Identifying, SettingUp
<1>2. PICK r \in Asks(v) : r.val # 0 /\ out' = r.rest BY DEF PortFails, Test, Works
<1>3. v \in 0..255 OBVIOUS
<1>4. r.rest = <<>> /\ r.val = v
  <2> HIDE DEF v
  <2> QED BY <1>1, <1>3, PromptAsk
<1>5. kinds[port] = "broken" BY <1>2, <1>4
<1>6. out' = <<>> /\ ports' = ports \ {port} /\ UNCHANGED <<kinds, config, device, PS2_port>>
  BY <1>2, <1>4 DEF PortFails, machine
<1>7. CASE NextPort
  <2>1. port = 2 => (2 \in ports' <=> Works2) BY <1>5, <1>6 DEF Works2
  <2>2. ASSUME NEW q \in Port, q >= port PROVE Found(q)'
    <3>1. CASE q = port BY <1>5, <1>6, <3>1 DEF Found
    <3>2. CASE q # port
      <4>1. q = 2 /\ port = 1 BY <1>1, <2>2, <3>2 DEF Port
      <4> QED BY <1>1, <1>6, <4>1 DEF Found, Keyboards
    <3> QED BY <3>1, <3>2
  <2> QED BY <1>1, <1>5, <1>6, <1>7, <2>1, <2>2, NextPortDue
<1>8. CASE port = 1 /\ 2 \notin ports /\ pc' = "panic"
  <2>1. FoundInv' BY <1>8, NotYet
  <2> QED BY <1>1, <1>5, <1>6, <1>8, <2>1
      DEF DueInv, ConfigInv, PortsInv, Works2, Talking, Identifying, SettingUp
<1> QED BY <1>7, <1>8 DEF PortFails

LEMMA ResetDue ==
  ASSUME LateInv, PromptInv, prompt, ResetDevice
  PROVE  DueInv' /\ ConfigInv' /\ PortsInv' /\ FoundInv'
<1> DEFINE v == IF kinds[port] = "broken" THEN 1 ELSE 0
<1>1. /\ pc = "test" /\ out = <<>> /\ port \in Port /\ port \in ports /\ 1 \in ports
      /\ IRQ(1) \notin config /\ TRANSLATION \notin config /\ kinds[port] \in Kind
      /\ kinds[1] # "absent"
      /\ port = 2 => kinds[2] # "absent"
      /\ port = 1 => (2 \in ports <=> Works2)
      /\ port = 1 => Found(2)
  <2>1. pc = "test" BY DEF ResetDevice
  <2>2. port = 1 => Found(2)
    <3>1. port = 1 => 2 \in Finished BY <2>1 DEF Finished, SettingUp
    <3> QED BY <3>1 DEF PromptInv, FoundInv
  <2>3. /\ port \in Port /\ kinds[port] \in Kind /\ kinds[1] # "absent"
    BY Types DEF LateInv
  <2>4. port \in ports /\ 1 \in ports BY <2>1 DEF LateInv, PlaceInv
  <2>5. /\ out = <<>> /\ IRQ(1) \notin config /\ TRANSLATION \notin config
        /\ port = 2 => kinds[2] # "absent"
        /\ port = 1 => (2 \in ports <=> Works2)
    BY <2>1 DEF PromptInv, DueInv, ConfigInv, PortsInv, Talking, Identifying, SettingUp
  <2> QED BY <2>1, <2>2, <2>3, <2>4, <2>5
<1>2. PICK r \in Asks(v) : r.val = 0 /\ out' = Sent(r.rest, config', port, 255)
  BY DEF ResetDevice, Test, Works
<1>3. v \in 0..255 OBVIOUS
<1>4. r.rest = <<>> /\ r.val = v
  <2> HIDE DEF v
  <2> QED BY <1>1, <1>3, PromptAsk
<1>5. kinds[port] # "broken" BY <1>2, <1>4
<1>6. /\ pc' = "reset" /\ id' = 0 /\ config' = config \ {Off(port)}
      /\ UNCHANGED <<port, ports, kinds, device, PS2_port>>
  BY DEF ResetDevice, machine
<1>7. kinds[port] \notin {"absent", "broken"} BY <1>1, <1>5 DEF Port
<1>c. 255 \in Command BY DEF Command
<1>8. out' = Says(port, Answer(kinds[port], 255))
  <2>1. Off(port) \notin config' BY <1>6
  <2>2. Empty(r.rest) BY <1>4 DEF Empty
  <2> QED BY <1>1, <1>2, <1>c, <2>1, <2>2, SentFirst
<1>9. DueAtReset'
  <2> DEFINE k == kinds[port]
  <2>0. kinds'[port'] = k /\ port' = port BY <1>6
  <2>1. CASE k = "keyboard"
    <3>1. out' = Says(port, <<ACK, 170>>) BY <1>1, <1>8, <2>1, Answers
    <3> QED BY <1>6, <2>0, <2>1, <3>1 DEF DueAtReset, Left
  <2>2. CASE k = "mouse"
    <3>1. out' = Says(port, <<ACK, 170, 0>>) BY <1>1, <1>8, <2>2, Answers
    <3> QED BY <1>6, <2>0, <2>2, <3>1 DEF DueAtReset, Left
  <2>3. CASE k = "faulty"
    <3>1. out' = Says(port, <<ACK, 252>>) BY <1>1, <1>8, <2>3, Answers
    <3> QED BY <1>6, <2>0, <2>3, <3>1 DEF DueAtReset, Left
  <2>4. CASE k \notin {"keyboard", "mouse", "faulty"}
    <3>1. out' = Says(port, <<>>) BY <1>1, <1>8, <2>4, Answers
    <3> QED BY <1>6, <2>0, <2>4, <3>1 DEF DueAtReset, Left
  <2> QED BY <2>1, <2>2, <2>3, <2>4
<1>10. FoundInv'
  <2>1. Finished' = IF port = 1 THEN {2} ELSE {}
    BY <1>6 DEF Finished, Talking, Identifying, SettingUp
  <2> QED BY <1>1, <1>6, <2>1 DEF FoundInv, Found, Keyboards
<1>11. DueInv' BY <1>6, <1>9 DEF DueInv, Talking, Identifying, SettingUp
<1>12. ConfigInv' BY <1>1, <1>6 DEF ConfigInv, Passes, Talking, Identifying, SettingUp
<1>13. PortsInv' BY <1>1, <1>6, <1>7 DEF PortsInv, Works2, Talking, Identifying, SettingUp
<1> QED BY <1>10, <1>11, <1>12, <1>13

\* A step between two stages of one port that leaves the configuration and
\* what has been found alone.
LEMMA SamePort ==
  ASSUME LateInv, PromptInv, prompt, pc \in Talking \ SettingUp,
         pc' \in Talking \ SettingUp, pc' = "reset" => pc = "reset",
         pc # "reset" => UNCHANGED saved, pc = "reset" /\ pc' # "reset" => saved' = config,
         UNCHANGED <<kinds, config, port, ports, device, PS2_port>>, DueInv'
  PROVE  DueInv' /\ ConfigInv' /\ PortsInv' /\ FoundInv'
<1>1. Finished' = Finished BY DEF Finished, Talking, Identifying, SettingUp
<1>2. FoundInv' BY <1>1
  DEF PromptInv, FoundInv, Found, Keyboards, Talking, Identifying, SettingUp
<1>3. ConfigInv'
  BY DEF PromptInv, ConfigInv, Passes, Talking, Identifying, SettingUp
<1>4. PortsInv' BY DEF PromptInv, PortsInv, Works2, Talking, Identifying, SettingUp
<1> QED BY <1>2, <1>3, <1>4

\* The bytes a are x and then b.
Then(a, x, b) == a \in Seq(0..255) /\ a # <<>> /\ a[1] = x /\ Tail(a) = b

LEMMA Thens ==
  /\ Then(<<ACK, 170>>, ACK, <<170>>) /\ Then(<<170>>, 170, <<>>)
  /\ Then(<<ACK, 170, 0>>, ACK, <<170, 0>>) /\ Then(<<170, 0>>, 170, <<0>>)
  /\ Then(<<0>>, 0, <<>>)
  /\ Then(<<ACK, 252>>, ACK, <<252>>) /\ Then(<<252>>, 252, <<>>)
  /\ Then(<<171, 131>>, 171, <<131>>) /\ Then(<<131>>, 131, <<>>)
  /\ Then(<<ACK>>, ACK, <<>>) /\ Then(<<ACK, 171, 131>>, ACK, <<171, 131>>)
  /\ Then(<<ACK, 0>>, ACK, <<0>>)
<1>1. Then(<<ACK, 170>>, ACK, <<170>>) BY DEF Then, ACK
<1>2. Then(<<170>>, 170, <<>>) BY DEF Then
<1>3. Then(<<ACK, 170, 0>>, ACK, <<170, 0>>) BY DEF Then, ACK
<1>4. Then(<<170, 0>>, 170, <<0>>) BY DEF Then
<1>5. Then(<<0>>, 0, <<>>) BY DEF Then
<1>6. Then(<<ACK, 252>>, ACK, <<252>>) BY DEF Then, ACK
<1>7. Then(<<252>>, 252, <<>>) BY DEF Then
<1>8. Then(<<171, 131>>, 171, <<131>>) BY DEF Then
<1>9. Then(<<131>>, 131, <<>>) BY DEF Then
<1>10. Then(<<ACK>>, ACK, <<>>) BY DEF Then, ACK
<1>11. Then(<<ACK, 171, 131>>, ACK, <<171, 131>>) BY DEF Then, ACK
<1>12. Then(<<ACK, 0>>, ACK, <<0>>) BY DEF Then, ACK
<1> QED BY <1>1, <1>2, <1>3, <1>4, <1>5, <1>6, <1>7, <1>8, <1>9, <1>10, <1>11, <1>12

\* An id n with one more byte.
More(n, x) == (256 * n + x) % 65536

LEMMA Mores ==
  /\ More(0, ACK) = 250 /\ More(250, 170) = 64170 /\ More(64170, 0) = 43520
  /\ More(250, 252) = 64252
  /\ More(0, 171) = 171 /\ More(171, 131) = 43907 /\ More(0, 0) = 0
BY DEF More, ACK

\* The next byte of what is due is what is read.
LEMMA NextByte ==
  ASSUME prompt, IRQ(1) \notin config, port \in Port,
         NEW a, NEW x, NEW b, Then(a, x, b), Left(a), NEW r \in Reads(out)
  PROVE  r.val = x /\ r.rest = Says(port, b)
<1>1. r \in Reads(Says(port, a)) BY DEF Left
<1> QED BY <1>1, PromptRead DEF Then

LEMMA NoByte ==
  ASSUME prompt, IRQ(1) \notin config, port \in Port, Left(<<>>), NEW r \in Reads(out)
  PROVE  r.val = TIMEOUT /\ r.rest = <<>>
<1>1. r \in Reads(Says(port, <<>>)) BY DEF Left
<1>2. <<>> \in Seq(0..255) OBVIOUS
<1> QED BY <1>1, <1>2, PromptRead

LEMMA Collected ==
  ASSUME prompt, IRQ(1) \notin config, port \in Port, Collect,
         NEW a, NEW x, NEW b, Then(a, x, b), Left(a)
  PROVE  id' = More(id, x) /\ Left(b)'
<1>1. PICK r \in Reads(out) : out' = r.rest /\ id' = Appended(r.val) BY DEF Collect
<1>2. r.val = x /\ r.rest = Says(port, b) BY <1>1, NextByte
<1>3. UNCHANGED port BY DEF Collect
<1> QED BY <1>1, <1>2, <1>3 DEF Appended, More, Left

\* When nothing is due, nothing is collected.
LEMMA NothingCollected ==
  ASSUME prompt, IRQ(1) \notin config, port \in Port, Collect PROVE ~ Left(<<>>)
<1> SUFFICES ASSUME Left(<<>>) PROVE FALSE OBVIOUS
<1>1. PICK r \in Reads(out) : r.val # TIMEOUT BY DEF Collect
<1> QED BY <1>1, NoByte

\* What is due to a reset, after one byte more.
LEMMA CollectReset ==
  ASSUME prompt, IRQ(1) \notin config, port \in Port, Collect, DueAtReset
  PROVE  DueAtReset'
<1>1. UNCHANGED <<kinds, port>> BY DEF Collect, machine
<1>2. ~ Left(<<>>) BY NothingCollected
<1>3. CASE kinds[port] = "keyboard"
  <2>1. CASE Left(<<ACK, 170>>) /\ id = 0
    <3>t. Then(<<ACK, 170>>, ACK, <<170>>) /\ More(0, ACK) = 250 BY Thens, Mores
    <3>1. id' = 250 /\ Left(<<170>>)' BY <2>1, <3>t, Collected
    <3> QED BY <1>1, <1>3, <3>1 DEF DueAtReset
  <2>2. CASE Left(<<170>>) /\ id = 250
    <3>t. Then(<<170>>, 170, <<>>) /\ More(250, 170) = 64170 BY Thens, Mores
    <3>1. id' = 64170 /\ Left(<<>>)' BY <2>2, <3>t, Collected
    <3> QED BY <1>1, <1>3, <3>1 DEF DueAtReset
  <2> QED BY <1>2, <1>3, <2>1, <2>2 DEF DueAtReset
<1>4. CASE kinds[port] = "mouse"
  <2>1. CASE Left(<<ACK, 170, 0>>) /\ id = 0
    <3>t. Then(<<ACK, 170, 0>>, ACK, <<170, 0>>) /\ More(0, ACK) = 250 BY Thens, Mores
    <3>1. id' = 250 /\ Left(<<170, 0>>)' BY <2>1, <3>t, Collected
    <3> QED BY <1>1, <1>4, <3>1 DEF DueAtReset
  <2>2. CASE Left(<<170, 0>>) /\ id = 250
    <3>t. Then(<<170, 0>>, 170, <<0>>) /\ More(250, 170) = 64170 BY Thens, Mores
    <3>1. id' = 64170 /\ Left(<<0>>)' BY <2>2, <3>t, Collected
    <3> QED BY <1>1, <1>4, <3>1 DEF DueAtReset
  <2>3. CASE Left(<<0>>) /\ id = 64170
    <3>t. Then(<<0>>, 0, <<>>) /\ More(64170, 0) = 43520 BY Thens, Mores
    <3>1. id' = 43520 /\ Left(<<>>)' BY <2>3, <3>t, Collected
    <3> QED BY <1>1, <1>4, <3>1 DEF DueAtReset
  <2> QED BY <1>2, <1>4, <2>1, <2>2, <2>3 DEF DueAtReset
<1>5. CASE kinds[port] = "faulty"
  <2>1. CASE Left(<<ACK, 252>>) /\ id = 0
    <3>t. Then(<<ACK, 252>>, ACK, <<252>>) /\ More(0, ACK) = 250 BY Thens, Mores
    <3>1. id' = 250 /\ Left(<<252>>)' BY <2>1, <3>t, Collected
    <3> QED BY <1>1, <1>5, <3>1 DEF DueAtReset
  <2>2. CASE Left(<<252>>) /\ id = 250
    <3>t. Then(<<252>>, 252, <<>>) /\ More(250, 252) = 64252 BY Thens, Mores
    <3>1. id' = 64252 /\ Left(<<>>)' BY <2>2, <3>t, Collected
    <3> QED BY <1>1, <1>5, <3>1 DEF DueAtReset
  <2> QED BY <1>2, <1>5, <2>1, <2>2 DEF DueAtReset
<1> QED BY <1>2, <1>3, <1>4, <1>5 DEF DueAtReset

\* And of the identity.
LEMMA CollectIdentity ==
  ASSUME prompt, IRQ(1) \notin config, port \in Port, Collect, DueAtIdentity
  PROVE  DueAtIdentity'
<1>1. UNCHANGED <<kinds, port>> BY DEF Collect, machine
<1>2. ~ Left(<<>>) BY NothingCollected
<1>3. CASE kinds[port] = "keyboard"
  <2>1. CASE Left(<<171, 131>>) /\ id = 0
    <3>t. Then(<<171, 131>>, 171, <<131>>) /\ More(0, 171) = 171 BY Thens, Mores
    <3>1. id' = 171 /\ Left(<<131>>)' BY <2>1, <3>t, Collected
    <3> QED BY <1>1, <1>3, <3>1 DEF DueAtIdentity
  <2>2. CASE Left(<<131>>) /\ id = 171
    <3>t. Then(<<131>>, 131, <<>>) /\ More(171, 131) = 43907 BY Thens, Mores
    <3>1. id' = 43907 /\ Left(<<>>)' BY <2>2, <3>t, Collected
    <3> QED BY <1>1, <1>3, <3>1 DEF DueAtIdentity
  <2> QED BY <1>2, <1>3, <2>1, <2>2 DEF DueAtIdentity
<1>4. CASE kinds[port] = "mouse" /\ Left(<<0>>) /\ id = 0
  <2>t. Then(<<0>>, 0, <<>>) /\ More(0, 0) = 0 BY Thens, Mores
  <2>1. id' = 0 /\ Left(<<>>)' BY <1>4, <2>t, Collected
  <2> QED BY <1>1, <1>4, <2>1 DEF DueAtIdentity
<1> QED BY <1>2, <1>3, <1>4 DEF DueAtIdentity

LEMMA CollectDue ==
  ASSUME LateInv, PromptInv, prompt, Collect
  PROVE  DueInv' /\ ConfigInv' /\ PortsInv' /\ FoundInv'
<1>1. /\ pc \in {"reset", "identity"}
      /\ UNCHANGED <<pc, kinds, config, port, ports, device, PS2_port, saved>>
  BY DEF Collect, machine
<1>2. pc \in Talking \ SettingUp BY <1>1 DEF Talking, Identifying, SettingUp
<1>3. port \in Port /\ IRQ(1) \notin config BY <1>2, TalkingTo
<1>4. CASE pc = "reset"
  <2>1. DueAtReset BY <1>4 DEF PromptInv, DueInv
  <2>2. DueAtReset' BY <1>3, <2>1, CollectReset
  <2>3. DueInv' BY <1>1, <1>4, <2>2 DEF DueInv, Talking, Identifying, SettingUp
  <2> QED BY <1>1, <1>2, <1>4, <2>3, SamePort
<1>5. CASE pc = "identity"
  <2>1. DueAtIdentity BY <1>5 DEF PromptInv, DueInv
  <2>2. DueAtIdentity' BY <1>3, <2>1, CollectIdentity
  <2>3. DueInv' BY <1>1, <1>5, <2>2 DEF DueInv, Talking, Identifying, SettingUp
  <2> QED BY <1>1, <1>2, <1>5, <2>3, SamePort
<1> QED BY <1>1, <1>4, <1>5

\* recieve_byte gives up on the reset only when all of the answer is read.
LEMMA ResetEnds ==
  ASSUME prompt, IRQ(1) \notin config, port \in Port, DueAtReset,
         NEW r \in Reads(out), r.val = TIMEOUT
  PROVE  /\ out = <<>> /\ r.rest = <<>>
         /\ \/ kinds[port] = "keyboard" /\ id = 64170
            \/ kinds[port] = "mouse" /\ id = 43520
            \/ kinds[port] = "faulty" /\ id = 64252
            \/ kinds[port] \notin {"keyboard", "mouse", "faulty"} /\ id = 0
<1>1. ASSUME NEW a, NEW x, NEW b, Then(a, x, b), Left(a) PROVE x = TIMEOUT
  BY <1>1, NextByte
<1>2. ~ Left(<<ACK, 170>>)
  <2>1. Then(<<ACK, 170>>, ACK, <<170>>) BY Thens
  <2> QED BY <1>1, <2>1 DEF ACK, TIMEOUT
<1>3. ~ Left(<<170>>)
  <2>1. Then(<<170>>, 170, <<>>) BY Thens
  <2> QED BY <1>1, <2>1 DEF TIMEOUT
<1>4. ~ Left(<<ACK, 170, 0>>)
  <2>1. Then(<<ACK, 170, 0>>, ACK, <<170, 0>>) BY Thens
  <2> QED BY <1>1, <2>1 DEF ACK, TIMEOUT
<1>5. ~ Left(<<170, 0>>)
  <2>1. Then(<<170, 0>>, 170, <<0>>) BY Thens
  <2> QED BY <1>1, <2>1 DEF TIMEOUT
<1>6. ~ Left(<<0>>)
  <2>1. Then(<<0>>, 0, <<>>) BY Thens
  <2> QED BY <1>1, <2>1 DEF TIMEOUT
<1>7. ~ Left(<<ACK, 252>>)
  <2>1. Then(<<ACK, 252>>, ACK, <<252>>) BY Thens
  <2> QED BY <1>1, <2>1 DEF ACK, TIMEOUT
<1>8. ~ Left(<<252>>)
  <2>1. Then(<<252>>, 252, <<>>) BY Thens
  <2> QED BY <1>1, <2>1 DEF TIMEOUT
<1>9. /\ Left(<<>>)
      /\ \/ kinds[port] = "keyboard" /\ id = 64170
         \/ kinds[port] = "mouse" /\ id = 43520
         \/ kinds[port] = "faulty" /\ id = 64252
         \/ kinds[port] \notin {"keyboard", "mouse", "faulty"} /\ id = 0
  BY <1>2, <1>3, <1>4, <1>5, <1>6, <1>7, <1>8 DEF DueAtReset
<1>10. out = <<>> BY <1>9, Nothing DEF Left
<1>11. r.rest = <<>> BY <1>9, NoByte
<1> QED BY <1>9, <1>10, <1>11

\* The same for the identity.
LEMMA IdentityEnds ==
  ASSUME prompt, IRQ(1) \notin config, port \in Port, DueAtIdentity,
         NEW r \in Reads(out), r.val = TIMEOUT
  PROVE  /\ r.rest = <<>>
         /\ \/ kinds[port] = "keyboard" /\ id = 43907
            \/ kinds[port] = "mouse" /\ id = 0
<1>1. ASSUME NEW a, NEW x, NEW b, Then(a, x, b), Left(a) PROVE x = TIMEOUT
  BY <1>1, NextByte
<1>2. ~ Left(<<171, 131>>)
  <2>1. Then(<<171, 131>>, 171, <<131>>) BY Thens
  <2> QED BY <1>1, <2>1 DEF TIMEOUT
<1>3. ~ Left(<<131>>)
  <2>1. Then(<<131>>, 131, <<>>) BY Thens
  <2> QED BY <1>1, <2>1 DEF TIMEOUT
<1>4. ~ Left(<<0>>)
  <2>1. Then(<<0>>, 0, <<>>) BY Thens
  <2> QED BY <1>1, <2>1 DEF TIMEOUT
<1>5. /\ Left(<<>>)
      /\ \/ kinds[port] = "keyboard" /\ id = 43907
         \/ kinds[port] = "mouse" /\ id = 0
  BY <1>2, <1>3, <1>4 DEF DueAtIdentity
<1> QED BY <1>5, NoByte

\* Every command of identify_device is acknowledged.
LEMMA Acknowledged ==
  ASSUME prompt, IRQ(1) \notin config, port \in Port, kinds[port] \in Kind,
         pc \in {"disable", "identify", "enable"}, DueInv, NEW r \in Reads(out)
  PROVE  /\ r.val = ACK
         /\ kinds[port] \in {"keyboard", "mouse"}
         /\ pc # "identify" => r.rest = <<>>
         /\ pc = "identify" /\ kinds[port] = "keyboard" => r.rest = Says(port, <<171, 131>>)
         /\ pc = "identify" /\ kinds[port] = "mouse" => r.rest = Says(port, <<0>>)
<1>1. CASE pc # "identify"
  <2>1. Left(<<ACK>>) /\ kinds[port] \in {"keyboard", "mouse"}
    BY <1>1 DEF DueInv, DueAtDisable, DueAtEnable, Usable
  <2>2. Then(<<ACK>>, ACK, <<>>) BY Thens
  <2>3. r.val = ACK /\ r.rest = Says(port, <<>>) BY <2>1, <2>2, NextByte
  <2> QED BY <1>1, <2>1, <2>3, Nothing
<1>2. CASE pc = "identify" /\ kinds[port] = "keyboard"
  <2>1. Left(Answer(kinds[port], 242)) BY <1>2 DEF DueInv, DueAtIdentify
  <2>2. Answer(kinds[port], 242) = <<ACK, 171, 131>> BY <1>2, Answers
  <2>3. Left(<<ACK, 171, 131>>) BY <2>1, <2>2
  <2>4. Then(<<ACK, 171, 131>>, ACK, <<171, 131>>) BY Thens
  <2>5. r.val = ACK /\ r.rest = Says(port, <<171, 131>>) BY <2>3, <2>4, NextByte
  <2> QED BY <1>2, <2>5
<1>3. CASE pc = "identify" /\ kinds[port] = "mouse"
  <2>1. Left(Answer(kinds[port], 242)) BY <1>3 DEF DueInv, DueAtIdentify
  <2>2. Answer(kinds[port], 242) = <<ACK, 0>> BY <1>3, Answers
  <2>3. Left(<<ACK, 0>>) BY <2>1, <2>2
  <2>4. Then(<<ACK, 0>>, ACK, <<0>>) BY Thens
  <2>5. r.val = ACK /\ r.rest = Says(port, <<0>>) BY <2>3, <2>4, NextByte
  <2> QED BY <1>3, <2>5
<1>4. pc = "identify" => kinds[port] \in {"keyboard", "mouse"}
  BY DEF DueInv, DueAtIdentify, Usable
<1> QED BY <1>1, <1>2, <1>3, <1>4

\* A command to a device that is there and works is acknowledged.
Plain == Command \ {255, 242}

LEMMA SentAck ==
  ASSUME NEW o, Empty(o), NEW cfg, NEW p \in Port, NEW v \in Plain,
         kinds[p] \in {"keyboard", "mouse"}, p \in ports, Off(p) \notin cfg
  PROVE  Sent(o, cfg, p, v) = Says(p, <<ACK>>)
<1>1. kinds[p] \in Kind /\ v \in Command BY DEF Kind, Plain
<1>2. Sent(o, cfg, p, v) = Says(p, Answer(kinds[p], v)) BY <1>1, SentFirst
<1>3. Answer(kinds[p], v) = <<ACK>> BY <1>1, Answers DEF Plain
<1> QED BY <1>2, <1>3

\* A port that is finished, and the second port before the first, are found.
LEMMA FoundOn ==
  ASSUME port \in Port, UNCHANGED <<kinds, config>>,
         UNCHANGED PS2_port \/ PS2_port' \in Keyboards,
         \A q \in Port \ {port} : device'[q] = device[q],
         port = 1 => Found(2),
         kinds[port] = "keyboard" => /\ device'[port] = 43907 /\ Off(port) \notin config
                                     /\ PS2_port' \in Keyboards
  PROVE  \A q \in Port : q >= port => Found(q)'
<1> SUFFICES ASSUME NEW q \in Port, q >= port PROVE Found(q)' OBVIOUS
<1>1. Keyboards' = Keyboards BY DEF Keyboards
<1>2. CASE q = port BY <1>1, <1>2 DEF Found
<1>3. CASE q # port
  <2>1. q = 2 /\ port = 1 BY <1>3 DEF Port
  <2>2. device'[2] = device[2] BY <2>1 DEF Port
  <2> QED BY <1>1, <2>1, <2>2 DEF Found
<1> QED BY <1>2, <1>3

LEMMA NoDeviceDue ==
  ASSUME LateInv, PromptInv, prompt, NoDevice
  PROVE  DueInv' /\ ConfigInv' /\ PortsInv' /\ FoundInv'
<1>1. /\ pc = "reset" /\ Unusable /\ NextPort
      /\ UNCHANGED <<kinds, config, ports, PS2_port>>
      /\ device' = [device EXCEPT ![port] = NONE]
  BY DEF NoDevice, machine
<1>2. pc \in Talking BY <1>1 DEF Talking
<1>3. PICK r \in Reads(out) : r.val = TIMEOUT /\ out' = r.rest BY DEF NoDevice
<1>4. DueAtReset BY <1>1 DEF PromptInv, DueInv
<1>5. port \in Port /\ IRQ(1) \notin config BY <1>2, TalkingTo
<1>6. out' = <<>> /\ kinds[port] # "keyboard"
  BY <1>1, <1>3, <1>4, <1>5, ResetEnds DEF Unusable
<1>7. \A q \in Port : q >= port => Found(q)'
  <2>1. device \in [Port -> 0..NONE] /\ (port = 1 => Found(2)) BY <1>2, TalkingTo
  <2>2. \A q \in Port \ {port} : device'[q] = device[q] BY <1>1, <2>1
  <2> QED BY <1>1, <1>5, <1>6, <2>1, <2>2, FoundOn
<1>8. /\ TRANSLATION \notin config /\ 1 \in ports
      /\ port = 2 => (2 \in ports <=> Works2)
  BY <1>2, TalkingTo
<1> QED BY <1>1, <1>5, <1>6, <1>7, <1>8, NextPortDue

LEMMA IdentifyDue ==
  ASSUME LateInv, PromptInv, prompt, Identify
  PROVE  DueInv' /\ ConfigInv' /\ PortsInv' /\ FoundInv'
<1>1. /\ pc = "reset" /\ ~ Unusable /\ pc' = "disable"
      /\ UNCHANGED <<kinds, port, ports, device, PS2_port>>
  BY DEF Identify, machine
<1>2. pc \in Talking \ SettingUp BY <1>1 DEF Talking, SettingUp
<1>3. /\ port \in Port /\ port \in ports /\ 1 \in ports /\ IRQ(1) \notin config
      /\ TRANSLATION \notin config /\ Off(port) \notin config /\ config \in SUBSET Bit
      /\ kinds[port] \in Kind /\ kinds[port] \notin {"absent", "broken"}
  BY <1>2, TalkingTo
<1>4. PICK r \in Reads(out) :
        /\ r.val = TIMEOUT
        /\ \E c \in Reads(r.rest \o Says(Controller, <<Byte(config)>>)) :
             /\ saved' = Bits(c.val) /\ config' = saved' \ {TRANSLATION}
             /\ out' = Sent(c.rest, config', port, 245)
  BY <1>3 DEF Identify, WriteConfig
<1>5. DueAtReset BY <1>1 DEF PromptInv, DueInv
<1>6. out = <<>> /\ r.rest = <<>> /\ kinds[port] \in {"keyboard", "mouse"}
  BY <1>1, <1>3, <1>4, <1>5, ResetEnds DEF Unusable
<1>7. PICK c \in Asks(Byte(config)) :
        /\ saved' = Bits(c.val) /\ config' = saved' \ {TRANSLATION}
        /\ out' = Sent(c.rest, config', port, 245)
  BY <1>4, <1>6 DEF Asks
<1>8. Byte(config) \in 0..255 /\ Bits(Byte(config)) = config BY <1>3, ByteIs
<1>9. c.rest = <<>> /\ c.val = Byte(config) BY <1>3, <1>6, <1>8, PromptAsk
<1>10. saved' = config /\ config' = config BY <1>3, <1>7, <1>8, <1>9
<1>11. out' = Says(port, <<ACK>>)
  <2>1. 245 \in Plain BY DEF Plain, Command
  <2>2. Empty(c.rest) BY <1>9 DEF Empty
  <2>3. Off(port) \notin config' BY <1>3, <1>10
  <2> QED BY <1>3, <1>6, <1>7, <2>1, <2>2, <2>3, SentAck
<1>12. DueAtDisable' BY <1>1, <1>6, <1>11 DEF DueAtDisable, Usable, Left
<1>13. DueInv' BY <1>1, <1>12 DEF DueInv, Talking, Identifying, SettingUp
<1>14. pc' \in Talking \ SettingUp BY <1>1 DEF Talking, Identifying, SettingUp
<1> QED BY <1>1, <1>2, <1>10, <1>13, <1>14, SamePort

\* Nothing that identify_device sends goes unacknowledged.
LEMMA NotIdentifiedDue ==
  ASSUME LateInv, PromptInv, prompt, NotIdentified
  PROVE  FALSE
<1>1. pc \in {"disable", "identify", "enable"} BY DEF NotIdentified
<1>2. PICK r \in Reads(out) : r.val # ACK BY DEF NotIdentified, IsAck
<1>3. pc \in Talking BY <1>1 DEF Talking, Identifying
<1>4. port \in Port /\ IRQ(1) \notin config /\ kinds[port] \in Kind BY <1>3, TalkingTo
<1>5. DueInv BY DEF PromptInv
<1> QED BY <1>1, <1>2, <1>4, <1>5, Acknowledged

LEMMA DisabledDue ==
  ASSUME LateInv, PromptInv, prompt, Disabled
  PROVE  DueInv' /\ ConfigInv' /\ PortsInv' /\ FoundInv'
<1>1. /\ pc = "disable" /\ pc' = "identify"
      /\ UNCHANGED <<kinds, config, port, ports, device, PS2_port, saved>>
  BY DEF Disabled, machine, locals
<1>2. pc \in Talking \ SettingUp /\ pc' \in Talking \ SettingUp
  BY <1>1 DEF Talking, Identifying, SettingUp
<1>3. /\ port \in Port /\ port \in ports /\ IRQ(1) \notin config
      /\ Off(port) \notin config /\ kinds[port] \in Kind
  BY <1>2, TalkingTo
<1>4. PICK r \in Reads(out) : out' = Sent(r.rest, config, port, 242) BY DEF Disabled
<1>5. DueInv BY DEF PromptInv
<1>6. r.rest = <<>> /\ kinds[port] \in {"keyboard", "mouse"}
  BY <1>1, <1>3, <1>5, Acknowledged
<1>7. out' = Says(port, Answer(kinds[port], 242))
  <2>1. 242 \in Command BY DEF Command
  <2>2. Empty(r.rest) BY <1>6 DEF Empty
  <2> QED BY <1>3, <1>4, <2>1, <2>2, SentFirst
<1>8. DueAtIdentify' BY <1>1, <1>6, <1>7 DEF DueAtIdentify, Usable, Left
<1>9. DueInv' BY <1>1, <1>8 DEF DueInv, Talking, Identifying, SettingUp
<1> QED BY <1>1, <1>2, <1>9, SamePort

LEMMA IdentifiedDue ==
  ASSUME LateInv, PromptInv, prompt, Identified
  PROVE  DueInv' /\ ConfigInv' /\ PortsInv' /\ FoundInv'
<1>1. /\ pc = "identify" /\ pc' = "identity" /\ id' = 0
      /\ UNCHANGED <<kinds, config, port, ports, device, PS2_port, saved>>
  BY DEF Identified, machine
<1>2. pc \in Talking \ SettingUp /\ pc' \in Talking \ SettingUp
  BY <1>1 DEF Talking, Identifying, SettingUp
<1>3. port \in Port /\ IRQ(1) \notin config /\ kinds[port] \in Kind BY <1>2, TalkingTo
<1>4. PICK r \in Reads(out) : out' = r.rest BY DEF Identified
<1>5. DueInv BY DEF PromptInv
<1>6. \/ kinds[port] = "keyboard" /\ r.rest = Says(port, <<171, 131>>)
      \/ kinds[port] = "mouse" /\ r.rest = Says(port, <<0>>)
  BY <1>1, <1>3, <1>5, Acknowledged
<1>7. DueAtIdentity' BY <1>1, <1>4, <1>6 DEF DueAtIdentity, Left
<1>8. DueInv' BY <1>1, <1>7 DEF DueInv, Talking, Identifying, SettingUp
<1> QED BY <1>1, <1>2, <1>8, SamePort

LEMMA EnableDue ==
  ASSUME LateInv, PromptInv, prompt, Enable
  PROVE  DueInv' /\ ConfigInv' /\ PortsInv' /\ FoundInv'
<1>1. /\ pc = "identity" /\ pc' = "enable"
      /\ UNCHANGED <<kinds, config, port, ports, device, PS2_port, saved, id>>
  BY DEF Enable, machine, locals
<1>2. pc \in Talking \ SettingUp /\ pc' \in Talking \ SettingUp
  BY <1>1 DEF Talking, Identifying, SettingUp
<1>3. /\ port \in Port /\ port \in ports /\ IRQ(1) \notin config
      /\ Off(port) \notin config /\ kinds[port] \in Kind
  BY <1>2, TalkingTo
<1>4. PICK r \in Reads(out) : r.val = TIMEOUT /\ out' = Sent(r.rest, config, port, 244)
  BY DEF Enable
<1>5. DueAtIdentity BY <1>1 DEF PromptInv, DueInv
<1>6. /\ r.rest = <<>>
      /\ \/ kinds[port] = "keyboard" /\ id = 43907
         \/ kinds[port] = "mouse" /\ id = 0
  BY <1>3, <1>4, <1>5, IdentityEnds
<1>7. out' = Says(port, <<ACK>>)
  <2>1. 244 \in Plain BY DEF Plain, Command
  <2>2. Empty(r.rest) BY <1>6 DEF Empty
  <2>3. kinds[port] \in {"keyboard", "mouse"} BY <1>6
  <2> QED BY <1>3, <1>4, <2>1, <2>2, <2>3, SentAck
<1>8. DueAtEnable' BY <1>1, <1>6, <1>7 DEF DueAtEnable, Usable, Left
<1>9. DueInv' BY <1>1, <1>8 DEF DueInv, Talking, Identifying, SettingUp
<1> QED BY <1>1, <1>2, <1>9, SamePort

LEMMA EnabledDue ==
  ASSUME LateInv, PromptInv, prompt, Enabled
  PROVE  DueInv' /\ ConfigInv' /\ PortsInv' /\ FoundInv'
<1>1. /\ pc = "enable" /\ device' = [device EXCEPT ![port] = id]
      /\ UNCHANGED <<kinds, ports>>
  BY DEF Enabled, machine
<1>2. pc \in Talking BY <1>1 DEF Talking, Identifying
<1>3. /\ port \in Port /\ port \in ports /\ 1 \in ports /\ IRQ(1) \notin config
      /\ TRANSLATION \notin config /\ Off(port) \notin config
      /\ kinds[port] \in Kind /\ kinds[port] \notin {"absent", "broken"}
      /\ device \in [Port -> 0..NONE]
      /\ port = 1 => (2 \in ports <=> Works2) /\ Found(2)
      /\ port = 2 => (2 \in ports <=> Works2)
  BY <1>2, TalkingTo
<1>4. PICK r \in Reads(out) : out' = r.rest BY DEF Enabled
<1>5. DueInv BY DEF PromptInv
<1>6. out' = <<>> BY <1>1, <1>3, <1>4, <1>5, Acknowledged
<1>7. config' = config
  BY <1>1, <1>3 DEF Enabled, WriteConfig, PromptInv, ConfigInv, Identifying
<1>8. /\ kinds[port] \in {"keyboard", "mouse"}
      /\ id = IF kinds[port] = "keyboard" THEN 43907 ELSE 0
  BY <1>1 DEF PromptInv, DueInv, DueAtEnable, Usable
<1>9. IsKeyboard <=> kinds[port] = "keyboard" BY <1>8 DEF IsKeyboard, NONE
<1>10. device'[port] = id /\ \A q \in Port \ {port} : device'[q] = device[q]
  BY <1>1, <1>3
<1>11. CASE kinds[port] # "keyboard"
  <2>1. NextPort /\ UNCHANGED PS2_port BY <1>9, <1>11 DEF Enabled
  <2>2. \A q \in Port : q >= port => Found(q)'
    BY <1>1, <1>3, <1>7, <1>10, <1>11, <2>1, FoundOn
  <2> QED BY <1>1, <1>3, <1>6, <1>7, <2>1, <2>2, NextPortDue
<1>12. CASE kinds[port] = "keyboard"
  <2>1. pc' = "scan_codes" /\ PS2_port' = port /\ UNCHANGED port
    BY <1>9, <1>12 DEF Enabled
  <2>2. PS2_port' \in Keyboards BY <1>3, <1>12, <2>1 DEF Keyboards
  <2>3. \A q \in Port : q >= port => Found(q)'
    BY <1>1, <1>3, <1>7, <1>8, <1>10, <1>12, <2>2, FoundOn
  <2>4. FoundInv'
    <3>1. \A q \in Finished' : q \in Port /\ q >= port
      BY <1>3, <2>1 DEF Finished, Talking, Identifying, SettingUp, Port
    <3> QED BY <2>1, <2>3, <3>1 DEF FoundInv
  <2>5. DueInv' BY <1>1, <1>6, <1>12, <2>1
    DEF DueInv, DueAtSetUp, Talking, Identifying, SettingUp
  <2>6. ConfigInv' BY <1>3, <1>7, <2>1
    DEF ConfigInv, Passes, Talking, Identifying, SettingUp
  <2>7. PortsInv' BY <1>1, <1>3, <2>1
    DEF PortsInv, Works2, Talking, Identifying, SettingUp
  <2> QED BY <2>4, <2>5, <2>6, <2>7
<1> QED BY <1>11, <1>12

LEMMA KeyboardInitDue ==
  ASSUME LateInv, PromptInv, prompt, KeyboardInit
  PROVE  DueInv' /\ ConfigInv' /\ PortsInv' /\ FoundInv'
<1> DEFINE first == Sent(out, config, port, 240)
           sent == Sent(first, config, port, 2)
<1>1. /\ pc \in SettingUp
      /\ UNCHANGED <<kinds, config, ports, device, PS2_port>>
  BY DEF KeyboardInit, machine, SettingUp
<1>2. pc \in Talking BY <1>1 DEF Talking
<1>3. /\ port \in Port /\ port \in ports /\ 1 \in ports /\ IRQ(1) \notin config
      /\ TRANSLATION \notin config /\ Off(port) \notin config
      /\ kinds[port] \in Kind /\ kinds[port] \notin {"absent", "broken"}
      /\ port = 1 => (2 \in ports <=> Works2) /\ Found(2)
      /\ port = 2 => (2 \in ports <=> Works2)
  BY <1>2, TalkingTo
<1>4. out = <<>> /\ kinds[port] = "keyboard" BY <1>1 DEF PromptInv, DueInv, DueAtSetUp
<1>5. first = Says(port, <<ACK>>)
  <2>1. 240 \in Plain BY DEF Plain, Command
  <2>2. Empty(out) BY <1>4 DEF Empty
  <2> QED BY <1>3, <1>4, <2>1, <2>2, SentAck
<1>6. <<ACK>> \in Seq(0..255) /\ <<ACK>> # <<>> /\ <<ACK>>[1] = ACK /\ Tail(<<ACK>>) = <<>>
  BY Thens DEF Then
<1>7. first \in Seq(Msg) /\ \A i \in 1..Len(first) : first[i].from = port
  <2> HIDE DEF first
  <2> DEFINE a == <<ACK>>
  <2>1. a \in Seq(0..255) BY <1>6
  <2>2. first = Says(port, a) BY <1>5
  <2> HIDE DEF a
  <2> QED BY <1>3, <2>1, <2>2, SaysIs
<1>8. sent = Says(port, <<ACK>>)
  <2> HIDE DEF first
  <2>1. 2 \in Command /\ 2 \in Plain BY DEF Plain, Command
  <2>2. sent = Says(port, Answer(kinds[port], 2)) BY <1>3, <1>7, <2>1, SentAlone
  <2>3. Answer(kinds[port], 2) = <<ACK>> BY <1>3, <1>4, <2>1, Answers DEF Plain
  <2> QED BY <2>2, <2>3
<1>9. PICK r \in Reads(sent) :
        /\ out' = r.rest
        /\ \/ r.val # ACK /\ tries < 3
           \/ IF pc = "scan_codes" THEN pc' = "lights" /\ UNCHANGED port ELSE NextPort
  BY DEF KeyboardInit, IsAck
<1> HIDE DEF first, sent
<1>10. r.val = ACK /\ r.rest = <<>>
  <2>1. r \in Reads(Says(port, <<ACK>>)) BY <1>8, <1>9
  <2>2. r.val = <<ACK>>[1] /\ r.rest = Says(port, Tail(<<ACK>>))
    BY <1>3, <1>6, <2>1, PromptRead
  <2> QED BY <1>3, <1>6, <2>2, Nothing
<1>11. out' = <<>> BY <1>9, <1>10
<1>12. Found(port)
  <2>1. port \in Finished BY <1>1 DEF Finished, SettingUp
  <2> QED BY <2>1 DEF PromptInv, FoundInv
<1>13. \A q \in Port : q >= port => Found(q)'
  <2>1. device[port] = 43907 /\ PS2_port \in Keyboards BY <1>4, <1>12 DEF Found
  <2>2. \A q \in Port \ {port} : device'[q] = device[q] BY <1>1
  <2>3. device'[port] = 43907 /\ PS2_port' \in Keyboards BY <1>1, <2>1
  <2> QED BY <1>1, <1>3, <2>2, <2>3, FoundOn
<1>14. CASE NextPort BY <1>1, <1>3, <1>11, <1>13, <1>14, NextPortDue
<1>15. CASE pc' = "lights" /\ UNCHANGED port
  <2>1. FoundInv'
    <3>1. \A q \in Finished' : q \in Port /\ q >= port
      BY <1>3, <1>15 DEF Finished, Talking, Identifying, SettingUp, Port
    <3> QED BY <1>13, <1>15, <3>1 DEF FoundInv
  <2>2. DueInv' BY <1>1, <1>4, <1>11, <1>15
    DEF DueInv, DueAtSetUp, Talking, Identifying, SettingUp
  <2>3. ConfigInv' BY <1>1, <1>3, <1>15
    DEF ConfigInv, Passes, Talking, Identifying, SettingUp
  <2>4. PortsInv' BY <1>1, <1>3, <1>15
    DEF PortsInv, Works2, Talking, Identifying, SettingUp
  <2> QED BY <2>1, <2>2, <2>3, <2>4
<1> QED BY <1>9, <1>10, <1>14, <1>15

LEMMA EnableIrqsDue ==
  ASSUME LateInv, PromptInv, prompt, EnableIrqs
  PROVE  DueInv' /\ ConfigInv' /\ PortsInv' /\ FoundInv'
<1> DEFINE irqs == {IRQ(p) : p \in {q \in Port : device[q] # NONE}}
<1>1. /\ pc = "enable_irqs" /\ pc' = "done"
      /\ UNCHANGED <<kinds, device, PS2_port>>
  BY DEF EnableIrqs, machine
<1>2. /\ out = <<>> /\ config \in SUBSET Bit /\ IRQ(1) \notin config
      /\ kinds[1] = "broken" \/ 1 \in ports
  BY <1>1, Types DEF LateInv, PromptInv, DueInv, ConfigInv, PortsInv, Talking,
                     Identifying, SettingUp
<1>3. Byte(config) \in 0..255 /\ Bits(Byte(config)) = config BY <1>2, ByteIs
<1>4. PICK r \in Asks(Byte(config)) :
        /\ out' = r.rest
        /\ config' = IF 1 \in ports THEN Bits(r.val) \cup {TRANSLATION} \cup irqs
                                    ELSE config
  BY DEF EnableIrqs, ReadConfig, WriteConfig
<1>5. r.rest = <<>> /\ r.val = Byte(config) BY <1>2, <1>3, PromptAsk
<1>6. out' = <<>> BY <1>4, <1>5
<1>7. /\ config' \subseteq config \cup {TRANSLATION} \cup irqs
      /\ kinds[1] # "broken" => {TRANSLATION} \cup irqs \subseteq config'
  <2> HIDE DEF irqs
  <2> QED BY <1>2, <1>3, <1>4, <1>5
<1>8. ASSUME NEW q \in Port PROVE Found(q)'
  <2>1. Found(q)
    <3>1. q \in Finished BY <1>1 DEF Finished
    <3> QED BY <3>1 DEF PromptInv, FoundInv
  <2>2. Off(q) \notin config => Off(q) \notin config'
    <3>1. irqs \subseteq {0, 1} BY DEF Port, IRQ
    <3>2. Off(q) \in {4, 5} BY DEF Port, Off
    <3> HIDE DEF irqs
    <3> QED BY <1>7, <3>1, <3>2 DEF TRANSLATION
  <2>3. Keyboards' = Keyboards BY <1>1 DEF Keyboards
  <2> QED BY <1>1, <2>1, <2>2, <2>3 DEF Found
<1>9. ASSUME kinds[1] # "broken", NEW q \in Keyboards
      PROVE  {IRQ(q), TRANSLATION} \subseteq config'
  <2>1. q \in Port /\ kinds[q] = "keyboard" BY DEF Keyboards
  <2>2. device[q] = 43907 BY <1>1, <1>8, <2>1 DEF Found
  <2>3. IRQ(q) \in irqs BY <2>1, <2>2 DEF NONE
  <2> HIDE DEF irqs
  <2> QED BY <1>7, <1>9, <2>3
<1>10. FoundInv'
  <2>1. Finished' = Port BY <1>1 DEF Finished
  <2>2. Keyboards' = Keyboards BY <1>1 DEF Keyboards
  <2> QED BY <1>1, <1>8, <1>9, <2>1, <2>2 DEF FoundInv
<1> QED BY <1>1, <1>6, <1>10
    DEF DueInv, ConfigInv, PortsInv, Talking, Identifying, SettingUp

\* Every step keeps the answers in order and what is finished found.
LEMMA PromptKeeps ==
  ASSUME LateInv, PromptInv, [Next]_vars PROVE PromptInv'
<1>1. UNCHANGED prompt
  BY DEF Next, vars, machine, Flush, ClearConfig, SelfTest, SecondPort, SecondConfig,
         PortFails, ResetDevice, Collect, NoDevice, Identify, NotIdentified, Disabled,
         Identified, Enable, Enabled, KeyboardInit, EnableIrqs
<1> SUFFICES ASSUME prompt PROVE DueInv' /\ ConfigInv' /\ PortsInv' /\ FoundInv'
  BY <1>1 DEF PromptInv
<1>2. CASE UNCHANGED vars
  <2>1. /\ DueInv /\ ConfigInv /\ PortsInv /\ FoundInv
        /\ UNCHANGED <<kinds, config, out, pc, port, saved, id, ports, device, PS2_port>>
    BY <1>2 DEF PromptInv, vars, machine, locals
  <2>2. DueInv'
    BY <2>1 DEF DueInv, DueAtReset, DueAtDisable, DueAtIdentify, DueAtIdentity,
                DueAtEnable, DueAtSetUp, Left, Usable
  <2>3. ConfigInv' BY <2>1 DEF ConfigInv, Passes
  <2>4. PortsInv' BY <2>1 DEF PortsInv, Works2
  <2>5. FoundInv'
    <3>1. Finished' = Finished /\ Keyboards' = Keyboards BY <2>1 DEF Finished, Keyboards
    <3> QED BY <2>1, <3>1 DEF FoundInv, Found
  <2> QED BY <2>2, <2>3, <2>4, <2>5
<1> QED BY <1>2, FlushDue, ClearConfigDue, SelfTestDue, SecondPortDue, SecondConfigDue,
           PortFailsDue, ResetDue, CollectDue, NoDeviceDue, IdentifyDue, NotIdentifiedDue,
           DisabledDue, IdentifiedDue, EnableDue, EnabledDue, KeyboardInitDue,
           EnableIrqsDue
    DEF Next

LEMMA PromptInit == Init => PromptInv
<1> SUFFICES ASSUME Init PROVE PromptInv OBVIOUS
<1>1. pc = "flush" BY DEF Init
<1>2. Finished = {} BY <1>1 DEF Finished, Talking, Identifying, SettingUp
<1> QED BY <1>1, <1>2
    DEF PromptInv, DueInv, ConfigInv, PortsInv, FoundInv, Talking, Identifying, SettingUp

\* The invariant holds always.
LEMMA AlwaysPrompt == Spec => []PromptInv
<1>1. Init => PromptInv BY PromptInit
<1>2. LateInv /\ PromptInv /\ [Next]_vars => PromptInv' BY PromptKeeps
<1> QED BY <1>1, <1>2, AlwaysLate, PTL DEF Spec

\* With prompt answers and a first port that works, every keyboard is found,
\* whatever the other port holds: identified, its port on, its interrupt and
\* the translation enabled, and no answer left to be taken for a key.
THEOREM KeyboardFound == Spec => []KeyboardUsable
<1>1. LateInv /\ PromptInv => KeyboardUsable
  <2> SUFFICES ASSUME LateInv, PromptInv, pc = "done", prompt, kinds[1] # "broken"
               PROVE  /\ out = <<>>
                      /\ \A p \in Keyboards :
                           /\ device[p] = 43907 /\ Off(p) \notin config
                           /\ {IRQ(p), TRANSLATION} \subseteq config
                      /\ Keyboards # {} => PS2_port \in Keyboards
    BY DEF KeyboardUsable
  <2>1. out = <<>> BY DEF PromptInv, DueInv, Talking, Identifying, SettingUp
  <2>2. Finished = Port BY DEF Finished
  <2>3. ASSUME NEW p \in Keyboards
        PROVE  /\ device[p] = 43907 /\ Off(p) \notin config
               /\ {IRQ(p), TRANSLATION} \subseteq config
               /\ PS2_port \in Keyboards
    <3>1. p \in Port /\ kinds[p] = "keyboard" BY DEF Keyboards
    <3>2. Found(p) BY <2>2, <3>1 DEF PromptInv, FoundInv
    <3>3. {IRQ(p), TRANSLATION} \subseteq config BY DEF PromptInv, FoundInv
    <3> QED BY <3>1, <3>2, <3>3 DEF Found
  <2> QED BY <2>1, <2>3
<1> QED BY <1>1, AlwaysLate, AlwaysPrompt, PTL

\* The kernel panics only on a machine without a working port.
THEOREM PanicsOnly == Spec => []PanicsWithoutPorts
<1>1. LateInv /\ PromptInv => PanicsWithoutPorts
  <2> SUFFICES ASSUME LateInv, PromptInv, pc = "panic", prompt
               PROVE  kinds[1] = "broken" /\ kinds[2] \in {"absent", "broken"}
    BY DEF PanicsWithoutPorts
  <2> QED BY DEF PromptInv, PortsInv, Works2
<1> QED BY <1>1, AlwaysLate, AlwaysPrompt, PTL
==============================================================================
