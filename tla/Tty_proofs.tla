------------------------------ MODULE Tty_proofs ------------------------------
(***************************************************************************)
(* Theorems about Tty, for a screen of any width and height and writes of  *)
(* any length.                                                             *)
(***************************************************************************)
EXTENDS Tty, SequenceTheorems, TLAPS

------------------------------------------------------------------------------
(***************************************************************************)
(* The inductive invariant.                                                *)

Char == Glyphs \cup {Blank}
Byte == 0..(LENGTHS - 1)
Term == [row : Row, column : Nat, length : [Row -> Byte], cells : [Cell -> Char]]

\* The row that is written is as long as the column says, and is the last.
Written(t) == t.length[t.row] = t.column % LENGTHS
BelowEmpty(t) == \A y \in Row : y > t.row => t.length[y] = 0

Good(t) == t \in Term /\ Written(t) /\ BelowEmpty(t)

\* Every row ends on the screen, and what lies past its end is blank.
Fits(t) == t.column <= WIDTH /\ \A y \in Row : t.length[y] <= WIDTH
PastEndBlank(t) ==
  \A y \in Row : \A x \in t.length[y]..(WIDTH - 1) : t.cells[At(x, y)] = Blank

Clean(t) == Fits(t) /\ PastEndBlank(t)

TtyInv ==
  /\ TypeOK
  /\ Written(term) /\ BelowEmpty(term)
  /\ ~overrun => Fits(term)
  /\ mapped /\ ~overrun => PastEndBlank(term)
  /\ ~mapped => term.row = 0 /\ term.column = 0 /\ ~overrun
  /\ todo # <<>> => busy
  /\ ~busy /\ cursor # Unknown => cursor = Position(term)

------------------------------------------------------------------------------
(***************************************************************************)
(* The buffer: row y occupies the WIDTH cells from y * WIDTH on.           *)

\* The address of a column of a row: where it lies, and one row further on.
LEMMA Address ==
  ASSUME NEW x \in 0..WIDTH, NEW y \in Row
  PROVE  /\ At(x, y) \in 0..(WIDTH * HEIGHT)
         /\ x < WIDTH => At(x, y) \in Cell
         /\ At(x, y + 1) = At(x, y) + WIDTH
         /\ x < WIDTH /\ y + 1 \in Row => At(x, y) + WIDTH \in Cell
         /\ y + 1 \notin Row => At(x, y) + WIDTH \notin Cell
         /\ x > 0 => At(x, y) - 1 = At(x - 1, y)
<1> DEFINE W == WIDTH
           H == HEIGHT
<1>1. W \in Nat /\ W > 1 /\ H \in Nat /\ H > 1 BY TtyAssumption
<1>2. x \in Int /\ 0 <= x /\ x <= W /\ y \in Int /\ 0 <= y /\ y <= H - 1
  BY <1>1 DEF Row
<1>3. /\ y * W \in Int /\ y * W >= 0
      /\ (y + 1) * W = y * W + W
      /\ W * H = (H - 1) * W + W /\ (H - 1) * W \in Int
      /\ y * W <= (H - 1) * W
  <2> HIDE DEF W, H
  <2>1. y * W \in Nat /\ (H - 1) * W \in Nat BY <1>1, <1>2
  <2>2. ((H - 1) - y) * W \in Nat BY <1>1, <1>2
  <2>3. (H - 1) * W - y * W = ((H - 1) - y) * W BY <1>1, <1>2
  <2>4. (y + 1) * W = y * W + W BY <1>1, <1>2
  <2>5. W * H = (H - 1) * W + W BY <1>1
  <2> QED BY <2>1, <2>2, <2>3, <2>4, <2>5
<1>4. y + 1 \notin Row => y = H - 1 BY <1>1, <1>2 DEF Row
<1>5. Cell = 0..(W * H - 1) BY DEF Cell
<1>6. At(x, y) = y * W + x /\ At(x, y + 1) = (y + 1) * W + x
      /\ At(x - 1, y) = y * W + (x - 1)
  BY DEF At
<1>7. y + 1 \in Row => (y + 1) * W <= (H - 1) * W
  <2> HIDE DEF W, H
  <2> SUFFICES ASSUME y + 1 <= H - 1 PROVE (y + 1) * W <= (H - 1) * W
    BY <1>1, <1>2 DEF Row, H
  <2>1. ((H - 1) - (y + 1)) * W \in Nat BY <1>1, <1>2
  <2>2. (H - 1) * W - (y + 1) * W = ((H - 1) - (y + 1)) * W BY <1>1, <1>2
  <2>3. (y + 1) * W \in Int /\ (H - 1) * W \in Int BY <1>1, <1>2
  <2> QED BY <2>1, <2>2, <2>3
<1> DEFINE a == y * W
           b == (H - 1) * W
           d == (y + 1) * W
<1>8. /\ a \in Int /\ a >= 0 /\ b \in Int /\ a <= b /\ d = a + W /\ W * H = b + W
      /\ (y + 1 \in Row => d <= b) /\ (y = H - 1 => a = b)
  BY <1>3, <1>7
<1>9. /\ At(x, y) = a + x /\ At(x, y + 1) = d + x /\ At(x - 1, y) = a + (x - 1)
  BY <1>6
<1> HIDE DEF W, H, a, b, d
<1>10. WIDTH = W /\ HEIGHT = H BY DEF W, H
<1>11. /\ At(x, y) \in 0..(W * H) /\ x < W => At(x, y) \in Cell
  BY <1>1, <1>2, <1>5, <1>8, <1>9
<1> QED BY <1>1, <1>2, <1>4, <1>5, <1>8, <1>9, <1>10

\* No two positions share a cell.
LEMMA Distinct ==
  ASSUME NEW x \in 0..(WIDTH - 1), NEW y \in Row,
         NEW u \in 0..(WIDTH - 1), NEW v \in Row, At(x, y) = At(u, v)
  PROVE  x = u /\ y = v
<1>1. WIDTH \in Nat /\ HEIGHT \in Nat BY TtyAssumption
<1>2. /\ x \in Int /\ 0 <= x /\ x < WIDTH /\ u \in Int /\ 0 <= u /\ u < WIDTH
      /\ y \in Int /\ 0 <= y /\ v \in Int /\ 0 <= v
  BY <1>1 DEF Row
<1>3. ASSUME NEW p \in Int, NEW q \in Int, 0 <= p, p < q
      PROVE  p * WIDTH + WIDTH <= q * WIDTH /\ p * WIDTH \in Int /\ q * WIDTH \in Int
  <2>1. (q - (p + 1)) * WIDTH \in Nat BY <1>1, <1>3
  <2>2. q * WIDTH - (p * WIDTH + WIDTH) = (q - (p + 1)) * WIDTH BY <1>1, <1>3
  <2>3. p * WIDTH \in Int /\ q * WIDTH \in Int BY <1>1, <1>3
  <2> QED BY <1>1, <2>1, <2>2, <2>3
<1>4. y * WIDTH + x = v * WIDTH + u BY DEF At
<1>5. y * WIDTH \in Int /\ v * WIDTH \in Int BY <1>1, <1>2
<1>6. ~(y < v)
  <2> SUFFICES ASSUME y < v PROVE FALSE OBVIOUS
  <2>1. y * WIDTH + WIDTH <= v * WIDTH BY <1>2, <1>3
  <2> DEFINE a == y * WIDTH
             b == v * WIDTH
  <2>2. a + WIDTH <= b /\ a + x = b + u /\ a \in Int /\ b \in Int BY <1>4, <1>5, <2>1
  <2> HIDE DEF a, b
  <2> QED BY <1>1, <1>2, <2>2
<1>7. ~(v < y)
  <2> SUFFICES ASSUME v < y PROVE FALSE OBVIOUS
  <2>1. v * WIDTH + WIDTH <= y * WIDTH BY <1>2, <1>3
  <2> DEFINE a == y * WIDTH
             b == v * WIDTH
  <2>2. b + WIDTH <= a /\ a + x = b + u /\ a \in Int /\ b \in Int BY <1>4, <1>5, <2>1
  <2> HIDE DEF a, b
  <2> QED BY <1>1, <1>2, <2>2
<1>8. y = v BY <1>2, <1>6, <1>7
<1> DEFINE a == y * WIDTH
<1>9. a + x = a + u /\ a \in Int BY <1>4, <1>5, <1>8
<1> HIDE DEF a
<1> QED BY <1>2, <1>8, <1>9

\* Columns at WIDTH or past it have an address past their row.
LEMMA Beyond ==
  ASSUME NEW x \in 0..(WIDTH - 1), NEW y \in Row, NEW n \in Nat, n >= WIDTH,
         NEW v \in Row, y <= v
  PROVE  At(x, y) # At(n, v)
<1>1. WIDTH \in Nat /\ HEIGHT \in Nat BY TtyAssumption
<1>2. x \in Nat /\ x < WIDTH /\ y \in Nat /\ v \in Nat BY <1>1 DEF Row
<1>3. (v - y) * WIDTH \in Nat /\ v * WIDTH - y * WIDTH = (v - y) * WIDTH
      /\ v * WIDTH \in Nat /\ y * WIDTH \in Nat
  BY <1>1, <1>2
<1> DEFINE a == y * WIDTH
           b == v * WIDTH
<1>4. a \in Nat /\ b \in Nat /\ a <= b BY <1>3
<1>5. At(x, y) = a + x /\ At(n, v) = b + n BY DEF At
<1> HIDE DEF a, b
<1> QED BY <1>1, <1>2, <1>4, <1>5

\* What a byte keeps of a column.
LEMMA ByteOf ==
  ASSUME NEW n \in Nat
  PROVE  n % LENGTHS \in Byte /\ (n < LENGTHS => n % LENGTHS = n)
<1>1. LENGTHS \in Nat /\ LENGTHS > 0 BY TtyAssumption
<1> QED BY <1>1 DEF Byte

\* A write of so many characters at most, and what is left of it.
LEMMA Bounded ==
  ASSUME NEW S, NEW n \in Nat, NEW s
  PROVE  /\ s \in BoundedSeq(S, n) <=> s \in Seq(S) /\ Len(s) <= n
         /\ s \in BoundedSeq(S, n) /\ s # <<>> =>
              Head(s) \in S /\ Tail(s) \in BoundedSeq(S, n)
<1>1. ASSUME NEW q
      PROVE  q \in BoundedSeq(S, n) <=> q \in Seq(S) /\ Len(q) <= n
  <2>1. ASSUME q \in BoundedSeq(S, n) PROVE q \in Seq(S) /\ Len(q) <= n
    <3>1. PICK m \in 0..n : q \in [1..m -> S] BY <2>1 DEF BoundedSeq, SeqOf
    <3> QED BY <3>1
  <2>2. ASSUME q \in Seq(S), Len(q) <= n PROVE q \in BoundedSeq(S, n)
    <3>1. Len(q) \in 0..n /\ q \in [1..Len(q) -> S] BY <2>2
    <3> QED BY <3>1 DEF BoundedSeq, SeqOf
  <2> QED BY <2>1, <2>2
<1>2. ASSUME s \in BoundedSeq(S, n), s # <<>>
      PROVE  Head(s) \in S /\ Tail(s) \in BoundedSeq(S, n)
  <2>1. s \in Seq(S) /\ Len(s) <= n BY <1>1, <1>2
  <2>2. Head(s) \in S /\ Tail(s) \in Seq(S) /\ Len(Tail(s)) = Len(s) - 1
        /\ Len(s) \in Nat
    BY <1>2, <2>1, HeadTailProperties
  <2>3. Tail(s) \in Seq(S) /\ Len(Tail(s)) <= n BY <2>1, <2>2
  <2> QED BY <1>1, <2>2, <2>3, Zenon
<1> QED BY <1>1, <1>2

------------------------------------------------------------------------------
(***************************************************************************)
(* The page a reader sees: each row up to its end on the screen, down to   *)
(* the row that is written.                                                *)

View == [row : Row, length : [Row -> 0..WIDTH], cells : [Cell -> Char]]

\* terminal_scrollup moves the cells within their type.
LEMMA Moved ==
  ASSUME NEW cells \in [Cell -> Char] PROVE MovedUp(cells) \in [Cell -> Char]
BY DEF MovedUp, Char

\* ++terminal_row, with the scroll at the bottom.
LEMMA ViewNextRow ==
  ASSUME NEW t \in View
  PROVE  LET u == NextRow(t) IN
         /\ u \in View
         /\ t.row + 1 # HEIGHT =>
              u.row = t.row + 1 /\ u.length = t.length /\ u.cells = t.cells
         /\ t.row + 1 = HEIGHT =>
              u.row = t.row /\ u.length = Rotated(t.length) /\ u.cells = MovedUp(t.cells)
<1> DEFINE u == NextRow(t)
<1>0. WIDTH \in Nat /\ HEIGHT \in Nat /\ HEIGHT > 1 BY TtyAssumption
<1>1. /\ t.row \in Row /\ t.length \in [Row -> 0..WIDTH] /\ t.cells \in [Cell -> Char]
  BY DEF View
<1>2. CASE t.row + 1 # HEIGHT
  <2>1. u = [t EXCEPT !.row = @ + 1] BY <1>2 DEF NextRow
  <2>2. t.row + 1 \in Row BY <1>0, <1>1, <1>2 DEF Row
  <2>3. u \in View BY <2>1, <2>2 DEF View
  <2>4. u.row = t.row + 1 /\ u.length = t.length /\ u.cells = t.cells
    BY <2>1 DEF View
  <2> QED BY <1>2, <2>3, <2>4
<1>3. CASE t.row + 1 = HEIGHT
  <2> DEFINE v == [t EXCEPT !.row = @ + 1]
  <2>1. v.row = t.row + 1 /\ v.length = t.length /\ v.cells = t.cells BY DEF View
  <2>2. v \in [row : Int, length : [Row -> 0..WIDTH], cells : [Cell -> Char]]
    BY <1>0, <1>1 DEF View, Row
  <2>3. u = [v EXCEPT !.cells = MovedUp(@), !.length = Rotated(@), !.row = @ - 1]
    BY <1>3 DEF NextRow, Scrolled
  <2> HIDE DEF v
  <2>4. MovedUp(v.cells) \in [Cell -> Char] /\ Rotated(v.length) \in [Row -> 0..WIDTH]
    BY <1>0, <1>1, <2>1, Moved DEF Rotated
  <2>5. (t.row + 1) - 1 = t.row BY <1>0, <1>1 DEF Row
  <2>6. v.row - 1 = t.row BY <2>1, <2>5
  <2>7. u.cells = MovedUp(v.cells) /\ u.length = Rotated(v.length) /\ u.row = v.row - 1
    BY <2>2, <2>3
  <2>8. u \in View BY <1>1, <2>2, <2>3, <2>4, <2>6 DEF View
  <2>9. u.cells = MovedUp(t.cells) /\ u.length = Rotated(t.length) /\ u.row = t.row
    BY <2>1, <2>6, <2>7
  <2> HIDE DEF u
  <2> QED BY <1>3, <2>8, <2>9 DEF u
<1> QED BY <1>2, <1>3

Line(t, y) == [x \in 1..t.length[y] |-> t.cells[At(x - 1, y)]]
Lines(t) == [k \in 1..(t.row + 1) |-> Line(t, k - 1)]

\* A page has a line for each row, each a sequence of characters.
LEMMA PageOf ==
  ASSUME NEW t \in View
  PROVE  /\ Lines(t) \in Seq(Seq(Char)) /\ Len(Lines(t)) = t.row + 1
         /\ Lines(t) # <<>> /\ Last(Lines(t)) = Line(t, t.row)
         /\ \A y \in Row : Line(t, y) \in Seq(Char) /\ Len(Line(t, y)) = t.length[y]
         /\ Front(Lines(t)) = [k \in 1..t.row |-> Line(t, k - 1)]
<1>0. WIDTH \in Nat /\ HEIGHT \in Nat /\ HEIGHT > 1 BY TtyAssumption
<1>1. /\ t.row \in Row /\ t.length \in [Row -> 0..WIDTH] /\ t.cells \in [Cell -> Char]
  BY DEF View
<1>2. t.row \in Nat /\ t.row + 1 \in Nat /\ t.row < HEIGHT BY <1>0, <1>1 DEF Row
<1>3. ASSUME NEW y \in Row
      PROVE  Line(t, y) \in Seq(Char) /\ Len(Line(t, y)) = t.length[y]
  <2>1. t.length[y] \in Nat /\ t.length[y] <= WIDTH BY <1>0, <1>1
  <2>2. ASSUME NEW x \in 1..t.length[y] PROVE t.cells[At(x - 1, y)] \in Char
    <3>1. x - 1 \in 0..WIDTH /\ x - 1 < WIDTH BY <1>0, <2>1
    <3>2. At(x - 1, y) \in Cell BY <3>1, Address
    <3> QED BY <1>1, <3>2
  <2>3. Line(t, y) \in [1..t.length[y] -> Char] BY <2>2 DEF Line
  <2> QED BY <2>1, <2>3
<1>4. \A k \in 1..(t.row + 1) : Line(t, k - 1) \in Seq(Char)
  <2> TAKE k \in 1..(t.row + 1)
  <2>1. k - 1 \in Row BY <1>0, <1>2 DEF Row
  <2> QED BY <1>3, <2>1
<1>5. Lines(t) \in [1..(t.row + 1) -> Seq(Char)] BY <1>4 DEF Lines
<1>6. Lines(t) \in Seq(Seq(Char)) /\ Len(Lines(t)) = t.row + 1
  BY <1>2, <1>5
<1>7. Lines(t) # <<>> BY <1>2, <1>6
<1>8. Lines(t)[t.row + 1] = Line(t, t.row)
  <2>1. (t.row + 1) - 1 = t.row /\ t.row + 1 \in 1..(t.row + 1) BY <1>2
  <2> QED BY <2>1 DEF Lines
<1>9. Last(Lines(t)) = Line(t, t.row) BY <1>6, <1>8 DEF Last
<1>10. Front(Lines(t)) = [k \in 1..t.row |-> Line(t, k - 1)]
  <2>1. Front(Lines(t)) = [k \in 1..t.row |-> Lines(t)[k]]
    <3>1. Len(Lines(t)) - 1 = t.row BY <1>2, <1>6
    <3>2. Front(Lines(t)) = SubSeq(Lines(t), 1, t.row) BY <3>1 DEF Front
    <3>3. SubSeq(Lines(t), 1, t.row) \in Seq(Seq(Char))
          /\ Len(SubSeq(Lines(t), 1, t.row)) = t.row
          /\ \A k \in 1..t.row : SubSeq(Lines(t), 1, t.row)[k] = Lines(t)[k]
      <4>1. \A k \in 1..t.row : Lines(t)[k] \in Seq(Char)
        BY <1>2, <1>5
      <4> HIDE DEF Lines
      <4> QED BY <1>2, <1>6, <4>1
    <3> QED BY <1>2, <3>2, <3>3
  <2>2. \A k \in 1..t.row : Lines(t)[k] = Line(t, k - 1) BY <1>2 DEF Lines
  <2> QED BY <2>1, <2>2
<1> QED BY <1>3, <1>6, <1>7, <1>9, <1>10

\* Where nothing is written the page has one empty line.
LEMMA EmptyPage ==
  ASSUME NEW t \in View, t.row = 0, t.length[0] = 0
  PROVE  Lines(t) = << <<>> >>
<1>1. 0 \in Row BY TtyAssumption DEF Row
<1>2. Len(Lines(t)) = t.row + 1 BY PageOf
<1>3. Lines(t) \in Seq(Seq(Char)) BY PageOf
<1>4. Len(Line(t, 0)) = 0 /\ Line(t, 0) \in Seq(Char) BY <1>1, PageOf
<1>5. Line(t, 0) = <<>> BY <1>4
<1>6. Last(Lines(t)) = Line(t, 0) BY PageOf
<1>7. Len(Lines(t)) = 1 BY <1>2
<1>8. Lines(t)[1] = <<>> BY <1>5, <1>6, <1>7 DEF Last
<1> HIDE DEF Lines
<1>9. << <<>> >> \in Seq(Seq(Char)) OBVIOUS
<1> QED BY <1>3, <1>7, <1>8, <1>9

\* A new row adds an empty line, and the first line goes when the screen is full.
LEMMA PageOfNextRow ==
  ASSUME NEW t \in View, BelowEmpty(t)
  PROVE  Lines(NextRow(t)) = Page!Clip(Append(Lines(t), <<>>))
<1> DEFINE u == NextRow(t)
           L == Append(Lines(t), <<>>)
<1>0. WIDTH \in Nat /\ WIDTH > 1 /\ HEIGHT \in Nat /\ HEIGHT > 1 BY TtyAssumption
<1>1. /\ u \in View
      /\ t.row + 1 # HEIGHT =>
           u.row = t.row + 1 /\ u.length = t.length /\ u.cells = t.cells
      /\ t.row + 1 = HEIGHT =>
           u.row = t.row /\ u.length = Rotated(t.length) /\ u.cells = MovedUp(t.cells)
  BY ViewNextRow
<1>2. /\ t.row \in Row /\ t.length \in [Row -> 0..WIDTH] /\ t.cells \in [Cell -> Char]
  BY DEF View
<1>3. t.row \in Nat /\ t.row < HEIGHT BY <1>0, <1>2 DEF Row
<1>4. Lines(t) \in Seq(Seq(Char)) /\ Len(Lines(t)) = t.row + 1 BY PageOf
<1>5. /\ L \in Seq(Seq(Char)) /\ Len(L) = t.row + 2
      /\ \A k \in 1..(t.row + 1) : L[k] = Line(t, k - 1)
      /\ L[t.row + 2] = <<>>
  <2>1. <<>> \in Seq(Char) OBVIOUS
  <2>2. \A k \in 1..(t.row + 1) : Lines(t)[k] = Line(t, k - 1) BY DEF Lines
  <2>3. (t.row + 1) + 1 = t.row + 2 BY <1>3
  <2> QED BY <1>3, <1>4, <2>1, <2>2, <2>3, AppendProperties
<1> HIDE DEF u, L
<1>6. CASE t.row + 1 # HEIGHT
  <2>0. ~(Len(L) > HEIGHT)
    <3>1. t.row + 1 < HEIGHT BY <1>0, <1>3, <1>6
    <3> QED BY <1>0, <1>3, <1>5, <3>1
  <2>1. Page!Clip(L) = L BY <2>0 DEF Page!Clip
  <2>2. u.row + 1 = t.row + 2 BY <1>1, <1>3, <1>6
  <2>3. Lines(u) = [k \in 1..(t.row + 2) |-> Line(u, k - 1)] BY <2>2 DEF Lines
  <2>4. ASSUME NEW k \in 1..(t.row + 2) PROVE Line(u, k - 1) = L[k]
    <3>1. Line(u, k - 1) = Line(t, k - 1) BY <1>1, <1>6 DEF Line
    <3>2. CASE k \in 1..(t.row + 1) BY <1>5, <3>1, <3>2
    <3>3. CASE k = t.row + 2
      <4>1. k - 1 = t.row + 1 /\ t.row + 1 \in Row /\ t.row + 1 > t.row
        BY <1>0, <1>3, <1>6, <3>3 DEF Row
      <4>2. t.length[k - 1] = 0 BY <4>1 DEF BelowEmpty
      <4>3. Line(t, k - 1) = [x \in 1..0 |-> t.cells[At(x - 1, k - 1)]]
        BY <4>2 DEF Line
      <4> QED BY <1>5, <3>1, <3>3, <4>3
    <3> QED BY <1>3, <3>2, <3>3
  <2>5. L = [k \in 1..(t.row + 2) |-> L[k]] BY <1>3, <1>5
  <2> QED BY <2>1, <2>3, <2>4, <2>5 DEF u, L
<1>7. CASE t.row + 1 = HEIGHT
  <2>1. Len(L) > HEIGHT /\ L # <<>> BY <1>0, <1>3, <1>5, <1>7
  <2>2. Page!Clip(L) = Tail(L) BY <2>1 DEF Page!Clip
  <2>3. Tail(L) \in Seq(Seq(Char)) /\ Len(Tail(L)) = t.row + 1
        /\ \A k \in 1..(t.row + 1) : Tail(L)[k] = L[k + 1]
    BY <1>3, <1>5, <2>1
  <2>4. Lines(u) = [k \in 1..(t.row + 1) |-> Line(u, k - 1)]
    BY <1>1, <1>7 DEF Lines
  <2>5. ASSUME NEW k \in 1..(t.row + 1) PROVE Line(u, k - 1) = L[k + 1]
    <3>0. k - 1 \in Row /\ (k - 1) + 1 = k /\ k \in Nat BY <1>0, <1>3, <1>7 DEF Row
    <3>1. u.length[k - 1] = IF k \in Row THEN t.length[k] ELSE 0
      BY <1>1, <1>7, <3>0 DEF Rotated
    <3>2. CASE k \in 1..t.row
      <4>1. k \in Row /\ k + 1 \in 1..(t.row + 1) /\ (k + 1) - 1 = k
        BY <1>0, <1>3, <3>2 DEF Row
      <4>2. L[k + 1] = Line(t, k) BY <1>5, <4>1
      <4>3. u.length[k - 1] = t.length[k] BY <3>1, <4>1
      <4>4. ASSUME NEW x \in 1..t.length[k]
            PROVE  u.cells[At(x - 1, k - 1)] = t.cells[At(x - 1, k)]
        <5>1. x - 1 \in 0..WIDTH /\ x - 1 < WIDTH BY <1>0, <1>2, <4>1
        <5>2. /\ At(x - 1, k - 1) \in Cell /\ At(x - 1, k) = At(x - 1, k - 1) + WIDTH
              /\ At(x - 1, k - 1) + WIDTH \in Cell
          BY <3>0, <4>1, <5>1, Address
        <5> QED BY <1>1, <1>7, <5>2 DEF MovedUp
      <4>5. Line(u, k - 1) = [x \in 1..t.length[k] |-> u.cells[At(x - 1, k - 1)]]
        BY <4>3 DEF Line
      <4> QED BY <4>2, <4>4, <4>5 DEF Line
    <3>3. CASE k = t.row + 1
      <4>1. k \notin Row /\ k + 1 = t.row + 2 BY <1>0, <1>3, <1>7, <3>3 DEF Row
      <4>2. u.length[k - 1] = 0 BY <3>1, <4>1
      <4>3. Line(u, k - 1) = [x \in 1..0 |-> u.cells[At(x - 1, k - 1)]]
        BY <4>2 DEF Line
      <4> QED BY <1>5, <4>1, <4>3
    <3> QED BY <1>3, <3>2, <3>3
  <2>6. Tail(L) = [k \in 1..(t.row + 1) |-> Tail(L)[k]]
    <3> DEFINE T == Tail(L)
    <3>1. T \in Seq(Seq(Char)) /\ Len(T) = t.row + 1 BY <2>3
    <3> HIDE DEF T
    <3>2. T = [k \in 1..(t.row + 1) |-> T[k]] BY <1>3, <3>1
    <3> QED BY <3>2 DEF T
  <2>7. Tail(L) = [k \in 1..(t.row + 1) |-> L[k + 1]] BY <2>3, <2>6
  <2> QED BY <2>2, <2>4, <2>5, <2>7 DEF u, L
<1> QED BY <1>6, <1>7

\* A character past the end of the last line ends it.
LEMMA PageOfChar ==
  ASSUME NEW t \in View, NEW u \in View, NEW c \in Char,
         NEW n \in 0..(WIDTH - 1), t.length[t.row] = n, u.row = t.row,
         u.cells = [t.cells EXCEPT ![At(n, t.row)] = c],
         u.length = [t.length EXCEPT ![t.row] = n + 1]
  PROVE  Lines(u) = Append(Front(Lines(t)), Append(Last(Lines(t)), c))
<1>0. WIDTH \in Nat /\ WIDTH > 1 /\ HEIGHT \in Nat /\ HEIGHT > 1 BY TtyAssumption
<1>1. /\ t.row \in Row /\ t.length \in [Row -> 0..WIDTH] /\ t.cells \in [Cell -> Char]
  BY DEF View
<1>2. t.row \in Nat /\ t.row < HEIGHT /\ n \in Nat BY <1>0, <1>1 DEF Row
<1>3. At(n, t.row) \in Cell BY <1>0, <1>1, Address
<1>4. ASSUME NEW y \in Row, y # t.row PROVE Line(u, y) = Line(t, y)
  <2>1. u.length[y] = t.length[y] BY <1>1, <1>4
  <2>2. ASSUME NEW x \in 1..t.length[y]
        PROVE  u.cells[At(x - 1, y)] = t.cells[At(x - 1, y)]
    <3>1. x - 1 \in 0..(WIDTH - 1) BY <1>0, <1>1
    <3>2. At(x - 1, y) # At(n, t.row) BY <1>1, <1>3, <1>4, <3>1, Distinct
    <3> QED BY <1>1, <1>3, <3>2
  <2> QED BY <2>1, <2>2 DEF Line
<1>5. Line(u, t.row) = Append(Line(t, t.row), c)
  <2>1. t.length[t.row] = n /\ u.length[t.row] = n + 1 BY <1>1
  <2>2. Line(t, t.row) \in Seq(Char) /\ Len(Line(t, t.row)) = n
        /\ Line(u, t.row) \in Seq(Char) /\ Len(Line(u, t.row)) = n + 1
    BY <1>1, <2>1, PageOf
  <2>3. ASSUME NEW x \in 1..n PROVE Line(u, t.row)[x] = Line(t, t.row)[x]
    <3>1. x - 1 \in 0..(WIDTH - 1) /\ x - 1 # n BY <1>0, <1>2, <1>3
    <3>2. At(x - 1, t.row) # At(n, t.row) BY <1>1, <1>3, <3>1, Distinct
    <3>3. u.cells[At(x - 1, t.row)] = t.cells[At(x - 1, t.row)] BY <1>1, <1>3, <3>2
    <3>4. x \in 1..(n + 1) BY <1>2
    <3> QED BY <2>1, <3>3, <3>4 DEF Line
  <2>4. Line(u, t.row)[n + 1] = c
    <3>1. (n + 1) - 1 = n /\ n + 1 \in 1..(n + 1) BY <1>2
    <3> QED BY <1>1, <1>3, <2>1, <3>1 DEF Line
  <2> DEFINE M == Append(Line(t, t.row), c)
  <2>5. M \in Seq(Char) /\ Len(M) = n + 1 /\ M[n + 1] = c
        /\ \A x \in 1..n : M[x] = Line(t, t.row)[x]
    BY <1>2, <2>2, AppendProperties
  <2> HIDE DEF M
  <2>6. ASSUME NEW x \in 1..(n + 1) PROVE Line(u, t.row)[x] = M[x]
    <3>1. CASE x = n + 1 BY <2>4, <2>5, <3>1
    <3>2. CASE x # n + 1
      <4>1. x \in 1..n BY <1>2, <3>2
      <4> QED BY <2>3, <2>5, <4>1
    <3> QED BY <3>1, <3>2
  <2>7. Line(u, t.row) = M BY <1>2, <2>2, <2>5, <2>6, SeqEqual
  <2> QED BY <2>7 DEF M
<1> DEFINE F == [k \in 1..t.row |-> Line(t, k - 1)]
           e == Line(u, t.row)
<1>6. F \in Seq(Seq(Char)) /\ Len(F) = t.row /\ e \in Seq(Char)
  <2>1. \A k \in 1..t.row : k - 1 \in Row BY <1>0, <1>2 DEF Row
  <2>2. \A k \in 1..t.row : Line(t, k - 1) \in Seq(Char) BY <2>1, PageOf
  <2>3. e \in Seq(Char) BY <1>1, PageOf
  <2>4. t.row \in Nat /\ F \in [1..t.row -> Seq(Char)] BY <1>2, <2>2
  <2> HIDE DEF F, e
  <2>5. F \in Seq(Seq(Char)) /\ Len(F) = t.row BY <2>4
  <2> QED BY <2>3, <2>5
<1>7. Front(Lines(t)) = F /\ Last(Lines(t)) = Line(t, t.row) BY PageOf
<1>8. ASSUME NEW k \in 1..(t.row + 1) PROVE Lines(u)[k] = Append(F, e)[k]
  <2>1. Lines(u)[k] = Line(u, k - 1) BY DEF Lines
  <2>2. CASE k = t.row + 1
    <3>1. k - 1 = t.row /\ k = Len(F) + 1 BY <1>2, <1>6, <2>2
    <3> HIDE DEF F, e
    <3>2. Append(F, e)[k] = e BY <1>6, <3>1, AppendProperties
    <3> QED BY <2>1, <3>1, <3>2 DEF e
  <2>3. CASE k \in 1..t.row
    <3>1. k - 1 \in Row /\ k - 1 # t.row BY <1>0, <1>2, <2>3 DEF Row
    <3>2. Line(u, k - 1) = F[k] BY <1>4, <2>3, <3>1
    <3> HIDE DEF F, e
    <3>3. Append(F, e)[k] = F[k] BY <1>6, <2>3, AppendProperties
    <3> QED BY <2>1, <3>2, <3>3
  <2> QED BY <1>2, <2>2, <2>3
<1>9. Lines(u) = Append(F, e)
  <2>1. Lines(u) \in Seq(Seq(Char)) /\ Len(Lines(u)) = t.row + 1 BY PageOf
  <2> HIDE DEF F, e
  <2>2. Append(F, e) \in Seq(Seq(Char)) /\ Len(Append(F, e)) = t.row + 1
    <3> DEFINE S == Seq(Char)
    <3>1. F \in Seq(S) /\ Len(F) = t.row /\ e \in S BY <1>6
    <3> HIDE DEF S
    <3>2. Append(F, e) \in Seq(S) /\ Len(Append(F, e)) = t.row + 1
      BY <3>1, AppendProperties
    <3> QED BY <3>2 DEF S
  <2> QED BY <1>8, <2>1, <2>2, SeqEqual
<1> QED BY <1>5, <1>7, <1>9

\* Without its last line, when that is empty.
LEMMA PageOfAbove ==
  ASSUME NEW t \in View, t.length[t.row] = 0, t.row > 0,
         NEW u \in View, u.row = t.row - 1, u.length = t.length, u.cells = t.cells
  PROVE  /\ Last(Lines(t)) = <<>> /\ Len(Lines(t)) > 1
         /\ Lines(u) = Front(Lines(t))
<1>1. t.row \in Nat BY TtyAssumption DEF View, Row
<1>2. Last(Lines(t)) = <<>>
  <2>1. Last(Lines(t)) = Line(t, t.row) BY PageOf
  <2>2. Line(t, t.row) = [x \in 1..0 |-> t.cells[At(x - 1, t.row)]]
    BY DEF Line
  <2> QED BY <2>1, <2>2
<1>3. Len(Lines(t)) > 1 BY <1>1, PageOf
<1>4. Lines(u) = Front(Lines(t))
  <2>1. Front(Lines(t)) = [k \in 1..t.row |-> Line(t, k - 1)] BY PageOf
  <2>2. u.row + 1 = t.row BY <1>1
  <2>3. Lines(u) = [k \in 1..t.row |-> Line(u, k - 1)] BY <2>2 DEF Lines
  <2>4. \A k \in 1..t.row : Line(u, k - 1) = Line(t, k - 1) BY DEF Line
  <2> QED BY <2>1, <2>3, <2>4
<1> QED BY <1>2, <1>3, <1>4

\* Without the last character of its last line.
LEMMA PageOfErased ==
  ASSUME NEW t \in View, NEW u \in View, NEW n \in 0..(WIDTH - 1),
         t.length[t.row] = n + 1, u.row = t.row,
         u.cells = [t.cells EXCEPT ![At(n, t.row)] = Blank],
         u.length = [t.length EXCEPT ![t.row] = n]
  PROVE  /\ Last(Lines(t)) # <<>>
         /\ Lines(u) = Append(Front(Lines(t)), Front(Last(Lines(t))))
<1>0. WIDTH \in Nat /\ WIDTH > 1 /\ HEIGHT \in Nat /\ HEIGHT > 1 BY TtyAssumption
<1>1. /\ t.row \in Row /\ t.length \in [Row -> 0..WIDTH] /\ t.cells \in [Cell -> Char]
  BY DEF View
<1>2. n \in Nat /\ n < WIDTH /\ t.row \in Nat BY <1>0, <1>1 DEF Row
<1>4. At(n, t.row) \in Cell BY <1>0, <1>1, Address
<1> DEFINE F == [k \in 1..t.row |-> Line(t, k - 1)]
           e == Line(u, t.row)
           l == Line(t, t.row)
<1>15. /\ Front(Lines(t)) = F /\ Last(Lines(t)) = l
       /\ l \in Seq(Char) /\ Len(l) = n + 1
       /\ e \in Seq(Char) /\ Len(e) = n
       /\ Lines(u) \in Seq(Seq(Char)) /\ Len(Lines(u)) = t.row + 1
       /\ \A y \in Row : Line(t, y) \in Seq(Char)
  <2>1. u.length[t.row] = n BY <1>1
  <2> QED BY <1>1, <2>1, PageOf
<1>16. l # <<>> BY <1>2, <1>15
<1>17. e = Front(l)
  <2>1. Front(l) = SubSeq(l, 1, n) BY <1>2, <1>15 DEF Front
  <2>2. ASSUME NEW x \in 1..n PROVE e[x] = l[x]
    <3>1. x - 1 \in 0..(WIDTH - 1) /\ x - 1 # n /\ x \in 1..(n + 1) BY <1>0, <1>2
    <3>2. At(x - 1, t.row) # At(n, t.row) BY <1>1, <1>2, <3>1, Distinct
    <3>3. u.cells[At(x - 1, t.row)] = t.cells[At(x - 1, t.row)]
      BY <1>1, <1>4, <3>2
    <3>4. u.length[t.row] = n BY <1>1, <1>4
    <3> QED BY <3>1, <3>3, <3>4 DEF Line
  <2> DEFINE M == SubSeq(l, 1, n)
  <2> HIDE DEF e, l
  <2>3. \A x \in 1..n : l[x] \in Char BY <1>2, <1>15
  <2>4. M \in Seq(Char) /\ Len(M) = n /\ \A x \in 1..n : M[x] = l[x]
    BY <1>2, <1>15, <2>3
  <2> HIDE DEF M
  <2>5. e \in Seq(Char) /\ M \in Seq(Char) /\ Len(e) = Len(M)
        /\ \A x \in 1..Len(e) : e[x] = M[x]
    BY <1>15, <2>2, <2>4
  <2>6. e = M BY <2>5, SeqEqual
  <2> QED BY <2>1, <2>6 DEF M
<1>18. ASSUME NEW y \in Row, y # t.row PROVE Line(u, y) = Line(t, y)
  <2>1. u.length[y] = t.length[y] BY <1>1, <1>18
  <2>2. ASSUME NEW x \in 1..t.length[y]
        PROVE  u.cells[At(x - 1, y)] = t.cells[At(x - 1, y)]
    <3>1. x - 1 \in 0..(WIDTH - 1) BY <1>0, <1>1
    <3>2. At(x - 1, y) # At(n, t.row) BY <1>1, <1>2, <1>18, <3>1, Distinct
    <3> QED BY <1>1, <1>4, <3>2
  <2> QED BY <2>1, <2>2 DEF Line
<1>19. \A k \in 1..t.row : k - 1 \in Row /\ k - 1 # t.row BY <1>0, <1>1, <1>2 DEF Row
<1>20. F \in Seq(Seq(Char)) /\ Len(F) = t.row
  <2>1. \A k \in 1..t.row : Line(t, k - 1) \in Seq(Char) BY <1>15, <1>19
  <2>2. t.row \in Nat /\ F \in [1..t.row -> Seq(Char)] BY <1>2, <2>1
  <2> HIDE DEF F
  <2> QED BY <2>2
<1>21. ASSUME NEW k \in 1..(t.row + 1) PROVE Lines(u)[k] = Append(F, e)[k]
  <2>1. Lines(u)[k] = Line(u, k - 1) BY DEF Lines
  <2>2. CASE k = t.row + 1
    <3>1. k - 1 = t.row /\ k = Len(F) + 1 BY <1>2, <1>20, <2>2
    <3> HIDE DEF F, e
    <3>2. Append(F, e)[k] = e BY <1>15, <1>20, <3>1, AppendProperties
    <3> QED BY <2>1, <3>1, <3>2 DEF e
  <2>3. CASE k \in 1..t.row
    <3>1. Line(u, k - 1) = F[k] BY <1>18, <1>19, <2>3
    <3> HIDE DEF F, e
    <3>2. Append(F, e)[k] = F[k] BY <1>15, <1>20, <2>3, AppendProperties
    <3> QED BY <2>1, <3>1, <3>2
  <2> QED BY <1>2, <2>2, <2>3
<1>22. Lines(u) = Append(F, e)
  <2> HIDE DEF F, e
  <2>1. Append(F, e) \in Seq(Seq(Char)) /\ Len(Append(F, e)) = t.row + 1
    BY <1>15, <1>20, AppendProperties
  <2> QED BY <1>15, <1>21, <2>1, SeqEqual
<1> QED BY <1>15, <1>16, <1>17, <1>22


------------------------------------------------------------------------------
(***************************************************************************)
(* The page of a terminal.                                                 *)

Clipped(n) == IF n < WIDTH THEN n ELSE WIDTH

\* The rows as they lie on the screen, the last one up to the column, and up
\* to its length.
Seen(t) ==
  [row |-> t.row, cells |-> t.cells,
   length |-> [y \in Row |-> Clipped(IF y = t.row THEN t.column ELSE t.length[y])]]
SeenRows(t) ==
  [row |-> t.row, cells |-> t.cells,
   length |-> [y \in Row |-> Clipped(t.length[y])]]

LEMMA ClippedIn == \A n \in Nat : Clipped(n) \in 0..WIDTH
BY TtyAssumption DEF Clipped

LEMMA ByteNat == Byte \subseteq Nat
BY TtyAssumption DEF Byte

\* Both are views, and the same while the column fits its byte.
LEMMA SeenViews ==
  ASSUME NEW t \in Term
  PROVE  /\ Seen(t) \in View /\ SeenRows(t) \in View
         /\ Written(t) /\ t.column < LENGTHS => Seen(t) = SeenRows(t)
         /\ BelowEmpty(t) => BelowEmpty(SeenRows(t))
<1>1. t.row \in Row /\ t.column \in Nat /\ t.length \in [Row -> Byte]
      /\ t.cells \in [Cell -> Char]
  BY DEF Term
<1>2. \A y \in Row : t.length[y] \in Nat BY <1>1, ByteNat
<1>3. Seen(t) \in View BY <1>1, <1>2, ClippedIn DEF Seen, View
<1>4. SeenRows(t) \in View BY <1>1, <1>2, ClippedIn DEF SeenRows, View
<1>5. ASSUME Written(t), t.column < LENGTHS PROVE Seen(t) = SeenRows(t)
  <2>1. t.length[t.row] = t.column BY <1>1, <1>5, ByteOf DEF Written
  <2>2. \A y \in Row : (IF y = t.row THEN t.column ELSE t.length[y]) = t.length[y]
    BY <2>1
  <2> QED BY <2>2 DEF Seen, SeenRows
<1>6. ASSUME BelowEmpty(t) PROVE BelowEmpty(SeenRows(t))
  <2>1. Clipped(0) = 0 BY TtyAssumption DEF Clipped
  <2> QED BY <1>6, <2>1 DEF BelowEmpty, SeenRows
<1> QED BY <1>3, <1>4, <1>5, <1>6

------------------------------------------------------------------------------
(***************************************************************************)
(* What the functions of the terminal do to its position, lengths and      *)
(* buffer.                                                                 *)

\* ++terminal_row, with the scroll at the bottom, field by field.
LEMMA NextRowFields ==
  ASSUME NEW t \in Term
  PROVE  LET u == NextRow(t) IN
         /\ u \in Term /\ u.column = t.column
         /\ t.row + 1 # HEIGHT =>
              u.row = t.row + 1 /\ u.length = t.length /\ u.cells = t.cells
         /\ t.row + 1 = HEIGHT =>
              u.row = t.row /\ u.length = Rotated(t.length) /\ u.cells = MovedUp(t.cells)
<1> DEFINE u == NextRow(t)
<1>0. WIDTH \in Nat /\ HEIGHT \in Nat /\ HEIGHT > 1 BY TtyAssumption
<1>1. /\ t.row \in Row /\ t.column \in Nat
      /\ t.length \in [Row -> Byte] /\ t.cells \in [Cell -> Char]
  BY DEF Term
<1>2. CASE t.row + 1 # HEIGHT
  <2>1. u = [t EXCEPT !.row = @ + 1] BY <1>2 DEF NextRow
  <2>2. t.row + 1 \in Row BY <1>0, <1>1, <1>2 DEF Row
  <2>3. u \in Term BY <2>1, <2>2 DEF Term
  <2>4. u.row = t.row + 1 /\ u.length = t.length /\ u.cells = t.cells
        /\ u.column = t.column
    BY <2>1 DEF Term
  <2> QED BY <1>2, <2>3, <2>4
<1>3. CASE t.row + 1 = HEIGHT
  <2> DEFINE v == [t EXCEPT !.row = @ + 1]
  <2>1. v.row = t.row + 1 /\ v.length = t.length /\ v.cells = t.cells /\ v.column = t.column
    BY DEF Term
  <2>2. v \in [row : Int, column : Nat, length : [Row -> Byte], cells : [Cell -> Char]]
    BY <1>0, <1>1 DEF Term, Row
  <2>3. u = [v EXCEPT !.cells = MovedUp(@), !.length = Rotated(@), !.row = @ - 1]
    BY <1>3 DEF NextRow, Scrolled
  <2> HIDE DEF v
  <2>0. 0 \in Byte BY TtyAssumption DEF Byte
  <2>4. MovedUp(v.cells) \in [Cell -> Char] /\ Rotated(v.length) \in [Row -> Byte]
    BY <1>1, <2>0, <2>1, Moved DEF Rotated
  <2>5. (t.row + 1) - 1 = t.row BY <1>0, <1>1 DEF Row
  <2>6. v.row - 1 = t.row BY <2>1, <2>5
  <2>7. u.cells = MovedUp(v.cells) /\ u.length = Rotated(v.length) /\ u.row = v.row - 1
        /\ u.column = v.column
    BY <2>2, <2>3
  <2>8. u \in Term BY <1>1, <2>2, <2>3, <2>4, <2>6 DEF Term
  <2>9. u.cells = MovedUp(t.cells) /\ u.length = Rotated(t.length) /\ u.row = t.row
        /\ u.column = t.column
    BY <2>1, <2>6, <2>7
  <2> HIDE DEF u
  <2> QED BY <1>3, <2>8, <2>9 DEF u
<1> QED BY <1>2, <1>3

\* A new row is empty, what was blank stays so, and the page has a new line.
LEMMA NextRowKeeps ==
  ASSUME NEW t \in Term, t.column = 0, BelowEmpty(t)
  PROVE  /\ Good(NextRow(t)) /\ NextRow(t).column = 0
         /\ Clean(t) => Clean(NextRow(t))
         /\ Lines(Seen(NextRow(t))) = Page!Clip(Append(Lines(SeenRows(t)), <<>>))
<1> DEFINE u == NextRow(t)
           p == SeenRows(t)
           q == NextRow(p)
<1>0. WIDTH \in Nat /\ WIDTH > 1 /\ HEIGHT \in Nat /\ HEIGHT > 1 BY TtyAssumption
<1>1. /\ u \in Term /\ u.column = 0
      /\ t.row + 1 # HEIGHT =>
           u.row = t.row + 1 /\ u.length = t.length /\ u.cells = t.cells
      /\ t.row + 1 = HEIGHT =>
           u.row = t.row /\ u.length = Rotated(t.length) /\ u.cells = MovedUp(t.cells)
  BY NextRowFields
<1>2. /\ t.row \in Row /\ t.length \in [Row -> Byte] /\ t.cells \in [Cell -> Char]
  BY DEF Term
<1>3. p \in View /\ BelowEmpty(p) BY SeenViews
<1>4. p.row = t.row /\ p.cells = t.cells /\ p.length = [y \in Row |-> Clipped(t.length[y])]
  BY DEF SeenRows
<1> HIDE DEF u, p
<1>5. /\ q \in View
      /\ t.row + 1 # HEIGHT =>
           q.row = t.row + 1 /\ q.length = p.length /\ q.cells = t.cells
      /\ t.row + 1 = HEIGHT =>
           q.row = t.row /\ q.length = Rotated(p.length) /\ q.cells = MovedUp(t.cells)
  BY <1>3, <1>4, ViewNextRow
<1>6. Lines(q) = Page!Clip(Append(Lines(p), <<>>)) BY <1>3, PageOfNextRow
<1> HIDE DEF q
<1>7. 0 % LENGTHS = 0 /\ 0 < LENGTHS
  <2>1. 0 < LENGTHS BY TtyAssumption
  <2> QED BY <2>1, ByteOf
<1>8. Written(u) /\ BelowEmpty(u)
  <2>1. CASE t.row + 1 # HEIGHT
    <3>1. t.row + 1 \in Row /\ t.row + 1 > t.row BY <1>0, <1>2, <2>1 DEF Row
    <3>2. Written(u) BY <1>1, <1>7, <2>1, <3>1 DEF Written, BelowEmpty
    <3>3. BelowEmpty(u)
      <4> SUFFICES ASSUME NEW y \in Row, y > t.row + 1 PROVE t.length[y] = 0
        BY <1>1, <2>1 DEF BelowEmpty
      <4>1. y > t.row BY <1>0, <1>2 DEF Row
      <4> QED BY <4>1 DEF BelowEmpty
    <3> QED BY <3>2, <3>3
  <2>2. CASE t.row + 1 = HEIGHT
    <3>1. t.row = HEIGHT - 1 /\ t.row + 1 \notin Row BY <1>0, <1>2, <2>2 DEF Row
    <3>2. Written(u) BY <1>1, <1>2, <1>7, <2>2, <3>1 DEF Written, Rotated
    <3>3. \A y \in Row : ~(y > t.row) BY <1>0, <3>1 DEF Row
    <3> QED BY <1>1, <2>2, <3>2, <3>3 DEF BelowEmpty
  <2> QED BY <2>1, <2>2
<1>9. Good(u) BY <1>1, <1>8 DEF Good
<1>10. ASSUME Clean(t) PROVE Clean(u)
  <2>0. /\ \A y \in Row : t.length[y] \in Nat /\ t.length[y] <= WIDTH
        /\ \A y \in Row : \A x \in t.length[y]..(WIDTH - 1) : t.cells[At(x, y)] = Blank
    BY <1>2, <1>10, ByteNat DEF Clean, Fits, PastEndBlank
  <2>1. CASE t.row + 1 # HEIGHT
    BY <1>0, <1>1, <2>0, <2>1 DEF Clean, Fits, PastEndBlank
  <2>2. CASE t.row + 1 = HEIGHT
    <3>1. u.length = [y \in Row |-> IF y + 1 \in Row THEN t.length[y + 1] ELSE 0]
      BY <1>1, <2>2 DEF Rotated
    <3>2. \A y \in Row : u.length[y] \in Nat /\ u.length[y] <= WIDTH
      BY <1>0, <2>0, <3>1
    <3>3. PastEndBlank(u)
      <4> SUFFICES ASSUME NEW y \in Row, NEW x \in u.length[y]..(WIDTH - 1)
                   PROVE  u.cells[At(x, y)] = Blank
        BY DEF PastEndBlank
      <4>1. u.length[y] \in Nat BY <3>2
      <4>2. x \in 0..WIDTH /\ x < WIDTH BY <1>0, <4>1
      <4>3. At(x, y) \in Cell /\ At(x, y + 1) = At(x, y) + WIDTH BY <4>2, Address
      <4>4. u.cells[At(x, y)] = IF At(x, y) + WIDTH \in Cell
                                THEN t.cells[At(x, y) + WIDTH] ELSE Blank
        BY <1>1, <2>2, <4>3 DEF MovedUp
      <4>5. CASE y + 1 \in Row
        <5>1. x \in t.length[y + 1]..(WIDTH - 1) BY <3>1, <4>5
        <5>2. t.cells[At(x, y + 1)] = Blank BY <2>0, <4>5, <5>1
        <5> QED BY <4>3, <4>4, <5>2
      <4>6. CASE y + 1 \notin Row
        <5>1. At(x, y) + WIDTH \notin Cell BY <4>2, <4>6, Address
        <5> QED BY <4>4, <5>1
      <4> QED BY <4>5, <4>6
    <3> QED BY <1>0, <1>1, <3>2, <3>3 DEF Clean, Fits
  <2> QED BY <2>1, <2>2
<1>11. Seen(u) = q
  <2>1. Seen(u) = SeenRows(u) BY <1>1, <1>7, <1>8, SeenViews
  <2>2. CASE t.row + 1 # HEIGHT
    <3>1. SeenRows(u) = [row |-> q.row, cells |-> q.cells, length |-> q.length]
      BY <1>1, <1>4, <1>5, <2>2 DEF SeenRows
    <3> QED BY <1>5, <2>1, <3>1 DEF View
  <2>3. CASE t.row + 1 = HEIGHT
    <3>1. Clipped(0) = 0 BY <1>0 DEF Clipped
    <3>2. ASSUME NEW y \in Row PROVE Clipped(u.length[y]) = q.length[y]
      BY <1>1, <1>4, <1>5, <2>3, <3>1 DEF Rotated
    <3>3. q.length = [y \in Row |-> q.length[y]] BY <1>5 DEF View
    <3>4. SeenRows(u) = [row |-> q.row, cells |-> q.cells, length |-> q.length]
      BY <1>1, <1>5, <2>3, <3>2, <3>3 DEF SeenRows
    <3> QED BY <1>5, <2>1, <3>4 DEF View
  <2> QED BY <2>2, <2>3
<1> QED BY <1>1, <1>6, <1>9, <1>10, <1>11 DEF u, p

\* What lies past every row of the page may change.
LEMMA SpillLeaves ==
  ASSUME NEW t \in View, NEW u \in View, u.row = t.row, u.length = t.length,
         NEW n \in Nat, n >= WIDTH, NEW c,
         u.cells = Stored(t.cells, At(n, t.row), c)
  PROVE  Lines(u) = Lines(t)
<1>0. WIDTH \in Nat /\ HEIGHT \in Nat /\ HEIGHT > 1 BY TtyAssumption
<1>1. /\ t.row \in Row /\ t.length \in [Row -> 0..WIDTH] /\ t.cells \in [Cell -> Char]
  BY DEF View
<1>2. ASSUME NEW k \in 1..(t.row + 1) PROVE Line(u, k - 1) = Line(t, k - 1)
  <2>1. k - 1 \in Row /\ k - 1 <= t.row BY <1>0, <1>1 DEF Row
  <2>2. ASSUME NEW x \in 1..t.length[k - 1]
        PROVE  u.cells[At(x - 1, k - 1)] = t.cells[At(x - 1, k - 1)]
    <3>1. x - 1 \in 0..(WIDTH - 1) BY <1>0, <1>1, <2>1
    <3>2. At(x - 1, k - 1) # At(n, t.row) BY <1>1, <2>1, <3>1, Beyond
    <3> QED BY <1>1, <3>2 DEF Stored
  <2> QED BY <2>2 DEF Line
<1> QED BY <1>2 DEF Lines

\* A cell of the buffer, or nothing.
LEMMA StoredIn ==
  ASSUME NEW cells \in [Cell -> Char], NEW i, NEW c \in Char
  PROVE  /\ Stored(cells, i, c) \in [Cell -> Char]
         /\ i \in Cell => Stored(cells, i, c) = [cells EXCEPT ![i] = c]
BY DEF Stored

------------------------------------------------------------------------------
(***************************************************************************)
(* terminal_putchar.                                                       *)

\* A character and its length leave blanks past the end of every row.
LEMMA CharKeeps ==
  ASSUME NEW t, Good(t), Clean(t), NEW u \in Term, NEW c, t.column < WIDTH,
         u.cells = [t.cells EXCEPT ![At(t.column, t.row)] = c],
         u.length = [t.length EXCEPT ![t.row] = t.column + 1]
  PROVE  PastEndBlank(u) /\ \A y \in Row : u.length[y] <= WIDTH
<1>0. WIDTH \in Nat /\ WIDTH > 1 /\ WIDTH < LENGTHS BY TtyAssumption
<1>1. /\ t.row \in Row /\ t.column \in Nat /\ t.length \in [Row -> Byte]
      /\ t.cells \in [Cell -> Char]
  BY DEF Good, Term
<1>2. \A y \in Row : t.length[y] \in Nat /\ t.length[y] <= WIDTH
  BY <1>1, ByteNat DEF Clean, Fits
<1>3. t.length[t.row] = t.column
  <2>1. t.column < LENGTHS BY <1>0, <1>1, TtyAssumption
  <2> QED BY <1>1, <2>1, ByteOf DEF Good, Written
<1>4. \A y \in Row : u.length[y] = IF y = t.row THEN t.column + 1 ELSE t.length[y]
  BY <1>1
<1>5. PastEndBlank(u)
  <2> SUFFICES ASSUME NEW y \in Row, NEW x \in u.length[y]..(WIDTH - 1)
               PROVE  u.cells[At(x, y)] = Blank
    BY DEF PastEndBlank
  <2>1. x \in t.length[y]..(WIDTH - 1) /\ (y = t.row => x # t.column)
    BY <1>0, <1>1, <1>2, <1>3, <1>4
  <2>2. x \in 0..(WIDTH - 1) /\ t.column \in 0..(WIDTH - 1) BY <1>0, <1>1, <1>2, <2>1
  <2>3. t.cells[At(x, y)] = Blank BY <2>1 DEF Clean, PastEndBlank
  <2>4. At(x, y) # At(t.column, t.row) BY <1>1, <2>1, <2>2, Distinct
  <2>5. At(x, y) \in Cell BY <1>0, <2>2, Address
  <2> QED BY <1>1, <2>3, <2>4, <2>5
<1> QED BY <1>0, <1>1, <1>2, <1>4, <1>5

\* What terminal_putchar makes of a page: a newline starts a line, a character
\* ends the last line, and a line that is full is followed by a new one.
Printed(page, c) ==
  IF c = Newline THEN Page!Clip(Append(page, <<>>))
  ELSE LET line == Append(Last(page), c)
       IN IF Len(line) = WIDTH THEN Page!Clip(Front(page) \o <<line, <<>>>>)
                               ELSE Append(Front(page), line)

\* A newline.
LEMMA PutNewline ==
  ASSUME NEW t, Good(t)
  PROVE  /\ Good(Put(t, Newline)) /\ (Clean(t) => Clean(Put(t, Newline)))
         /\ t.column < LENGTHS =>
              Lines(Seen(Put(t, Newline))) = Printed(Lines(Seen(t)), Newline)
<1> DEFINE u == [t EXCEPT !.column = 0]
<1>1. t \in Term BY DEF Good
<1>2. u.row = t.row /\ u.column = 0 /\ u.length = t.length /\ u.cells = t.cells
  BY <1>1 DEF Term
<1>3. u \in Term BY <1>1 DEF Term
<1>4. Put(t, Newline) = NextRow(u) BY DEF Put
<1> HIDE DEF u
<1>5. BelowEmpty(u) BY <1>2 DEF Good, BelowEmpty
<1>6. Clean(t) => Clean(u)
  <2>1. 0 <= WIDTH BY TtyAssumption
  <2> QED BY <1>2, <2>1 DEF Clean, Fits, PastEndBlank
<1>7. /\ Good(NextRow(u)) /\ (Clean(u) => Clean(NextRow(u)))
      /\ Lines(Seen(NextRow(u))) = Page!Clip(Append(Lines(SeenRows(u)), <<>>))
  BY <1>2, <1>3, <1>5, NextRowKeeps
<1>8. SeenRows(u) = SeenRows(t) BY <1>2 DEF SeenRows
<1>9. t.column < LENGTHS => SeenRows(t) = Seen(t) BY <1>1, SeenViews DEF Good
<1> QED BY <1>4, <1>6, <1>7, <1>8, <1>9 DEF Printed

\* A character that does not end its row: there is room after it, or the row
\* had ended before.
LEMMA PutInRow ==
  ASSUME NEW t, Good(t), NEW c \in Glyphs, t.column + 1 # WIDTH
  PROVE  /\ Good(Put(t, c))
         /\ t.column < WIDTH /\ Clean(t) => Clean(Put(t, c))
         /\ t.column < WIDTH =>
              Lines(Seen(Put(t, c))) = Printed(Lines(Seen(t)), c)
         /\ t.column >= WIDTH => Lines(Seen(Put(t, c))) = Lines(Seen(t))
<1> DEFINE cells == Stored(t.cells, Position(t), c)
           v == [t EXCEPT !.cells = Stored(@, Position(t), c)]
           w == [v EXCEPT !.column = @ + 1]
           u == Put(t, c)
           m == t.column + 1
<1>0. WIDTH \in Nat /\ WIDTH > 1 /\ HEIGHT \in Nat /\ HEIGHT > 1 /\ WIDTH < LENGTHS
      /\ LENGTHS \in Nat
  BY TtyAssumption
<1>1. /\ t \in Term /\ t.row \in Row /\ t.column \in Nat
      /\ t.length \in [Row -> Byte] /\ t.cells \in [Cell -> Char]
  BY DEF Good, Term
<1>2. c # Newline /\ c \in Char BY TtyAssumption DEF Char
<1>3. cells \in [Cell -> Char] BY <1>1, <1>2, StoredIn
<1>4. v = [t EXCEPT !.cells = cells] OBVIOUS
<1>5. Position(t) = At(t.column, t.row) BY DEF Position
<1> HIDE DEF cells, v
<1>6. /\ v \in Term /\ v.row = t.row /\ v.column = t.column /\ v.length = t.length
      /\ v.cells = cells
  BY <1>1, <1>3, <1>4 DEF Term
<1>7. m \in Nat /\ m % LENGTHS \in Byte BY <1>1, ByteOf
<1>8. w = [v EXCEPT !.column = m] BY <1>6
<1>9. u = WithLength(w)
  <2>1. Advanced(v) = w BY <1>6 DEF Advanced
  <2> QED BY <1>2, <2>1 DEF Put, v
<1> HIDE DEF w, m
<1>10. /\ w \in Term /\ w.row = t.row /\ w.column = m /\ w.length = t.length
       /\ w.cells = cells
  BY <1>6, <1>7, <1>8 DEF Term
<1> DEFINE length == [t.length EXCEPT ![t.row] = m % LENGTHS]
<1>11. length \in [Row -> Byte] BY <1>1, <1>7
<1>12. u = [w EXCEPT !.length = length] BY <1>9, <1>10 DEF WithLength
<1> HIDE DEF u, length
<1>13. /\ u \in Term /\ u.row = t.row /\ u.column = m /\ u.length = length
       /\ u.cells = cells
  BY <1>10, <1>11, <1>12 DEF Term
<1>14. Good(u)
  <2>1. Written(u) BY <1>1, <1>13 DEF Written, length
  <2>2. BelowEmpty(u)
    <3> SUFFICES ASSUME NEW y \in Row, y > t.row PROVE length[y] = 0
      BY <1>13 DEF BelowEmpty
    <3>1. y # t.row BY <1>0, <1>1 DEF Row
    <3> QED BY <1>1, <3>1 DEF Good, BelowEmpty, length
  <2> QED BY <1>13, <2>1, <2>2 DEF Good
<1>15. Seen(u) \in View /\ Seen(t) \in View BY <1>1, <1>13, SeenViews
<1>16. /\ Seen(u).row = t.row /\ Seen(u).cells = cells
       /\ Seen(u).length = [Seen(t).length EXCEPT ![t.row] = Clipped(m)]
       /\ Seen(t).row = t.row /\ Seen(t).cells = t.cells
       /\ Seen(t).length[t.row] = Clipped(t.column)
  BY <1>1, <1>13 DEF Seen, length
<1>17. ASSUME t.column < WIDTH
       PROVE  /\ Clean(t) => Clean(u)
              /\ Lines(Seen(u)) = Printed(Lines(Seen(t)), c)
  <2>1. m < WIDTH /\ m < LENGTHS /\ t.column \in 0..(WIDTH - 1)
        /\ Clipped(m) = m /\ Clipped(t.column) = t.column /\ m % LENGTHS = m
    <3>1. m < WIDTH BY <1>0, <1>1, <1>17 DEF m
    <3>2. m < LENGTHS BY <1>0, <1>7, <3>1
    <3>3. m % LENGTHS = m BY <1>7, <3>2, ByteOf
    <3> QED BY <1>0, <1>1, <1>17, <3>1, <3>2, <3>3 DEF Clipped
  <2>2. At(t.column, t.row) \in Cell BY <1>0, <1>1, <2>1, Address
  <2>3. cells = [t.cells EXCEPT ![At(t.column, t.row)] = c]
    BY <1>1, <1>2, <1>5, <2>2, StoredIn DEF cells
  <2>4. Clean(t) => Clean(u)
    <3> SUFFICES ASSUME Clean(t) PROVE Clean(u) OBVIOUS
    <3>1. u.length = [t.length EXCEPT ![t.row] = t.column + 1]
      BY <1>13, <2>1 DEF length, m
    <3>2. PastEndBlank(u) /\ \A y \in Row : u.length[y] <= WIDTH
      BY <1>13, <1>17, <2>3, <3>1, CharKeeps
    <3>3. u.column <= WIDTH BY <1>0, <1>7, <1>13, <2>1
    <3> QED BY <3>2, <3>3 DEF Clean, Fits
  <2>5. Lines(Seen(u)) = Append(Front(Lines(Seen(t))), Append(Last(Lines(Seen(t))), c))
    <3>1. Seen(u).length = [Seen(t).length EXCEPT ![Seen(t).row] = t.column + 1]
      BY <1>16, <2>1 DEF m
    <3>2. Seen(u).cells = [Seen(t).cells EXCEPT ![At(t.column, Seen(t).row)] = c]
      BY <1>16, <2>3
    <3>3. Seen(t).length[Seen(t).row] = t.column /\ Seen(u).row = Seen(t).row
      BY <1>16, <2>1
    <3> QED BY <1>2, <1>15, <2>1, <3>1, <3>2, <3>3, PageOfChar
  <2>6. Len(Append(Last(Lines(Seen(t))), c)) = t.column + 1
    <3>1. /\ Last(Lines(Seen(t))) = Line(Seen(t), t.row)
          /\ Line(Seen(t), t.row) \in Seq(Char) /\ Len(Line(Seen(t), t.row)) = t.column
      BY <1>1, <1>15, <1>16, <2>1, PageOf
    <3> QED BY <1>2, <3>1, AppendProperties
  <2>7. Lines(Seen(u)) = Printed(Lines(Seen(t)), c) BY <1>2, <2>5, <2>6 DEF Printed
  <2> QED BY <2>4, <2>7
<1>18. ASSUME t.column >= WIDTH PROVE Lines(Seen(u)) = Lines(Seen(t))
  <2>1. Clipped(m) = WIDTH /\ Clipped(t.column) = WIDTH
    BY <1>0, <1>1, <1>18 DEF Clipped, m
  <2>2. Seen(u).length = Seen(t).length
    <3>1. Seen(t).length \in [Row -> 0..WIDTH] BY <1>15 DEF View
    <3> QED BY <1>1, <1>16, <2>1, <3>1
  <2>3. Seen(u).row = Seen(t).row
        /\ Seen(u).cells = Stored(Seen(t).cells, At(t.column, Seen(t).row), c)
    BY <1>5, <1>16 DEF cells
  <2> QED BY <1>1, <1>15, <1>18, <2>2, <2>3, SpillLeaves
<1> QED BY <1>14, <1>17, <1>18 DEF u

\* The last character of a row: the length counts it, and a new row follows.
LEMMA PutAtEnd ==
  ASSUME NEW t, Good(t), NEW c \in Glyphs, t.column + 1 = WIDTH
  PROVE  /\ Good(Put(t, c)) /\ (Clean(t) => Clean(Put(t, c)))
         /\ Lines(Seen(Put(t, c))) = Printed(Lines(Seen(t)), c)
<1> DEFINE cells == Stored(t.cells, Position(t), c)
           v == [t EXCEPT !.cells = Stored(@, Position(t), c)]
           w == [v EXCEPT !.length[v.row] = (@ + 1) % LENGTHS, !.column = 0]
           n == NextRow(w)
           u == Put(t, c)
           m == t.column + 1
<1>0. WIDTH \in Nat /\ WIDTH > 1 /\ HEIGHT \in Nat /\ HEIGHT > 1 /\ WIDTH < LENGTHS
      /\ LENGTHS \in Nat
  BY TtyAssumption
<1>1. /\ t \in Term /\ t.row \in Row /\ t.column \in Nat
      /\ t.length \in [Row -> Byte] /\ t.cells \in [Cell -> Char]
  BY DEF Good, Term
<1>2. c # Newline /\ c \in Char BY TtyAssumption DEF Char
<1>3. /\ t.column < WIDTH /\ t.column \in 0..(WIDTH - 1) /\ m \in Nat /\ m = WIDTH
      /\ t.column < LENGTHS /\ m < LENGTHS
  BY <1>0, <1>1
<1>4. t.length[t.row] = t.column /\ m % LENGTHS = m
  BY <1>1, <1>3, ByteOf DEF Good, Written
<1>5. Position(t) = At(t.column, t.row) /\ At(t.column, t.row) \in Cell
  BY <1>0, <1>1, <1>3, Address DEF Position
<1>6. cells \in [Cell -> Char] /\ cells = [t.cells EXCEPT ![At(t.column, t.row)] = c]
  BY <1>1, <1>2, <1>5, StoredIn
<1> DEFINE length == [t.length EXCEPT ![t.row] = m]
<1>7. length \in [Row -> Byte]
  <2>1. m \in Byte BY <1>3, <1>4, ByteOf
  <2> QED BY <1>1, <2>1
<1>8. v = [t EXCEPT !.cells = cells] OBVIOUS
<1> HIDE DEF cells, v
<1>9. /\ v \in Term /\ v.row = t.row /\ v.column = t.column /\ v.length = t.length
      /\ v.cells = cells
  BY <1>1, <1>6, <1>8 DEF Term
<1>10. w = [v EXCEPT !.length = length, !.column = 0]
  <2>1. [v.length EXCEPT ![v.row] = (@ + 1) % LENGTHS] = length
    BY <1>1, <1>4, <1>9
  <2> HIDE DEF length
  <2> QED BY <2>1
<1>11. u = WithLength(n)
  <2>1. Advanced(v) = n BY <1>9 DEF Advanced
  <2> QED BY <1>2, <2>1 DEF Put, v
<1> HIDE DEF w, length, u
<1>12. /\ w \in Term /\ w.row = t.row /\ w.column = 0 /\ w.length = length
       /\ w.cells = cells
  BY <1>7, <1>9, <1>10 DEF Term
<1>13. BelowEmpty(w)
  <2> SUFFICES ASSUME NEW y \in Row, y > t.row PROVE length[y] = 0
    BY <1>12 DEF BelowEmpty
  <2>1. y # t.row BY <1>0, <1>1 DEF Row
  <2> QED BY <1>1, <2>1 DEF Good, BelowEmpty, length
<1>14. Clean(t) => Clean(w)
  <2> SUFFICES ASSUME Clean(t) PROVE Clean(w) OBVIOUS
  <2>1. PastEndBlank(w) /\ \A y \in Row : w.length[y] <= WIDTH
    BY <1>3, <1>6, <1>12, CharKeeps DEF length
  <2> QED BY <1>0, <1>12, <2>1 DEF Clean, Fits
<1>15. /\ Good(n) /\ n.column = 0 /\ (Clean(w) => Clean(n))
       /\ Lines(Seen(n)) = Page!Clip(Append(Lines(SeenRows(w)), <<>>))
  BY <1>12, <1>13, NextRowKeeps
<1> HIDE DEF n
<1>16. u = n
  <2>1. n \in Term /\ n.length \in [Row -> Byte] /\ n.row \in Row
        /\ n.length[n.row] = n.column % LENGTHS
    BY <1>15 DEF Good, Term, Written
  <2>2. [n.length EXCEPT ![n.row] = n.column % LENGTHS] = n.length BY <2>1
  <2>3. u = [n EXCEPT !.length = n.length] BY <1>11, <2>2 DEF WithLength
  <2> QED BY <2>1, <2>3 DEF Term
<1>17. Seen(t) \in View /\ SeenRows(w) \in View BY <1>1, <1>12, SeenViews
<1>18. Seen(t) = SeenRows(t) BY <1>1, <1>3, SeenViews DEF Good
<1>19. /\ Seen(t).row = t.row /\ Seen(t).cells = t.cells
       /\ Seen(t).length[t.row] = t.column
       /\ SeenRows(w).row = t.row /\ SeenRows(w).cells = cells
       /\ SeenRows(w).length = [Seen(t).length EXCEPT ![t.row] = m]
  <2>1. Clipped(t.column) = t.column /\ Clipped(m) = m BY <1>0, <1>3 DEF Clipped
  <2>2. /\ Seen(t).row = t.row /\ Seen(t).cells = t.cells
        /\ Seen(t).length = [y \in Row |-> Clipped(t.length[y])]
    BY <1>18 DEF SeenRows
  <2>3. /\ SeenRows(w).row = t.row /\ SeenRows(w).cells = cells
        /\ SeenRows(w).length = [y \in Row |-> Clipped(length[y])]
    BY <1>12 DEF SeenRows
  <2>4. \A y \in Row : length[y] = IF y = t.row THEN m ELSE t.length[y]
    BY <1>1 DEF length
  <2> HIDE DEF m
  <2> QED BY <1>1, <1>4, <2>1, <2>2, <2>3, <2>4
<1>20. Lines(SeenRows(w))
         = Append(Front(Lines(Seen(t))), Append(Last(Lines(Seen(t))), c))
  <2>1. SeenRows(w).cells = [Seen(t).cells EXCEPT ![At(t.column, Seen(t).row)] = c]
    BY <1>6, <1>19
  <2>2. /\ SeenRows(w).row = Seen(t).row /\ Seen(t).length[Seen(t).row] = t.column
        /\ SeenRows(w).length = [Seen(t).length EXCEPT ![Seen(t).row] = t.column + 1]
    BY <1>19
  <2> QED BY <1>2, <1>3, <1>17, <2>1, <2>2, PageOfChar
<1> DEFINE line == Append(Last(Lines(Seen(t))), c)
           F == Front(Lines(Seen(t)))
<1>21. /\ Last(Lines(Seen(t))) \in Seq(Char) /\ Len(Last(Lines(Seen(t)))) = t.column
       /\ F = [k \in 1..t.row |-> Line(Seen(t), k - 1)]
       /\ \A y \in Row : Line(Seen(t), y) \in Seq(Char)
  <2> DEFINE s == Seen(t)
  <2>1. s \in View /\ s.row = t.row /\ s.length[t.row] = t.column /\ t.row \in Row
    BY <1>1, <1>17, <1>19
  <2> HIDE DEF s
  <2>2. /\ Last(Lines(s)) = Line(s, t.row)
        /\ \A y \in Row : Line(s, y) \in Seq(Char) /\ Len(Line(s, y)) = s.length[y]
        /\ Front(Lines(s)) = [k \in 1..t.row |-> Line(s, k - 1)]
    BY <2>1, PageOf
  <2>3. Last(Lines(s)) \in Seq(Char) /\ Len(Last(Lines(s))) = t.column BY <2>1, <2>2
  <2> QED BY <2>2, <2>3 DEF s
<1>22. line \in Seq(Char) /\ Len(line) = WIDTH
  BY <1>2, <1>3, <1>21, AppendProperties
<1>23. F \in Seq(Seq(Char))
  <2>1. t.row \in Nat /\ \A k \in 1..t.row : k - 1 \in Row BY <1>0, <1>1 DEF Row
  <2>2. \A k \in 1..t.row : Line(Seen(t), k - 1) \in Seq(Char) BY <1>21, <2>1
  <2> HIDE DEF F
  <2>3. F \in [1..t.row -> Seq(Char)] BY <1>21, <2>2
  <2> QED BY <2>1, <2>3
<1> HIDE DEF line, F
<1>24. Append(Append(F, line), <<>>) = F \o <<line, <<>>>>
  <2>1. <<>> \in Seq(Char) OBVIOUS
  <2> DEFINE S == Seq(Char)
             e == <<>>
  <2>2. F \in Seq(S) /\ line \in S /\ e \in S BY <1>22, <1>23, <2>1
  <2> HIDE DEF S, e
  <2>3. Append(Append(F, line), e) = F \o <<line, e>> BY <2>2
  <2> QED BY <2>3 DEF e
<1>25. Lines(Seen(n)) = Page!Clip(F \o <<line, <<>>>>)
  BY <1>15, <1>20, <1>24 DEF line, F
<1>26. Lines(Seen(n)) = Printed(Lines(Seen(t)), c)
  BY <1>2, <1>22, <1>25 DEF Printed, line, F
<1> QED BY <1>14, <1>15, <1>16, <1>26 DEF u

\* The character that is printed, on the page too.
LEMMA PutKeeps ==
  ASSUME NEW t, Good(t), NEW c \in Glyphs \cup {Newline}
  PROVE  /\ Good(Put(t, c))
         /\ Clean(t) /\ (c # Newline => t.column < WIDTH) => Clean(Put(t, c))
         /\ t.column < LENGTHS =>
              \/ Lines(Seen(Put(t, c))) = Lines(Seen(t))
              \/ /\ Lines(Seen(Put(t, c))) = Printed(Lines(Seen(t)), c)
                 /\ c # Newline => t.column < WIDTH
<1>0. WIDTH \in Nat /\ WIDTH > 1 BY TtyAssumption
<1>1. CASE c = Newline BY <1>1, PutNewline
<1>2. CASE c # Newline
  <2>1. c \in Glyphs /\ t.column \in Nat BY <1>2 DEF Good, Term
  <2>2. CASE t.column + 1 = WIDTH
    <3>1. t.column < WIDTH BY <1>0, <2>1, <2>2
    <3> QED BY <2>1, <2>2, <3>1, PutAtEnd
  <2>3. CASE t.column + 1 # WIDTH
    <3>1. t.column < WIDTH \/ t.column >= WIDTH BY <1>0, <2>1
    <3> QED BY <1>2, <2>1, <2>3, <3>1, PutInRow
  <2> QED BY <2>2, <2>3
<1> QED BY <1>1, <1>2

------------------------------------------------------------------------------
(***************************************************************************)
(* terminal_backspace.                                                     *)

Above(t) == [t EXCEPT !.row = @ - 1, !.column = t.length[t.row - 1]]
Erased(t) == WithLength([t EXCEPT !.column = @ - 1,
                          !.cells = Stored(@, Position(t) - 1, Blank)])

\* At the start of a row the empty last line goes, and the row above goes on.
LEMMA GoesAbove ==
  ASSUME NEW t, Good(t), t.column = 0, t.row > 0
  PROVE  /\ Good(Above(t)) /\ (Clean(t) => Clean(Above(t)))
         /\ Last(Lines(Seen(t))) = <<>> /\ Len(Lines(Seen(t))) > 1
         /\ Lines(Seen(Above(t))) = Front(Lines(Seen(t)))
<1> DEFINE u == Above(t)
<1>0. WIDTH \in Nat /\ HEIGHT \in Nat /\ HEIGHT > 1 /\ 0 < LENGTHS /\ LENGTHS \in Nat
  BY TtyAssumption
<1>1. /\ t \in Term /\ t.row \in Row /\ t.length \in [Row -> Byte]
  BY DEF Good, Term
<1>2. /\ t.row \in Nat /\ t.row - 1 \in Row /\ t.length[t.row - 1] \in Byte
      /\ t.length[t.row - 1] \in Nat /\ t.row - 1 # t.row
  <2>1. t.row \in Nat /\ t.row - 1 \in Row /\ t.row - 1 # t.row BY <1>0, <1>1 DEF Row
  <2>2. t.length[t.row - 1] \in Byte BY <1>1, <2>1
  <2> QED BY <2>1, <2>2, ByteNat
<1>3. /\ u \in Term /\ u.row = t.row - 1 /\ u.column = t.length[t.row - 1]
      /\ u.length = t.length /\ u.cells = t.cells
  BY <1>1, <1>2 DEF Above, Term
<1> HIDE DEF u
<1>4. t.length[t.row] = 0 BY <1>0, ByteOf DEF Good, Written
<1>5. Written(u)
  <2>1. t.length[t.row - 1] < LENGTHS BY <1>0, <1>2 DEF Byte
  <2>2. t.length[t.row - 1] % LENGTHS = t.length[t.row - 1] BY <1>2, <2>1, ByteOf
  <2> QED BY <1>3, <2>2 DEF Written
<1>6. BelowEmpty(u)
  <2> SUFFICES ASSUME NEW y \in Row, y > t.row - 1 PROVE t.length[y] = 0
    BY <1>3 DEF BelowEmpty
  <2>1. y = t.row \/ y > t.row BY <1>0, <1>2 DEF Row
  <2> QED BY <1>4, <2>1 DEF Good, BelowEmpty
<1>7. Good(u) BY <1>3, <1>5, <1>6 DEF Good
<1>8. Clean(t) => Clean(u) BY <1>2, <1>3 DEF Clean, Fits, PastEndBlank
<1>9. Seen(t) \in View /\ Seen(u) \in View BY <1>1, <1>3, SeenViews
<1>10. /\ Seen(t).row = t.row /\ Seen(u).row = t.row - 1
       /\ Seen(u).cells = Seen(t).cells
       /\ Seen(t).length[t.row] = 0
       /\ Seen(u).length = Seen(t).length
  <2>1. Clipped(0) = 0 BY <1>0 DEF Clipped
  <2>2. \A y \in Row : (IF y = u.row THEN u.column ELSE u.length[y])
                         = (IF y = t.row THEN t.column ELSE t.length[y])
    BY <1>3, <1>4
  <2> QED BY <1>1, <1>3, <2>1, <2>2 DEF Seen
<1>11. /\ Last(Lines(Seen(t))) = <<>> /\ Len(Lines(Seen(t))) > 1
       /\ Lines(Seen(u)) = Front(Lines(Seen(t)))
  BY <1>9, <1>10, PageOfAbove
<1> QED BY <1>7, <1>8, <1>11 DEF u

\* Inside a row its last character goes, and a blank takes its place.
LEMMA ErasesLast ==
  ASSUME NEW t, Good(t), t.column > 0
  PROVE  /\ Good(Erased(t)) /\ (Clean(t) => Clean(Erased(t)))
         /\ \/ Lines(Seen(Erased(t))) = Lines(Seen(t))
            \/ /\ Last(Lines(Seen(t))) # <<>>
               /\ Lines(Seen(Erased(t)))
                    = Append(Front(Lines(Seen(t))), Front(Last(Lines(Seen(t)))))
<1> DEFINE n == t.column - 1
           cells == Stored(t.cells, At(n, t.row), Blank)
           v == [t EXCEPT !.column = @ - 1, !.cells = Stored(@, Position(t) - 1, Blank)]
           u == Erased(t)
<1>0. WIDTH \in Nat /\ WIDTH > 1 /\ HEIGHT \in Nat /\ HEIGHT > 1 /\ WIDTH < LENGTHS
      /\ LENGTHS \in Nat
  BY TtyAssumption
<1>1. /\ t \in Term /\ t.row \in Row /\ t.column \in Nat
      /\ t.length \in [Row -> Byte] /\ t.cells \in [Cell -> Char]
  BY DEF Good, Term
<1>2. n \in Nat /\ n + 1 = t.column /\ t.row \in Nat /\ n % LENGTHS \in Byte
  <2>1. n \in Nat /\ n + 1 = t.column /\ t.row \in Nat BY <1>0, <1>1 DEF Row
  <2> HIDE DEF n
  <2> QED BY <2>1, ByteOf
<1>3. Position(t) - 1 = At(n, t.row)
  <2>1. t.row * WIDTH \in Int BY <1>0, <1>2
  <2> DEFINE a == t.row * WIDTH
  <2>2. a \in Int /\ Position(t) = a + t.column /\ At(n, t.row) = a + n
    BY <2>1 DEF Position, At
  <2> HIDE DEF a
  <2> QED BY <1>1, <2>2
<1>4. cells \in [Cell -> Char] BY <1>1, StoredIn DEF Char
<1> DEFINE length == [t.length EXCEPT ![t.row] = n % LENGTHS]
<1>5. length \in [Row -> Byte] BY <1>1, <1>2
<1>6. v = [t EXCEPT !.column = n, !.cells = cells] BY <1>3
<1> HIDE DEF n, cells
<1>7. /\ v \in Term /\ v.row = t.row /\ v.column = n /\ v.length = t.length
      /\ v.cells = cells
  BY <1>1, <1>2, <1>4, <1>6 DEF Term
<1>8. u = WithLength(v) BY DEF Erased
<1> HIDE DEF v, u
<1>9. u = [v EXCEPT !.length = length] BY <1>7, <1>8 DEF WithLength
<1> HIDE DEF length
<1>10. /\ u \in Term /\ u.row = t.row /\ u.column = n /\ u.length = length
       /\ u.cells = cells
  BY <1>5, <1>7, <1>9 DEF Term
<1>11. Good(u)
  <2>1. Written(u) BY <1>1, <1>10 DEF Written, length
  <2>2. BelowEmpty(u)
    <3> SUFFICES ASSUME NEW y \in Row, y > t.row PROVE length[y] = 0
      BY <1>10 DEF BelowEmpty
    <3>1. y # t.row BY <1>0, <1>2 DEF Row
    <3> QED BY <1>1, <3>1 DEF Good, BelowEmpty, length
  <2> QED BY <1>10, <2>1, <2>2 DEF Good
<1>12. ASSUME Clean(t) PROVE Clean(u)
  <2>1. t.column <= WIDTH /\ n < WIDTH /\ n < LENGTHS
        /\ \A y \in Row : t.length[y] \in Nat /\ t.length[y] <= WIDTH
    <3>1. t.column <= WIDTH /\ \A y \in Row : t.length[y] <= WIDTH
      BY <1>12 DEF Clean, Fits
    <3>2. \A y \in Row : t.length[y] \in Nat BY <1>1, ByteNat
    <3>3. n < WIDTH /\ n < LENGTHS BY <1>0, <1>1, <1>2, <3>1
    <3> QED BY <3>1, <3>2, <3>3
  <2>2. t.length[t.row] = t.column
    <3>1. t.column < LENGTHS BY <1>0, <1>1, <2>1
    <3> QED BY <1>1, <3>1, ByteOf DEF Good, Written
  <2>3. \A y \in Row : u.length[y] = IF y = t.row THEN n ELSE t.length[y]
    <3>1. n % LENGTHS = n BY <1>2, <2>1, ByteOf
    <3> QED BY <1>1, <1>10, <3>1 DEF length
  <2>4. At(n, t.row) \in Cell BY <1>0, <1>1, <1>2, <2>1, Address
  <2>5. u.cells = [t.cells EXCEPT ![At(n, t.row)] = Blank]
    BY <1>1, <1>10, <2>4, StoredIn DEF cells, Char
  <2>6. PastEndBlank(u)
    <3> SUFFICES ASSUME NEW y \in Row, NEW x \in u.length[y]..(WIDTH - 1)
                 PROVE  u.cells[At(x, y)] = Blank
      BY DEF PastEndBlank
    <3>1. x \in 0..WIDTH /\ x < WIDTH BY <1>0, <1>2, <2>1, <2>3
    <3>2. At(x, y) \in Cell BY <3>1, Address
    <3>3. CASE y = t.row /\ x = n BY <1>1, <2>4, <2>5, <3>3
    <3>4. CASE ~(y = t.row /\ x = n)
      <4>1. x \in t.length[y]..(WIDTH - 1) BY <1>0, <1>2, <2>1, <2>2, <2>3, <3>1, <3>4
      <4>2. t.cells[At(x, y)] = Blank BY <1>12, <4>1 DEF Clean, PastEndBlank
      <4> QED BY <1>1, <2>5, <3>2, <4>2
    <3> QED BY <3>3, <3>4
  <2>7. u.column <= WIDTH /\ \A y \in Row : u.length[y] <= WIDTH
    BY <1>0, <1>2, <1>10, <2>1, <2>3
  <2> QED BY <2>6, <2>7 DEF Clean, Fits
<1>13. Seen(t) \in View /\ Seen(u) \in View BY <1>1, <1>10, SeenViews
<1>14. /\ Seen(u).row = t.row /\ Seen(u).cells = cells
       /\ Seen(u).length = [Seen(t).length EXCEPT ![t.row] = Clipped(n)]
       /\ Seen(t).row = t.row /\ Seen(t).cells = t.cells
       /\ Seen(t).length[t.row] = Clipped(t.column)
  BY <1>1, <1>10 DEF Seen, length
<1>15. CASE n < WIDTH
  <2>1. Clipped(n) = n /\ Clipped(t.column) = n + 1 /\ n \in 0..(WIDTH - 1)
    BY <1>0, <1>1, <1>2, <1>15 DEF Clipped
  <2>2. At(n, t.row) \in Cell BY <1>0, <1>1, <1>2, <1>15, Address
  <2>3. Seen(u).cells = [Seen(t).cells EXCEPT ![At(n, Seen(t).row)] = Blank]
    BY <1>1, <1>14, <2>2, StoredIn DEF cells, Char
  <2>4. /\ Seen(u).row = Seen(t).row /\ Seen(t).length[Seen(t).row] = n + 1
        /\ Seen(u).length = [Seen(t).length EXCEPT ![Seen(t).row] = n]
    BY <1>14, <2>1
  <2>5. /\ Last(Lines(Seen(t))) # <<>>
        /\ Lines(Seen(u)) = Append(Front(Lines(Seen(t))), Front(Last(Lines(Seen(t)))))
    BY <1>13, <2>1, <2>3, <2>4, PageOfErased
  <2> QED BY <1>11, <1>12, <2>5 DEF u
<1>16. CASE n >= WIDTH
  <2>1. Clipped(n) = WIDTH /\ Clipped(t.column) = WIDTH
    BY <1>0, <1>1, <1>2, <1>16 DEF Clipped
  <2>2. Seen(u).length = Seen(t).length
    <3>1. Seen(t).length \in [Row -> 0..WIDTH] BY <1>13 DEF View
    <3> QED BY <1>1, <1>14, <2>1, <3>1
  <2>3. Seen(u).row = Seen(t).row
        /\ Seen(u).cells = Stored(Seen(t).cells, At(n, Seen(t).row), Blank)
    BY <1>14 DEF cells
  <2>4. Lines(Seen(u)) = Lines(Seen(t)) BY <1>2, <1>13, <1>16, <2>2, <2>3, SpillLeaves
  <2> QED BY <1>11, <1>12, <2>4 DEF u
<1>17. n < WIDTH \/ n >= WIDTH BY <1>0, <1>2
<1> QED BY <1>15, <1>16, <1>17

------------------------------------------------------------------------------
(***************************************************************************)
(* The invariant, action by action.                                        *)

\* The terminal as the invariant knows it.
LEMMA GoodTerm ==
  ASSUME TtyInv
  PROVE  /\ Good(term) /\ (mapped /\ ~overrun => Clean(term))
         /\ ~mapped => Lines(Seen(term)) = << <<>> >>
<1>1. Good(term) BY DEF TtyInv, TypeOK, Good, Term, Byte, Char
<1>2. mapped /\ ~overrun => Clean(term) BY DEF TtyInv, Clean
<1>3. ASSUME ~mapped PROVE Lines(Seen(term)) = << <<>> >>
  <2>1. term.row = 0 /\ term.column = 0 /\ term \in Term /\ 0 \in Row
    BY <1>1, <1>3 DEF TtyInv, Good, Term
  <2>2. Clipped(0) = 0 BY TtyAssumption DEF Clipped
  <2>3. Seen(term).row = 0 /\ Seen(term).length[0] = 0 BY <2>1, <2>2 DEF Seen
  <2> QED BY <2>1, <2>3, SeenViews, EmptyPage
<1> QED BY <1>1, <1>2, <1>3

\* Every start of the machine satisfies the invariant.
LEMMA InitHolds == Init => TtyInv
<1> SUFFICES ASSUME Init PROVE TtyInv OBVIOUS
<1>0. /\ WIDTH \in Nat /\ WIDTH > 1 /\ HEIGHT \in Nat /\ HEIGHT > 1 /\ MaxWrite \in Nat
      /\ LENGTHS \in Nat /\ 0 < LENGTHS
  BY TtyAssumption
<1>1. 0 \in Row /\ 0 \in Byte /\ 0 % LENGTHS = 0 BY <1>0, ByteOf DEF Row, Byte
<1>2. PICK g \in Glyphs : term = [row |-> 0, column |-> 0,
        length |-> [y \in Row |-> 0], cells |-> [i \in Cell |-> g]]
  BY DEF Init
<1>3. /\ term \in Term /\ term.row = 0 /\ term.column = 0
      /\ \A y \in Row : term.length[y] = 0
  BY <1>1, <1>2 DEF Term, Char
<1>4. todo \in BoundedSeq(Glyphs \cup {Newline}, MaxWrite)
  <2>1. todo = <<>> /\ todo \in Seq(Glyphs \cup {Newline}) /\ Len(todo) <= MaxWrite
    BY <1>0 DEF Init
  <2> QED BY <1>0, <2>1, Bounded
<1>5. Fits(term) BY <1>0, <1>3 DEF Fits
<1>6. TypeOK BY <1>3, <1>4, <1>5 DEF Init, TypeOK, Term, Byte, Char, Fits
<1>7. Written(term) /\ BelowEmpty(term) BY <1>1, <1>3 DEF Written, BelowEmpty
<1> QED BY <1>3, <1>5, <1>6, <1>7 DEF Init, TtyInv

\* What a state with a good terminal between two characters needs.
LEMMA Assembled ==
  ASSUME Good(term), ~overrun => Fits(term), mapped /\ ~overrun => PastEndBlank(term),
         ~mapped => term.row = 0 /\ term.column = 0 /\ ~overrun,
         mapped \in BOOLEAN, busy \in BOOLEAN, overrun \in BOOLEAN,
         cursor = Unknown \/ cursor \in Nat,
         todo \in BoundedSeq(Glyphs \cup {Newline}, MaxWrite),
         todo # <<>> => busy, ~busy /\ cursor # Unknown => cursor = Position(term)
  PROVE  TtyInv
BY DEF TtyInv, TypeOK, Good, Term, Byte, Char, Fits

\* The cursor is at an address.
LEMMA CursorIn == ASSUME NEW t \in Term PROVE Position(t) \in Nat
<1>1. t.row \in Nat /\ t.column \in Nat /\ WIDTH \in Nat
  BY TtyAssumption DEF Term, Row
<1>2. t.row * WIDTH \in Nat BY <1>1
<1> DEFINE a == t.row * WIDTH
<1>3. a \in Nat /\ Position(t) = a + t.column BY <1>2 DEF Position, At
<1> HIDE DEF a
<1> QED BY <1>1, <1>3

\* terminal_initialize clears the buffer and the position.
LEMMA InitializeKeeps ==
  ASSUME TtyInv, Initialize
  PROVE  TtyInv' /\ Lines(Seen(term))' = Lines(Seen(term))
<1>0. /\ WIDTH \in Nat /\ WIDTH > 1 /\ HEIGHT \in Nat /\ HEIGHT > 1
      /\ LENGTHS \in Nat /\ 0 < LENGTHS
  BY TtyAssumption
<1>1. /\ ~mapped /\ ~busy /\ mapped' = TRUE /\ cursor' = cursor /\ busy' = busy
      /\ todo' = todo /\ overrun' = overrun /\ ~overrun
  BY DEF Initialize, TtyInv
<1>2. /\ term \in Term /\ term.row = 0 /\ term.column = 0 /\ Written(term)
      /\ BelowEmpty(term) /\ Fits(term)
  BY <1>1, GoodTerm DEF TtyInv, Good
<1>3. /\ 0 \in Row /\ (\A y \in Row : y = 0 \/ y > 0) /\ 0 % LENGTHS = 0
  BY <1>0, ByteOf DEF Row
<1> DEFINE cells == [i \in Cell |-> Blank]
<1>4. cells \in [Cell -> Char] BY DEF Char
<1>5. term' = [term EXCEPT !.row = 0, !.column = 0, !.cells = cells] BY DEF Initialize
<1> HIDE DEF cells
<1>6. /\ term' \in Term /\ term'.row = 0 /\ term'.column = 0
      /\ term'.length = term.length /\ term'.cells = cells
  BY <1>2, <1>3, <1>4, <1>5 DEF Term
<1>7. \A y \in Row : term.length[y] = 0
  BY <1>2, <1>3 DEF Written, BelowEmpty
<1>8. Written(term)' /\ BelowEmpty(term)' /\ Fits(term)'
  BY <1>2, <1>3, <1>6, <1>7 DEF Written, BelowEmpty, Fits
<1>9. PastEndBlank(term)'
  <2> SUFFICES ASSUME NEW y \in Row, NEW x \in term'.length[y]..(WIDTH - 1)
               PROVE  cells[At(x, y)] = Blank
    BY <1>6 DEF PastEndBlank
  <2>1. x \in 0..WIDTH /\ x < WIDTH BY <1>0, <1>6, <1>7
  <2>2. At(x, y) \in Cell BY <2>1, Address
  <2> QED BY <2>2 DEF cells
<1>10. TypeOK' BY <1>1, <1>6, <1>8 DEF TtyInv, TypeOK, Term, Byte, Char, Fits
<1>11. todo = <<>> BY <1>1 DEF TtyInv
<1>12. cursor # Unknown => cursor = Position(term)' BY <1>1, <1>2, <1>6 DEF TtyInv, Position
<1>13. TtyInv' BY <1>1, <1>8, <1>9, <1>10, <1>11, <1>12 DEF TtyInv
<1>14. Lines(Seen(term))' = << <<>> >>
  <2>1. Clipped(0) = 0 BY <1>0 DEF Clipped
  <2>2. Seen(term').row = 0 /\ Seen(term').length[0] = 0
    BY <1>3, <1>6, <2>1 DEF Seen
  <2>3. Lines(Seen(term')) = << <<>> >> BY <1>6, <2>2, SeenViews, EmptyPage
  <2> QED BY <2>3 DEF Seen, Lines, Line, Clipped
<1> QED BY <1>1, <1>13, <1>14, GoodTerm

\* A call starts.
LEMMA CallKeeps ==
  ASSUME TtyInv, NEW data \in BoundedSeq(Glyphs \cup {Newline}, MaxWrite), Call(data)
  PROVE  TtyInv'
<1>1. /\ busy' = TRUE /\ todo' = data /\ mapped' = mapped /\ term' = term
      /\ cursor' = cursor /\ overrun' = overrun
  BY DEF Call
<1>2. TypeOK' BY <1>1 DEF TtyInv, TypeOK
<1>3. /\ (Written(term) /\ BelowEmpty(term))' /\ (~overrun => Fits(term))'
      /\ (mapped /\ ~overrun => PastEndBlank(term))'
      /\ (~mapped => term.row = 0 /\ term.column = 0 /\ ~overrun)'
  BY <1>1 DEF TtyInv, Written, BelowEmpty, Fits, PastEndBlank
<1> QED BY <1>1, <1>2, <1>3 DEF TtyInv

\* terminal_putchar.
LEMMA PutCharKeeps ==
  ASSUME TtyInv, PutChar
  PROVE  /\ TtyInv'
         /\ term.column < LENGTHS =>
              \/ Lines(Seen(term))' = Lines(Seen(term))
              \/ /\ mapped /\ Lines(Seen(term))' = Printed(Lines(Seen(term)), Head(todo))
                 /\ Head(todo) # Newline => term.column < WIDTH
<1> DEFINE S == Glyphs \cup {Newline}
           c == Head(todo)
<1>0. WIDTH \in Nat /\ WIDTH > 1 /\ HEIGHT \in Nat /\ HEIGHT > 1 /\ MaxWrite \in Nat
  BY TtyAssumption
<1>1. /\ todo # <<>> /\ term' = (IF mapped THEN Put(term, c) ELSE term)
      /\ todo' = Tail(todo) /\ mapped' = mapped /\ cursor' = cursor /\ busy' = busy
      /\ overrun' = (overrun \/ (mapped /\ c # Newline /\ term.column >= WIDTH))
  BY DEF PutChar
<1>2. todo \in BoundedSeq(S, MaxWrite) BY DEF TtyInv, TypeOK
<1>3. c \in S /\ Tail(todo) \in BoundedSeq(S, MaxWrite)
  <2> HIDE DEF S
  <2> QED BY <1>0, <1>1, <1>2, Bounded
<1>4. busy /\ busy' BY <1>1 DEF TtyInv
<1>5. overrun' \in BOOLEAN /\ mapped' \in BOOLEAN /\ busy' \in BOOLEAN
      /\ (cursor' = Unknown \/ cursor' \in Nat)
  BY <1>1 DEF TtyInv, TypeOK
<1>6. CASE mapped
  <2>1. Good(term) /\ term' = Put(term, c) /\ (~overrun => Clean(term))
    BY <1>1, <1>6, GoodTerm
  <2>2. ~overrun' => ~overrun /\ (c # Newline => term.column < WIDTH)
    <3>1. term.column \in Nat BY <2>1 DEF Good, Term
    <3>2. ~(term.column >= WIDTH) => term.column < WIDTH BY <1>0, <3>1
    <3>3. ~overrun' => ~overrun /\ ~(mapped /\ c # Newline /\ term.column >= WIDTH)
      BY <1>1, Zenon
    <3> QED BY <1>6, <3>2, <3>3
  <2> HIDE DEF c
  <2>3. /\ Good(Put(term, c))
        /\ Clean(term) /\ (c # Newline => term.column < WIDTH) => Clean(Put(term, c))
        /\ term.column < LENGTHS =>
             \/ Lines(Seen(Put(term, c))) = Lines(Seen(term))
             \/ /\ Lines(Seen(Put(term, c))) = Printed(Lines(Seen(term)), c)
                /\ c # Newline => term.column < WIDTH
    BY <1>3, <2>1, PutKeeps
  <2>4. Good(term)' /\ (~overrun' => Clean(term)')
    BY <2>1, <2>2, <2>3 DEF Good, Written, BelowEmpty, Clean, Fits, PastEndBlank
  <2>5. Lines(Seen(term))' = Lines(Seen(Put(term, c)))
    BY <2>1 DEF Lines, Line, Seen, Clipped
  <2>6. TypeOK' BY <1>1, <1>3, <1>5, <2>4
          DEF TypeOK, Good, Term, Byte, Char, Clean, Fits
  <2>7. TtyInv' BY <1>1, <1>4, <1>6, <2>4, <2>6 DEF TtyInv, Good, Clean
  <2> QED BY <1>6, <2>3, <2>5, <2>7 DEF c
<1>7. CASE ~mapped
  <2>0. overrun' = overrun
    <3>1. overrun = FALSE BY <1>7 DEF TtyInv, TypeOK
    <3> QED BY <1>1, <1>7, <3>1, Zenon
  <2>1. term' = term /\ overrun' = overrun BY <1>1, <1>7, <2>0
  <2>2. TypeOK' BY <1>1, <1>3, <2>1 DEF TtyInv, TypeOK
  <2>3. /\ (Written(term) /\ BelowEmpty(term))' /\ (~overrun => Fits(term))'
        /\ (mapped /\ ~overrun => PastEndBlank(term))'
        /\ (~mapped => term.row = 0 /\ term.column = 0 /\ ~overrun)'
    BY <1>1, <2>1 DEF TtyInv, Written, BelowEmpty, Fits, PastEndBlank
  <2>4. TtyInv' BY <1>1, <1>4, <2>2, <2>3 DEF TtyInv
  <2>5. Lines(Seen(term))' = Lines(Seen(term)) BY <2>1 DEF Lines, Line, Seen, Clipped
  <2> QED BY <2>4, <2>5
<1> QED BY <1>6, <1>7

\* The end of a call: the cursor shows where the next character goes.
LEMMA MoveCursorKeeps ==
  ASSUME TtyInv, MoveCursor
  PROVE  TtyInv' /\ Lines(Seen(term))' = Lines(Seen(term))
<1>1. /\ todo = <<>> /\ cursor' = Position(term) /\ busy' = FALSE
      /\ mapped' = mapped /\ term' = term /\ todo' = todo /\ overrun' = overrun
  BY DEF MoveCursor
<1>2. cursor' \in Nat BY <1>1, CursorIn, GoodTerm DEF Good
<1>3. TypeOK' BY <1>1, <1>2 DEF TtyInv, TypeOK
<1>4. /\ (Written(term) /\ BelowEmpty(term))' /\ cursor' = Position(term)'
      /\ (~overrun => Fits(term))'
      /\ (mapped /\ ~overrun => PastEndBlank(term))'
      /\ (~mapped => term.row = 0 /\ term.column = 0 /\ ~overrun)'
  BY <1>1 DEF TtyInv, Written, BelowEmpty, Fits, PastEndBlank, Position
<1>5. TtyInv' BY <1>1, <1>3, <1>4 DEF TtyInv
<1>6. Lines(Seen(term))' = Lines(Seen(term)) BY <1>1 DEF Lines, Line, Seen, Clipped
<1> QED BY <1>5, <1>6

\* terminal_backspace and the cursor after it.
LEMMA BackspaceKeeps ==
  ASSUME TtyInv, Backspace
  PROVE  /\ TtyInv'
         /\ \/ Lines(Seen(term))' = Lines(Seen(term))
            \/ /\ Last(Lines(Seen(term))) # <<>>
               /\ Lines(Seen(term))'
                    = Append(Front(Lines(Seen(term))), Front(Last(Lines(Seen(term)))))
            \/ /\ Last(Lines(Seen(term))) = <<>> /\ Len(Lines(Seen(term))) > 1
               /\ Lines(Seen(term))' = Front(Lines(Seen(term)))
<1>1. /\ ~busy /\ mapped /\ mapped' = mapped /\ busy' = busy /\ todo' = todo
      /\ cursor' = Position(term') /\ (BackToRowAbove \/ EraseLast)
      /\ overrun' = overrun
  BY DEF Backspace
<1>2. Good(term) /\ (~overrun => Clean(term)) BY <1>1, GoodTerm
<1>3. ASSUME NEW u, Good(u), Clean(term) => Clean(u), term' = u
      PROVE  TtyInv' /\ Lines(Seen(term))' = Lines(Seen(u))
  <2>1. Good(term)' /\ (~overrun' => Clean(term)')
    BY <1>1, <1>2, <1>3 DEF Good, Written, BelowEmpty, Clean, Fits, PastEndBlank
  <2>2. cursor' = Position(term)' BY <1>1 DEF Position
  <2>3. cursor' \in Nat BY <1>1, <1>3, CursorIn DEF Good
  <2>4. TypeOK' BY <1>1, <2>1, <2>3
          DEF TtyInv, TypeOK, Good, Term, Byte, Char, Clean, Fits
  <2>5. todo = <<>> BY <1>1 DEF TtyInv
  <2>6. Lines(Seen(term))' = Lines(Seen(u)) BY <1>3 DEF Lines, Line, Seen, Clipped
  <2> QED BY <1>1, <2>1, <2>2, <2>4, <2>5, <2>6 DEF TtyInv, Good, Clean
<1>4. CASE BackToRowAbove
  <2>1. term.column = 0 /\ term.row > 0 /\ term' = Above(term)
    BY <1>4 DEF BackToRowAbove, Above
  <2>2. /\ Good(Above(term)) /\ (Clean(term) => Clean(Above(term)))
        /\ Last(Lines(Seen(term))) = <<>> /\ Len(Lines(Seen(term))) > 1
        /\ Lines(Seen(Above(term))) = Front(Lines(Seen(term)))
    BY <1>2, <2>1, GoesAbove
  <2>3. TtyInv' /\ Lines(Seen(term))' = Lines(Seen(Above(term))) BY <1>3, <2>1, <2>2
  <2> QED BY <2>2, <2>3
<1>5. CASE EraseLast
  <2>1. term.column > 0 /\ term' = Erased(term) BY <1>5 DEF EraseLast, Erased
  <2>2. /\ Good(Erased(term)) /\ (Clean(term) => Clean(Erased(term)))
        /\ \/ Lines(Seen(Erased(term))) = Lines(Seen(term))
           \/ /\ Last(Lines(Seen(term))) # <<>>
              /\ Lines(Seen(Erased(term)))
                   = Append(Front(Lines(Seen(term))), Front(Last(Lines(Seen(term)))))
    BY <1>2, <2>1, ErasesLast
  <2>3. TtyInv' /\ Lines(Seen(term))' = Lines(Seen(Erased(term))) BY <1>3, <2>1, <2>2
  <2> QED BY <2>2, <2>3
<1> QED BY <1>1, <1>4, <1>5

\* What changes nothing keeps everything.
LEMMA StutterKeeps ==
  ASSUME TtyInv, UNCHANGED vars
  PROVE  TtyInv' /\ Lines(Seen(term))' = Lines(Seen(term))
<1>1. /\ mapped' = mapped /\ term' = term /\ cursor' = cursor /\ busy' = busy
      /\ todo' = todo /\ overrun' = overrun
  BY DEF vars
<1>2. TypeOK' BY <1>1 DEF TtyInv, TypeOK
<1>3. /\ (Written(term) /\ BelowEmpty(term))' /\ Position(term)' = Position(term)
      /\ (~overrun => Fits(term))'
      /\ (mapped /\ ~overrun => PastEndBlank(term))'
      /\ (~mapped => term.row = 0 /\ term.column = 0 /\ ~overrun)'
  BY <1>1 DEF TtyInv, Written, BelowEmpty, Fits, PastEndBlank, Position
<1>4. TtyInv' BY <1>1, <1>2, <1>3 DEF TtyInv
<1>5. Lines(Seen(term))' = Lines(Seen(term)) BY <1>1 DEF Lines, Line, Seen, Clipped
<1> QED BY <1>4, <1>5

\* Every step preserves the invariant.
LEMMA NextKeeps == TtyInv /\ [Next]_vars => TtyInv'
<1> SUFFICES ASSUME TtyInv, [Next]_vars PROVE TtyInv' OBVIOUS
<1>1. CASE Initialize BY <1>1, InitializeKeeps
<1>2. CASE PutChar BY <1>2, PutCharKeeps
<1>3. CASE MoveCursor BY <1>3, MoveCursorKeeps
<1>4. CASE Backspace BY <1>4, BackspaceKeeps
<1>5. CASE BackspaceAtTop BY <1>5, StutterKeeps DEF BackspaceAtTop
<1>6. ASSUME NEW data \in BoundedSeq(Glyphs \cup {Newline}, MaxWrite), Call(data)
      PROVE  TtyInv'
  BY <1>6, CallKeeps
<1>7. CASE UNCHANGED vars BY <1>7, StutterKeeps
<1> QED BY <1>1, <1>2, <1>3, <1>4, <1>5, <1>6, <1>7 DEF Next

------------------------------------------------------------------------------
(***************************************************************************)
(* Theorems.                                                               *)

\* The invariant holds in every state of the terminal, in any order of calls,
\* characters printed past the end of a row included.
THEOREM TtyInvariant == Spec => []TtyInv
<1> QED BY InitHolds, NextKeeps, PTL DEF Spec

\* The row, the lengths and the buffer stay within their types in any order of
\* calls, and the column and the lengths within the row until a character is
\* printed after a backspace onto a full row.
THEOREM TypesKept == Spec => []TypeOK
<1>1. TtyInv => TypeOK BY DEF TtyInv
<1> QED BY <1>1, TtyInvariant, PTL

\* The rows below the one that is written have no length, that row has the
\* column's, and between calls the cursor is at the next position, always;
\* past the end of every row the screen is blank until a character is printed
\* after a backspace onto a full row.
THEOREM BlanksKept == Spec => []RestBlank
<1>1. TtyInv => RestBlank
  BY DEF TtyInv, RestBlank, Written, BelowEmpty, PastEndBlank
<1> QED BY <1>1, TtyInvariant, PTL

------------------------------------------------------------------------------
(***************************************************************************)
(* The terminal is a page that is edited at its end: step by step.         *)

\* The page of the refinement, as Tty states it.
Shown ==
  [k \in 1..(term.row + 1) |->
     [x \in 1..End(k - 1) |->
        IF mapped THEN term.cells[At(x - 1, k - 1)] ELSE Blank]]

\* It is the page of the lemmas above, before the buffer is there too.
LEMMA ShownLines == TtyInv => Shown = Lines(Seen(term))
<1> SUFFICES ASSUME TtyInv PROVE Shown = Lines(Seen(term)) OBVIOUS
<1>0. term.row \in Row /\ HEIGHT \in Nat BY GoodTerm, TtyAssumption DEF Good, Term
<1>1. \A k \in 1..(term.row + 1) : k - 1 \in Row BY <1>0 DEF Row
<1>2. \A y \in Row : Seen(term).length[y] = End(y) BY DEF Seen, End, Clipped
<1>3. Seen(term).row = term.row /\ Seen(term).cells = term.cells BY DEF Seen
<1>4. CASE mapped
  <2>1. \A k \in 1..(term.row + 1) :
          Line(Seen(term), k - 1)
            = [x \in 1..End(k - 1) |-> term.cells[At(x - 1, k - 1)]]
    BY <1>1, <1>2, <1>3 DEF Line
  <2> QED BY <1>3, <1>4, <2>1 DEF Shown, Lines
<1>5. CASE ~mapped
  <2>1. term.row = 0 /\ term.column = 0 BY <1>5 DEF TtyInv
  <2>2. \A k \in 1..(term.row + 1) : End(k - 1) = 0
    <3>1. \A k \in 1..(term.row + 1) : k - 1 = term.row BY <2>1
    <3>2. 0 < WIDTH BY TtyAssumption
    <3> QED BY <2>1, <3>1, <3>2 DEF End
  <2>3. \A k \in 1..(term.row + 1) : 1..End(k - 1) = {} BY <2>2
  <2>4. \A k \in 1..(term.row + 1) :
          Line(Seen(term), k - 1)
            = [x \in 1..End(k - 1) |->
                 IF mapped THEN term.cells[At(x - 1, k - 1)] ELSE Blank]
    BY <1>1, <1>2, <2>3 DEF Line
  <2> QED BY <1>3, <2>4 DEF Shown, Lines
<1> QED BY <1>4, <1>5

\* A character or a newline is an edit of the page.
LEMMA PrintedEdits ==
  ASSUME NEW c \in Glyphs \cup {Newline}, TtyInv, mapped, Shown' = Printed(Shown, c),
         c # Newline => Len(Append(Last(Shown), c)) <= WIDTH
  PROVE  Page!Edit
<1>1. CASE c = Newline
  <2>1. Shown' = Page!Clip(Append(Shown, <<>>)) BY <1>1 DEF Printed
  <2>2. Page!Enter BY <2>1 DEF Page!Enter, Shown
  <2> QED BY <2>2 DEF Page!Edit
<1>2. CASE c # Newline
  <2>1. c \in Glyphs BY <1>2
  <2>2. /\ Len(Append(Last(Shown), c)) <= WIDTH
        /\ Shown' = IF Len(Append(Last(Shown), c)) = WIDTH
                    THEN Page!Clip(Front(Shown) \o <<Append(Last(Shown), c), <<>>>>)
                    ELSE Append(Front(Shown), Append(Last(Shown), c))
    BY <1>2 DEF Printed
  <2>3. Page!Type(c)
    BY <2>2, Zenon DEF Page!Type, Shown, Last, Front, Page!Last, Page!Front
  <2> QED BY <2>1, <2>3 DEF Page!Edit
<1> QED BY <1>1, <1>2

\* A character that is printed on its row fits on the last line.
LEMMA RoomOnLine ==
  ASSUME TtyInv, NEW c \in Glyphs, term.column < WIDTH
  PROVE  Len(Append(Last(Lines(Seen(term))), c)) <= WIDTH
<1>0. WIDTH \in Nat BY TtyAssumption
<1>1. term \in Term /\ term.row \in Row /\ term.column \in Nat
  BY GoodTerm DEF Good, Term
<1>2. /\ Seen(term) \in View /\ Seen(term).row = term.row
      /\ Seen(term).length[term.row] = term.column
  BY <1>1, SeenViews DEF Seen, Clipped
<1>3. Last(Lines(Seen(term))) \in Seq(Char)
      /\ Len(Last(Lines(Seen(term)))) = term.column
  BY <1>1, <1>2, PageOf
<1>4. Len(Append(Last(Lines(Seen(term))), c)) = term.column + 1
  BY <1>3, AppendProperties DEF Char
<1> QED BY <1>0, <1>1, <1>4

\* The terminal starts as an empty page.
LEMMA InitShows == Init => Page!Start
<1> SUFFICES ASSUME Init PROVE Page!Start OBVIOUS
<1>1. TtyInv /\ ~mapped BY InitHolds DEF Init
<1>2. Shown = << <<>> >> BY <1>1, ShownLines, GoodTerm
<1> QED BY <1>2 DEF Page!Start, Shown

\* Every step of the terminal edits the page at its end or leaves it alone, as
\* long as the column fits its byte.
LEMMA StepShows ==
  TtyInv /\ TtyInv' /\ [Next]_vars => (Counted => Page!Edit) \/ Shown' = Shown
<1>0. (TtyInv => Shown = Lines(Seen(term)))' BY ShownLines, PTL
<1> SUFFICES ASSUME TtyInv, TtyInv', [Next]_vars, Counted
             PROVE  Page!Edit \/ Shown' = Shown
  OBVIOUS
<1>1. Shown = Lines(Seen(term)) BY ShownLines
<1>2. Shown' = Lines(Seen(term))' BY <1>0
<1>3. CASE Initialize BY <1>1, <1>2, <1>3, InitializeKeeps
<1>4. CASE PutChar
  <2> DEFINE c == Head(todo)
  <2>1. \/ Lines(Seen(term))' = Lines(Seen(term))
        \/ /\ mapped /\ Lines(Seen(term))' = Printed(Lines(Seen(term)), c)
           /\ c # Newline => term.column < WIDTH
    BY <1>4, PutCharKeeps DEF Counted
  <2>2. todo # <<>> /\ todo \in BoundedSeq(Glyphs \cup {Newline}, MaxWrite)
    BY <1>4 DEF PutChar, TtyInv, TypeOK
  <2>3. c \in Glyphs \cup {Newline} BY <2>2, Bounded, TtyAssumption
  <2> HIDE DEF c
  <2>4. CASE /\ mapped /\ Lines(Seen(term))' = Printed(Lines(Seen(term)), c)
             /\ c # Newline => term.column < WIDTH
    <3>1. c # Newline => Len(Append(Last(Lines(Seen(term))), c)) <= WIDTH
      BY <2>3, <2>4, RoomOnLine
    <3>2. Page!Edit BY <1>1, <1>2, <2>3, <2>4, <3>1, PrintedEdits
    <3> QED BY <3>2
  <2> QED BY <1>1, <1>2, <2>1, <2>4
<1>5. CASE MoveCursor BY <1>1, <1>2, <1>5, MoveCursorKeeps
<1>6. CASE Backspace
  <2>1. \/ Shown' = Shown
        \/ /\ Last(Shown) # <<>>
           /\ Shown' = Append(Front(Shown), Front(Last(Shown)))
        \/ /\ Last(Shown) = <<>> /\ Len(Shown) > 1
           /\ Shown' = Front(Shown)
    BY <1>1, <1>2, <1>6, BackspaceKeeps
  <2>2. ASSUME Shown' # Shown PROVE Page!Erase
    BY <2>1, <2>2, Zenon DEF Page!Erase, Shown, Last, Front, Page!Last, Page!Front
  <2> QED BY <2>2 DEF Page!Edit
<1>7. CASE BackspaceAtTop BY <1>1, <1>2, <1>7, StutterKeeps DEF BackspaceAtTop
<1>8. ASSUME NEW data \in BoundedSeq(Glyphs \cup {Newline}, MaxWrite), Call(data)
      PROVE  Shown' = Shown
  BY <1>8 DEF Call, Shown, End
<1>9. CASE UNCHANGED vars BY <1>1, <1>2, <1>9, StutterKeeps
<1> QED BY <1>3, <1>4, <1>5, <1>6, <1>7, <1>8, <1>9 DEF Next

\* terminal_putchar, terminal_backspace and terminal_scrollup implement a page
\* of at most HEIGHT lines of at most WIDTH characters that is edited at its
\* end only, whatever the order of the calls, as long as the column that a
\* character past the end of its row leaves behind fits line_length's byte.
THEOREM Implements == Spec => ScreenSpec
<1>1. TtyInv /\ TtyInv' /\ [Next]_vars => [Counted => Page!Edit]_(Page!vars)
  BY StepShows DEF Shown, Page!vars
<1> QED BY <1>1, InitShows, TtyInvariant, PTL DEF Spec, ScreenSpec
=============================================================================
