---------------------------------- MODULE Tty ----------------------------------
(***************************************************************************)
(* The text terminal (kernel/arch/i386/tty.c): the VGA text buffer, the    *)
(* position of the next character and the length of each row, under calls  *)
(* of terminal_write (putchar and printf of the C library) and of          *)
(* terminal_eval_unicode (the echo of the keyboard thread), one at a time. *)
(* Colours are left out.                                                   *)
(***************************************************************************)
EXTENDS Integers, Sequences, SequencesExt

CONSTANTS
  WIDTH, HEIGHT,  \* VGA_WIDTH, VGA_HEIGHT: 80 and 25
  LENGTHS,        \* values of a uint8_t of line_length: 256
  Glyphs,         \* characters that show
  Newline,        \* '\n' and '\r', which are treated alike
  Blank,          \* ' ', as terminal_initialize and backspace write it
  MaxWrite,       \* characters of one terminal_write: bounds the runs
  MaxColumn,      \* a column no call starts past: bounds the runs
  Unknown         \* where the firmware left the hardware cursor

ASSUME TtyAssumption ==
  /\ WIDTH \in Nat \ {0, 1} /\ HEIGHT \in Nat \ {0, 1}
  /\ LENGTHS \in Nat /\ LENGTHS > WIDTH
  /\ MaxWrite \in Nat /\ MaxColumn \in Nat
  /\ Newline \notin Glyphs /\ Blank \notin Glyphs

Row == 0..(HEIGHT - 1)
Cell == 0..(WIDTH * HEIGHT - 1)

VARIABLES
  mapped,  \* terminal_buffer is VGA_MEMORY, not yet NULL
  term,    \* terminal_row, terminal_column, line_length and the buffer
  cursor,  \* the hardware cursor, as an index into the buffer
  busy,    \* inside terminal_write or terminal_eval_unicode
  todo,    \* the characters of that call still to print
  overrun  \* a character was once printed past the end of its row (history)

vars == <<mapped, term, cursor, busy, todo, overrun>>

At(x, y) == y * WIDTH + x
Position(t) == At(t.column, t.row)

\* The firmware's screen, and the statics as .bss leaves them.
Init ==
  /\ mapped = FALSE /\ cursor = Unknown /\ busy = FALSE /\ todo = <<>>
  /\ overrun = FALSE
  /\ \E g \in Glyphs : term = [row |-> 0, column |-> 0,
       length |-> [y \in Row |-> 0], cells |-> [i \in Cell |-> g]]

\* The cursor stays where it is until something is written.
Initialize ==
  /\ ~mapped /\ ~busy /\ mapped' = TRUE
  /\ term' = [term EXCEPT !.row = 0, !.column = 0,
                          !.cells = [i \in Cell |-> Blank]]
  /\ UNCHANGED <<cursor, busy, todo, overrun>>

------------------------------------------------------------------------------
\* Mutant: the length of each row stays behind when the rows move up.
KeepsLengths(length) == length

\* line_length[0] = 0 and the swaps that carry it to the last row.
Rotated(length) == [y \in Row |-> IF y + 1 \in Row THEN length[y + 1] ELSE 0]

\* Mutant: the last row is not cleared.
LeavesLastRow(cells) ==
  [i \in Cell |-> IF i + WIDTH \in Cell THEN cells[i + WIDTH] ELSE cells[i]]

\* memmove by one row, and blanks in the last one.
MovedUp(cells) ==
  [i \in Cell |-> IF i + WIDTH \in Cell THEN cells[i + WIDTH] ELSE Blank]

\* terminal_scrollup
Scrolled(t) ==
  [t EXCEPT !.cells = MovedUp(@), !.length = Rotated(@), !.row = @ - 1]

\* Mutant: the test for the last row is one row late.
NextRowLate(t) ==
  IF t.row = HEIGHT THEN Scrolled([t EXCEPT !.row = @ + 1])
                    ELSE [t EXCEPT !.row = @ + 1]

\* if (++terminal_row == VGA_HEIGHT) terminal_scrollup();
NextRow(t) ==
  IF t.row + 1 = HEIGHT THEN Scrolled([t EXCEPT !.row = @ + 1])
                        ELSE [t EXCEPT !.row = @ + 1]

\* terminal_putentryat.  After a backspace onto a full row the column is
\* WIDTH (tty.c:62) and what is printed there lands in the next rows; past
\* the last cell it is out of sight.
Stored(cells, i, c) == IF i \in Cell THEN [cells EXCEPT ![i] = c] ELSE cells

\* if (++terminal_column == VGA_WIDTH): the row counts the character too.  A
\* column already at WIDTH or past it runs on.
Advanced(t) ==
  IF t.column + 1 = WIDTH
  THEN NextRow([t EXCEPT !.length[t.row] = (@ + 1) % LENGTHS, !.column = 0])
  ELSE [t EXCEPT !.column = @ + 1]

\* line_length[terminal_row] = terminal_column, into a byte.
WithLength(t) == [t EXCEPT !.length[t.row] = t.column % LENGTHS]

\* terminal_putchar, once the buffer is there.
Put(t, c) ==
  IF c = Newline THEN NextRow([t EXCEPT !.column = 0])
                 ELSE WithLength(Advanced(
                        [t EXCEPT !.cells = Stored(@, Position(t), c)]))

------------------------------------------------------------------------------
\* terminal_write(data, size) and terminal_eval_unicode(c) of a character:
\* both print and then move the cursor.
Call(data) ==
  /\ ~busy /\ term.column <= MaxColumn
  /\ busy' = TRUE /\ todo' = data
  /\ UNCHANGED <<mapped, term, cursor, overrun>>

\* What is printed before terminal_initialize is dropped.
PutChar ==
  /\ todo # <<>>
  /\ term' = IF mapped THEN Put(term, Head(todo)) ELSE term
  /\ todo' = Tail(todo)
  /\ overrun' = \/ overrun
                \/ mapped /\ Head(todo) # Newline /\ term.column >= WIDTH
  /\ UNCHANGED <<mapped, cursor, busy>>

MoveCursor ==
  /\ busy /\ todo = <<>>
  /\ cursor' = Position(term) /\ busy' = FALSE
  /\ UNCHANGED <<mapped, term, todo, overrun>>

\* terminal_backspace, at the start of a row: the row above goes on.
BackToRowAbove ==
  /\ term.column = 0 /\ term.row > 0
  /\ term' = [term EXCEPT !.row = @ - 1, !.column = term.length[term.row - 1]]

\* terminal_backspace inside a row.
EraseLast ==
  /\ term.column > 0
  /\ term' = WithLength([term EXCEPT !.column = @ - 1,
                          !.cells = Stored(@, Position(term) - 1, Blank)])

\* terminal_eval_unicode('\b'); the keyboard's thread starts after boot has
\* called terminal_initialize.
Backspace ==
  /\ ~busy /\ mapped
  /\ BackToRowAbove \/ EraseLast
  /\ cursor' = Position(term')
  /\ UNCHANGED <<mapped, busy, todo, overrun>>

BackspaceAtTop ==
  /\ ~busy /\ mapped /\ term.column = 0 /\ term.row = 0
  /\ UNCHANGED vars

Next ==
  \/ Initialize \/ PutChar \/ MoveCursor \/ Backspace \/ BackspaceAtTop
  \/ \E data \in BoundedSeq(Glyphs \cup {Newline}, MaxWrite) : Call(data)

Spec == Init /\ [][Next]_vars

------------------------------------------------------------------------------
(* Properties                                                              *)

\* The row and what is stored stay on the screen in any order of calls; the
\* column and the lengths do until a character is printed past a row's end.
TypeOK ==
  /\ mapped \in BOOLEAN /\ busy \in BOOLEAN /\ overrun \in BOOLEAN
  /\ term \in [row : Row, column : Nat, length : [Row -> 0..(LENGTHS - 1)],
               cells : [Cell -> Glyphs \cup {Blank}]]
  /\ ~overrun => /\ term.column <= WIDTH
                 /\ \A y \in Row : term.length[y] <= WIDTH
  /\ cursor = Unknown \/ cursor \in Nat
  /\ todo \in BoundedSeq(Glyphs \cup {Newline}, MaxWrite)

\* As long as no character was printed past a row's end, nothing is left on
\* the screen past the end of a row or below the row that is written: what
\* scrolls in and what is erased is blank.  In any case the rows below have
\* no length yet, the row that is written has the column's, and between calls
\* the hardware cursor shows where the next character goes.
RestBlank ==
  /\ mapped => /\ \A y \in Row : y > term.row => term.length[y] = 0
               /\ term.length[term.row] = term.column % LENGTHS
  /\ (mapped /\ ~overrun) =>
       \A y \in Row : \A x \in term.length[y]..(WIDTH - 1) :
         term.cells[At(x, y)] = Blank
  /\ (~busy /\ cursor # Unknown) => cursor = Position(term)

------------------------------------------------------------------------------
(* Refinement                                                              *)

\* Where line y ends on the screen.  Of the row that is written the column
\* tells, of the others the length; both may have run past the screen's edge.
End(y) ==
  LET n == IF y = term.row THEN term.column ELSE term.length[y]
  IN IF n < WIDTH THEN n ELSE WIDTH

Page == INSTANCE Screen WITH lines <-
  [k \in 1..(term.row + 1) |->
     [x \in 1..End(k - 1) |->
        IF mapped THEN term.cells[At(x - 1, k - 1)] ELSE Blank]]

\* The column still fits the byte that holds a row's length.
Counted == term.column < LENGTHS

\* terminal_putchar, terminal_backspace and terminal_scrollup edit a page at
\* its end: line_length follows every wrap, scroll and erasure, also when text
\* has run past the edge, as long as the length of such a row fits its byte.
ScreenSpec == Page!Start /\ [][Counted => Page!Edit]_(Page!vars)
==============================================================================
