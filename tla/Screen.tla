-------------------------------- MODULE Screen --------------------------------
(***************************************************************************)
(* What the terminal promises to printf and to the keyboard: a page of at  *)
(* most HEIGHT lines of at most WIDTH characters that is edited at its end *)
(* only, and loses its first line when it grows past HEIGHT.               *)
(***************************************************************************)
EXTENDS Integers, Sequences, SequencesExt

CONSTANTS WIDTH, HEIGHT, Glyphs

VARIABLE lines

vars == lines

Clip(page) == IF Len(page) > HEIGHT THEN Tail(page) ELSE page

Start == lines = << <<>> >>

\* A character at the end; a line that is full is followed by a new one.
Type(c) ==
  LET line == Append(Last(lines), c)
  IN /\ Len(line) <= WIDTH
     /\ lines' = IF Len(line) = WIDTH THEN Clip(Front(lines) \o <<line, <<>>>>)
                                      ELSE Append(Front(lines), line)

Enter == lines' = Clip(Append(lines, <<>>))

\* The last character, or an empty last line.
Erase ==
  \/ Last(lines) # <<>> /\ lines' = Append(Front(lines), Front(Last(lines)))
  \/ Last(lines) = <<>> /\ Len(lines) > 1 /\ lines' = Front(lines)

Edit == Enter \/ Erase \/ \E c \in Glyphs : Type(c)

Spec == Start /\ [][Edit]_vars
==============================================================================
