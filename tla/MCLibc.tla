-------------------------------- MODULE MCLibc --------------------------------
(* Eight-bit integers and buffers as long as the longest of their numerals; *)
(* formats of up to four characters.                                        *)
EXTENDS Libc

MCLetters == {Percent, 97} \cup {Ord[l] : l \in DOMAIN Ord}
MCFormats == BoundedSeq(MCLetters, 4)
MCChars == {Percent, 97}
MCInts == {-128, -10, 0, 9, 127}
MCUints == {0, 10, 163, 255}
MCStrings == {<<>>, [k \in 1..126 |-> 97]}
==============================================================================
