-------------------------------- MODULE Printf --------------------------------
(***************************************************************************)
(* printf of the kernel's C library (libc/stdio/printf.c): one call, with  *)
(* the scan of the format, the conversion of a number in its small buffer  *)
(* and the count of what was written.  A character is its ASCII code, a    *)
(* string the sequence of its characters without the final 0.  Under libk  *)
(* putchar passes each character to the terminal and never fails.          *)
(***************************************************************************)
EXTENDS Integers, Sequences, SequencesExt

CONSTANTS
  INT_MAX,                    \* 2^31 - 1
  IntSize, UintSize, HexSize, \* characters of the buffers: 11, 10 and 8
  Formats,                    \* the formats explored
  Ints, Uints, Chars, Strings \* the arguments explored

Percent == 37
Minus == 45
Ord == [c |-> 99, s |-> 115, d |-> 100, u |-> 117, x |-> 120, X |-> 88]
UINT_MAX == 2 * INT_MAX + 1

ASSUME PrintfAssumption ==
  /\ {INT_MAX, IntSize, UintSize, HexSize} \subseteq Nat
  /\ Formats \cup Strings \subseteq Seq(Nat \ {0}) /\ Chars \subseteq Nat
  /\ Ints \subseteq -(INT_MAX + 1)..INT_MAX /\ Uints \subseteq 0..UINT_MAX

VARIABLES
  pc,      \* what printf does next
  format,  \* the format, and the position in it
  at,
  given,   \* the arguments taken so far, with their directives
  out,     \* what went to putchar
  written, \* the count that is returned
  conv     \* the conversion under way: value, buffer[0..pos-1] and i, j

printfVars == <<pc, format, at, given, out, written, conv>>

NoConv == [value |-> 0, base |-> 10, size |-> 0, alpha |-> 0, prefix |-> <<>>,
           start |-> 0, buffer |-> <<>>, i |-> 0, j |-> 0]

PrintfInit ==
  /\ pc = "idle" /\ format = <<>> /\ at = 1 /\ given = <<>>
  /\ out = <<>> /\ written = 0 /\ conv = NoConv

PrintfCall(f) ==
  /\ pc' = "scan" /\ format' = f
  /\ UNCHANGED <<at, given, out, written, conv>>

------------------------------------------------------------------------------
\* f[k], with the 0 that ends the format.
CharOf(f, k) == IF k <= Len(f) THEN f[k] ELSE 0
Char(k) == CharOf(format, k)

\* !(maxrem < amount)
Room(n) == n <= INT_MAX - written

\* print(s, Len(s)) at the end of a directive, or -1 without room for it.
Emit(s, next) ==
  \/ /\ Room(Len(s))
     /\ out' = out \o s /\ written' = written + Len(s) /\ at' = next
     /\ pc' = "scan"
  \/ /\ ~Room(Len(s)) /\ pc' = "failed"
     /\ UNCHANGED <<out, written, at>>

Directive(letter) ==
  pc = "scan" /\ Char(at) = Percent /\ Char(at + 1) = Ord[letter]

\* Ordinary characters up to the next '%'; "%%" starts them with a '%'.
Literal ==
  /\ pc = "scan" /\ Char(at) # 0
  /\ Char(at) # Percent \/ Char(at + 1) = Percent
  /\ LET from == IF Char(at) = Percent THEN at + 1 ELSE at
         to == CHOOSE k \in from..Len(format) :
                 /\ Char(k + 1) \in {0, Percent}
                 /\ \A l \in (from + 1)..k : Char(l) # Percent
     IN Emit(SubSeq(format, from, to), to + 1)
  /\ UNCHANGED <<format, given, conv>>

\* %c and %s
Text(letter, s) ==
  /\ Directive(letter) /\ Emit(s, at + 2)
  /\ given' = Append(given, <<letter, s>>)
  /\ UNCHANGED <<format, conv>>

\* (unsigned int) -(num + 1) + 1u for a negative num: INT_MIN too.
Magnitude(n) == IF n < 0 THEN (-(n + 1) + 1) % (UINT_MAX + 1) ELSE n

Begin(letter, n, c) ==
  /\ Directive(letter) /\ pc' = "digits" /\ conv' = c
  /\ given' = Append(given, <<letter, n>>)
  /\ UNCHANGED <<format, at, out, written>>

Signed(n) ==
  Begin("d", n, [NoConv EXCEPT !.size = IntSize, !.value = Magnitude(n),
                   !.start = IF n < 0 THEN 1 ELSE 0,
                   !.buffer = IF n < 0 THEN <<Minus>> ELSE <<>>])

Unsigned(n) == Begin("u", n, [NoConv EXCEPT !.size = UintSize, !.value = n])

\* 'W' and '7' stand ten places before 'a' and 'A'.
Hex(letter, n) ==
  Begin(letter, n, [NoConv EXCEPT !.size = HexSize, !.value = n, !.base = 16,
                      !.prefix = <<48, 120>>,
                      !.alpha = IF letter = "X" THEN 55 ELSE 87])

DigitOf(v) == v + (IF v > 9 THEN conv.alpha ELSE 48)

\* do { ... } while (value != 0), and -1 when the buffer is full.
Digit ==
  /\ pc = "digits"
  /\ LET rest == conv.value \div conv.base
         grown == Append(conv.buffer, DigitOf(conv.value % conv.base))
     IN IF Len(conv.buffer) >= conv.size THEN pc' = "failed" /\ UNCHANGED conv
        ELSE /\ conv' = [conv EXCEPT !.value = rest, !.buffer = grown,
                                     !.i = conv.start, !.j = Len(grown)]
             /\ pc' = IF rest = 0 THEN "reverse" ELSE "digits"
  /\ UNCHANGED <<format, at, given, out, written>>

\* Mutant: the last character is left where it is.
OneLess(j) == j - 2

\* --j
Before(j) == j - 1

\* for (i = start, j = pos; i < --j; i++): buffer[k] is the (k+1)st element.
Swap ==
  /\ pc = "reverse" /\ conv.i < Before(conv.j)
  /\ LET b == conv.buffer
         j == Before(conv.j)
     IN conv' = [conv EXCEPT !.i = @ + 1, !.j = j,
          !.buffer = [b EXCEPT ![conv.i + 1] = b[j + 1], ![j + 1] = b[conv.i + 1]]]
  /\ UNCHANGED <<pc, format, at, given, out, written>>

Reversed ==
  /\ pc = "reverse" /\ conv.i >= Before(conv.j) /\ pc' = "print"
  /\ UNCHANGED <<format, at, given, out, written, conv>>

\* The prefix of %x is printed and not counted.
PrintNumber ==
  /\ pc = "print"
  /\ LET len == Len(conv.buffer)
     IN \/ /\ Room(len) /\ pc' = "scan" /\ at' = at + 2
           /\ out' = out \o conv.prefix \o conv.buffer /\ written' = written + len
        \/ /\ ~Room(len) /\ pc' = "failed" /\ UNCHANGED <<at, out, written>>
  /\ conv' = NoConv
  /\ UNCHANGED <<format, given>>

\* Any other character after a '%': the rest is printed as it stands.
Other ==
  /\ pc = "scan" /\ Char(at) = Percent
  /\ Char(at + 1) \notin {Percent} \cup {Ord[l] : l \in DOMAIN Ord}
  /\ Emit(SubSeq(format, at, Len(format)), Len(format) + 1)
  /\ UNCHANGED <<format, given, conv>>

End ==
  /\ pc = "scan" /\ Char(at) = 0 /\ pc' = "done"
  /\ UNCHANGED <<format, at, given, out, written, conv>>

\* The caller goes on; a later call starts afresh.
PrintfReturn ==
  /\ pc \in {"done", "failed"} /\ pc' = "idle"
  /\ format' = <<>> /\ at' = 1 /\ given' = <<>>
  /\ out' = <<>> /\ written' = 0 /\ conv' = NoConv

Converting == Digit \/ Swap \/ Reversed \/ PrintNumber
Taking == \/ \E l \in Chars : Text("c", <<l>>)
          \/ \E s \in Strings : Text("s", s)
          \/ \E n \in Ints : Signed(n)
          \/ \E n \in Uints : Unsigned(n) \/ \E letter \in {"x", "X"} : Hex(letter, n)
PrintfStep == Literal \/ Taking \/ Converting \/ Other \/ End \/ PrintfReturn
PrintfNext ==
  \/ PrintfStep
  \/ pc = "idle" /\ \E f \in Formats : PrintfCall(f)

------------------------------------------------------------------------------
(* Properties                                                              *)

\* The reference: a number is written from its first digit to its last.
Figures == <<48, 49, 50, 51, 52, 53, 54, 55, 56, 57>>
Lower == Figures \o <<97, 98, 99, 100, 101, 102>>
Upper == Figures \o <<65, 66, 67, 68, 69, 70>>
Numeral(n, base, figures) ==
  LET numeral[m \in 0..UINT_MAX] ==
        IF m < base THEN <<figures[m + 1]>>
        ELSE Append(numeral[m \div base], figures[(m % base) + 1])
  IN numeral[n]

\* Each buffer has room for the longest of the numerals that it is for.
ASSUME BufferAssumption ==
  /\ Len(Numeral(INT_MAX + 1, 10, Figures)) < IntSize
  /\ Len(Numeral(UINT_MAX, 10, Figures)) <= UintSize
  /\ \A figures \in {Lower, Upper} : Len(Numeral(UINT_MAX, 16, figures)) <= HexSize

Spelled(arg) ==
  LET n == arg[2]
  IN CASE arg[1] \in {"c", "s"} -> n
       [] arg[1] = "d" /\ n < 0 -> <<Minus>> \o Numeral(-n, 10, Figures)
       [] arg[1] = "d" /\ n >= 0 -> Numeral(n, 10, Figures)
       [] arg[1] = "u" -> Numeral(n, 10, Figures)
       [] arg[1] = "x" -> <<48, 120>> \o Numeral(n, 16, Lower)
       [] arg[1] = "X" -> <<48, 120>> \o Numeral(n, 16, Upper)

\* The letter of a directive.
Named(c) == \E l \in DOMAIN Ord : Ord[l] = c

\* The k-th character of a format with the n-th argument to come next: what it
\* stands for, before what follows it and the character after it (one and two).
Placed(f, args, k, one, two, n) ==
  CASE CharOf(f, k) = 0 -> <<>>
    [] CharOf(f, k) \notin {0, Percent} -> <<f[k]>> \o one[n]
    [] CharOf(f, k) = Percent /\ CharOf(f, k + 1) = Percent -> <<Percent>> \o two[n]
    [] CharOf(f, k) = Percent /\ Named(CharOf(f, k + 1)) ->
         IF n > Len(args) THEN <<>> ELSE Spelled(args[n]) \o two[n + 1]
    [] OTHER -> SubSeq(f, k, Len(f))

\* The text that the characters of a format from the k-th on, with the
\* arguments from the n-th on, stand for, up to the first directive without one.
Texts(f, args) ==
  LET text[k \in 1..(Len(f) + 2)] ==
        [n \in 1..(Len(args) + 1) |-> Placed(f, args, k, text[k + 1], text[k + 2], n)]
  IN text

Expansion == Texts(format, given)[1][1]
Prefixed(args) == Cardinality({k \in DOMAIN args : args[k][1] \in {"x", "X"}})

\* printf passes to putchar what its format says, digits in their order, and
\* returns its length, in which the prefixes of %x do not count.  It gives up,
\* after a prefix of the text, only when that would pass INT_MAX: no number,
\* INT_MIN included, is too long for its buffer.
Counting == Len(Expansion) - 2 * Prefixed(given)
PrintsAsTold ==
  /\ pc = "done" => out = Expansion /\ written = Counting
  /\ pc = "failed" => IsPrefix(out, Expansion) /\ Counting > INT_MAX
==============================================================================
