------------------------------ MODULE MCKeyboard ------------------------------
(* A letter, the keypad's 7 and its slash. *)
EXTENDS Keyboard

MCAscii == [k \in Characters |-> CASE k = "a" -> 97 [] k = "7" -> 55 [] k = "/" -> 47]
==============================================================================
