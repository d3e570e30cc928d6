------------------------------- MODULE Keyboard ------------------------------
(***************************************************************************)
(* The keyboard driver (kernel/arch/i386/keyboard.c): the interrupt        *)
(* handler decodes scan codes and pushes keycodes on keycode_stack, from   *)
(* which the thread keycode_handler pops them, keeps the modifier and lock *)
(* state and prints.  The interrupt can come between any two steps of the  *)
(* thread.                                                                 *)
(*                                                                         *)
(* A scan code is a prefix byte or a key's make or break byte; a keycode   *)
(* is the key and whether it was released.  What is printed is an ASCII    *)
(* code, which goes to terminal_eval_unicode (module Tty).                 *)
(***************************************************************************)
EXTENDS Integers, Sequences, FiniteSetsExt

CONSTANTS
  Shifts, Ctrls, Alts, \* left and right: the bits of press_keys
  Caps, Num, Scroll,   \* the locks: the bits of toggle_keys
  Characters,   \* keys that print
  us_querty,    \* the ASCII code of each without modifiers
  Keypad,       \* those that print only with Num Lock
  Extended,     \* the keys whose scan codes have the prefix E0
  Pause,        \* the key whose scan code is E1 and five bytes
  StackSize,    \* slots of keycode_stack: 16
  MaxKeys,      \* key events of a run (a bound of the model)
  Patient       \* interrupts only come while the thread waits for a key

Modifiers == Shifts \cup Ctrls \cup Alts
Locks == {Caps, Num, Scroll}
Keys == Modifiers \cup Locks \cup Characters \cup {Pause}

ASSUME KeyboardAssumption ==
  /\ StackSize \in Nat \ {0} /\ MaxKeys \in Nat /\ Patient \in BOOLEAN
  /\ Extended \subseteq Modifiers \cup Locks \cup Characters
  /\ Pause \notin Modifiers \cup Locks \cup Characters
  /\ us_querty \in [Characters -> 1..122] /\ Keypad \subseteq Characters

VARIABLES
  wire,          \* bytes the controller has not delivered yet
  held,          \* keys that are down
  events,        \* key events so far
  meant,         \* history: the text of the keys pressed so far
  lit,           \* history: the locks the typist has turned on
  extended,      \* the decoder's state
  keycode_stack, \* the slots in use and the stale ones above them
  top,           \* keycode_stack_top as an index, -1 when empty
  press_keys,    \* the modifiers the thread takes to be down
  toggle_keys,   \* the locks that are on
  pc,            \* the thread: "wait", "pop", "handle", or "leds"
  tries,         \* of keyboard_update_leds
  reg,           \* the top it has loaded
  keycode,       \* the entry it has read
  typed          \* what it has printed

hardware == <<wire, held, events, meant, lit>>
queue == <<keycode_stack, top>>
thread == <<press_keys, toggle_keys, pc, tries, reg, keycode, typed>>
vars == <<hardware, extended, queue, thread>>

E0 == [prefix |-> 1]
E1 == [prefix |-> 5]
Byte(k, rel) == [prefix |-> 0, key |-> k, released |-> rel]
NoKey == [key |-> Pause, released |-> TRUE]

\* What the keyboard sends; Pause sends all its bytes when it is pressed.
Bytes(k, rel) ==
  IF k = Pause THEN IF rel THEN <<>>
                    ELSE <<E1, Byte(k, FALSE), Byte(k, FALSE), E1,
                           Byte(k, TRUE), Byte(k, TRUE)>>
  ELSE (IF k \in Extended THEN <<E0>> ELSE <<>>) \o <<Byte(k, rel)>>

Init ==
  /\ wire = <<>> /\ held = {} /\ events = 0 /\ meant = <<>> /\ lit = {}
  /\ extended = 0
  /\ keycode_stack = [i \in 0..(StackSize - 1) |-> NoKey] /\ top = -1
  /\ press_keys = {} /\ toggle_keys = {}
  /\ pc = "wait" /\ tries = 0 /\ reg = -1 /\ keycode = NoKey /\ typed = <<>>

------------------------------------------------------------------------------
(* The keyboard                                                            *)

\* us_querty_shift, whose first entry is that of 0x28.
Shifted(u) ==
  CASE u < 64 -> <<34, 40, 41, 43, 60, 95, 62, 63, 41, 33, 64, 35,
                   36, 37, 94, 38, 42, 40, 58, 58, 60, 61, 62, 63>>[u - 39]
    [] u \in 65..93 -> u + 32
    [] u = 96 -> 126
    [] u \in 97..125 -> u - 32
    [] OTHER -> u

\* The reference, what a key means while down is held and the locks on are on:
\* a letter is upper case when one of Shift and Caps Lock, but not both, is on;
\* the other characters follow Shift alone, and the keypad prints with Num Lock.
\* With Ctrl the codes from @ on are control codes, of which NUL prints nothing.
Meant(k, down, on) ==
  LET u == us_querty[k]
      shift == down \cap Shifts # {}
      char == IF u \in 97..122 THEN IF shift # (Caps \in on) THEN u - 32 ELSE u
              ELSE IF shift /\ u >= 40 THEN Shifted(u) ELSE u
      code == IF down \cap Ctrls # {} /\ char \in 64..125 \ {96}
              THEN char % 32 ELSE char
  IN IF (k \in Keypad /\ Num \notin on) \/ code = 0 THEN <<>> ELSE <<code>>

KeyEvent(k) ==
  /\ events < MaxKeys /\ events' = events + 1
  /\ wire' = wire \o Bytes(k, k \in held)
  /\ held' = IF k \in held THEN held \ {k} ELSE held \cup {k}
  /\ meant' = IF k \in Characters \ held
              THEN meant \o Meant(k, held, lit) ELSE meant
  /\ lit' = IF k \in Locks \ held THEN SymDiff(lit, {k}) ELSE lit
  /\ UNCHANGED <<extended, queue, thread>>

------------------------------------------------------------------------------
(* PS2_key_handler, on interrupt 1                                         *)

\* scan_to_key: the state after a byte.  After E1 four bytes are swallowed
\* and the fifth is taken for an extended key.
NextExtended(b) == IF extended > 1 THEN extended - 1
                   ELSE IF extended = 0 THEN b.prefix ELSE 0

\* A key only comes out outside a prefix: 0xFF is dropped.
IsKey(b) == \/ extended = 1
            \/ extended = 0 /\ b.prefix = 0

\* No bound is checked; the model stops where the stack would overflow.
KeyIrq ==
  /\ wire # <<>> /\ top + 1 < StackSize
  /\ Patient => pc = "wait" /\ top = -1
  /\ LET b == Head(wire)
     IN /\ extended' = NextExtended(b)
        /\ IF IsKey(b)
           THEN /\ top' = top + 1
                /\ keycode_stack' = [keycode_stack EXCEPT ![top + 1] =
                                       [key |-> b.key, released |-> b.released]]
           ELSE UNCHANGED queue
  /\ wire' = Tail(wire)
  /\ UNCHANGED <<held, events, meant, lit, thread>>

------------------------------------------------------------------------------
(* keycode_handler                                                         *)

\* The loop that yields while the stack is empty ends: the pointer is loaded
\* into a register and the entry it points to is read.
ReadTop ==
  /\ pc = "wait" /\ top >= 0
  /\ reg' = top /\ keycode' = keycode_stack[top] /\ pc' = "pop"
  /\ UNCHANGED <<hardware, extended, queue, press_keys, toggle_keys, tries, typed>>

\* Mutant: the entry stays on the stack.
NotPopped == reg

\* Mutant: an entry too many is dropped.
PoppedTwice == reg - 2

\* keycode_stack_top--, from the value in the register.
Popped == reg - 1

StoreTop ==
  /\ pc = "pop"
  /\ top' = Popped /\ pc' = "handle"
  /\ UNCHANGED <<hardware, extended, keycode_stack, press_keys, toggle_keys,
                 tries, reg, keycode, typed>>

\* Mutant: a release sets the bit too.
AlwaysSet(k) == press_keys \cup ({k} \cap Modifiers)

AfterKey(k) == IF keycode.released THEN press_keys \ {k}
               ELSE press_keys \cup ({k} \cap Modifiers)

\* Mutant: Caps Lock is tested like Shift, on every character.
CapsOnAll(u, on) == IF Caps \in on /\ u >= 40 THEN Shifted(u) ELSE u

WithCaps(u, on) == IF Caps \in on /\ u >= 97 THEN Shifted(u) ELSE u

WithShift(u, down) == IF down \cap Shifts # {} /\ u >= 40 THEN Shifted(u) ELSE u

\* 'a'..'}' to upper case, then 0x40..0x5F to the control codes.
WithCtrl(u, down) ==
  LET upper == IF u \in 97..125 THEN u - 32 ELSE u
  IN IF down \cap Ctrls = {} THEN u
     ELSE IF upper \in 64..95 THEN upper % 32 ELSE upper

\* The character of a key, 0 for none, with the state the thread keeps.
Unicode(k, down, on) ==
  IF k \notin Characters \/ (k \in Keypad /\ Num \notin on) THEN 0
  ELSE WithCtrl(WithShift(WithCaps(us_querty[k], on), down), down)

Toggled(k) == SymDiff(toggle_keys, {k} \cap Locks)

\* The entry is handled, with Toggled's locks for a press: a lock key goes on
\* to keyboard_update_leds.
Handle ==
  /\ pc = "handle"
  /\ LET k == keycode.key
         press == ~keycode.released
     IN /\ press_keys' = AfterKey(k)
        /\ toggle_keys' = IF press THEN Toggled(k) ELSE toggle_keys
        /\ LET u == Unicode(k, press_keys, toggle_keys)
           IN typed' = IF press /\ u # 0 THEN Append(typed, u) ELSE typed
        /\ pc' = IF press /\ k \in Locks THEN "leds" ELSE "wait"
  /\ reg' = -1 /\ keycode' = NoKey
  /\ UNCHANGED <<hardware, extended, queue, tries>>

\* keyboard_update_leds sends to the second port, where no keyboard need be,
\* and polls the controller for an ACK, up to three times.  It may be given
\* the byte of a key before the interrupt handler can read it.
UpdateLeds ==
  /\ pc = "leds"
  /\ \E reply \in {"ack", "nothing", "scancode"} :
       /\ IF reply = "scancode"
          THEN ~Patient /\ wire # <<>> /\ wire' = Tail(wire)
          ELSE wire' = wire
       /\ IF reply = "ack" \/ tries = 2 THEN pc' = "wait" /\ tries' = 0
                                        ELSE pc' = pc /\ tries' = tries + 1
  /\ UNCHANGED <<held, events, meant, lit, extended, queue, press_keys,
                 toggle_keys, reg, keycode, typed>>

Next == \/ \E k \in Keys : KeyEvent(k)
        \/ KeyIrq \/ ReadTop \/ StoreTop \/ Handle \/ UpdateLeds

Spec == Init /\ [][Next]_vars
FairSpec == /\ Spec /\ WF_vars(KeyIrq)
            /\ WF_vars(ReadTop \/ StoreTop \/ Handle \/ UpdateLeds)

------------------------------------------------------------------------------
(* Properties                                                              *)

Keycode == [key : Keys, released : BOOLEAN]

\* The stack pointer never leaves the stack, and the decoder its states.
TypeOK ==
  /\ wire \in Seq({E0, E1} \cup [prefix : {0}, key : Keys, released : BOOLEAN])
  /\ held \in SUBSET Keys /\ events \in 0..MaxKeys
  /\ extended \in 0..5 /\ top \in -1..(StackSize - 1)
  /\ keycode_stack \in [0..(StackSize - 1) -> Keycode]
  /\ press_keys \in SUBSET Modifiers /\ toggle_keys \in SUBSET Locks
  /\ pc \in {"wait", "pop", "handle", "leds"} /\ tries \in 0..2
  /\ lit \in SUBSET Locks /\ typed \in Seq(1..127) /\ reg \in -1..(StackSize - 1)
  /\ keycode \in Keycode

\* Everything the keyboard sent has been decoded and handled.
Settled == wire = <<>> /\ top = -1 /\ pc = "wait"

\* "press_keys; // Bits: ... 1 - L. Ctrl, 2 - L. Alt, 3 - L. Shift, ..."
\* (keyboard.c:60): once every key has been handled, the bits that are set
\* are those of the modifiers that are down, and of the locks that were turned
\* on and not off again.
ModifiersAreThoseHeld ==
  Settled => press_keys = held \cap Modifiers /\ toggle_keys = lit

\* Characters are printed in the order they were pressed in, each with the
\* modifiers and locks of the moment it was pressed, and none is lost.
TypedAsPressed ==
  Settled => typed = meant

\* Once the typist stops, every byte is decoded and handled at last.
EventuallySettled == <>[]Settled
==============================================================================
