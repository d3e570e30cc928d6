---------------------------- MODULE Keyboard_proofs ----------------------------
(***************************************************************************)
(* Theorems about Keyboard, for any keys, any number of key events and any *)
(* table of unshifted codes, when interrupts come while the thread waits   *)
(* for a key.  Without that they are false: the run keyboard_burst shows   *)
(* it.                                                                     *)
(***************************************************************************)
EXTENDS Keyboard, SequenceTheorems, TLAPS

------------------------------------------------------------------------------
(***************************************************************************)
(* The inductive invariant: decoding and handling what is on its way leads *)
(* to the modifiers that are held, the locks that are lit and the text     *)
(* that was meant.                                                         *)

Code == {E0, E1} \cup [prefix : {0}, key : Keys, released : BOOLEAN]

\* The decoder and the thread as one: its modifiers, locks and text.
State == [mode : 0..5, down : SUBSET Modifiers, on : SUBSET Locks, text : Seq(1..127)]

\* A keycode has been handled.
Handled(a, k, rel) ==
  LET u == Unicode(k, a.down, a.on)
  IN [mode |-> a.mode,
      down |-> IF rel THEN a.down \ {k} ELSE a.down \cup ({k} \cap Modifiers),
      on |-> IF rel THEN a.on ELSE SymDiff(a.on, {k} \cap Locks),
      text |-> IF ~rel /\ u # 0 THEN Append(a.text, u) ELSE a.text]

\* A byte has been read, and the keycode it completes handled.
ModeAfter(m, b) == IF m > 1 THEN m - 1 ELSE IF m = 0 THEN b.prefix ELSE 0
Completes(m, b) == m = 1 \/ (m = 0 /\ b.prefix = 0)
InMode(a, m) == [mode |-> m, down |-> a.down, on |-> a.on, text |-> a.text]
Decoded(a, b) == InMode(a, ModeAfter(a.mode, b))
Read(a, b) == IF Completes(a.mode, b) THEN Handled(Decoded(a, b), b.key, b.released)
              ELSE Decoded(a, b)

\* After E0 comes a key.
Proper(a, b) == a.mode = 1 => b.prefix = 0

\* The bytes of w, read one after the other, take state a to state z.
Steps(r, w) ==
  \A i \in 1..Len(w) : Proper(r[i - 1], w[i]) /\ r[i] = Read(r[i - 1], w[i])
Leads(a, w, z) ==
  \E r \in [0..Len(w) -> State] : r[0] = a /\ Steps(r, w) /\ r[Len(w)] = z

\* Where they are, with the keycode in hand handled, and where they go.
Current == [mode |-> extended, down |-> press_keys, on |-> toggle_keys, text |-> typed]
Ahead == IF pc \in {"pop", "handle"}
         THEN Handled(Current, keycode.key, keycode.released)
         ELSE IF top = 0 THEN Handled(Current, keycode_stack[0].key, keycode_stack[0].released)
         ELSE Current
Goal == [mode |-> 0, down |-> held \cap Modifiers, on |-> lit, text |-> meant]

\* At most one keycode is on the stack.
QueueInv ==
  /\ pc = "wait" => top \in {-1, 0}
  /\ pc = "pop" => top = 0 /\ reg = 0
  /\ pc \in {"handle", "leds"} => top = -1

KeyboardInv == TypeOK /\ QueueInv /\ Leads(Ahead, wire, Goal)

------------------------------------------------------------------------------
(***************************************************************************)
(* The translation.                                                        *)

\* us_querty_shift has a code for every entry.
LEMMA ShiftedCode ==
  ASSUME NEW u \in 40..127
  PROVE  Shifted(u) \in 1..127
<1>1. CASE u < 64
  <2>1. u - 39 \in 1..24 /\ u \notin 65..93 /\ u # 96 /\ u \notin 97..125 BY <1>1
  <2> DEFINE t == <<34, 40, 41, 43, 60, 95, 62, 63, 41, 33, 64, 35,
                    36, 37, 94, 38, 42, 40, 58, 58, 60, 61, 62, 63>>
  <2>2. Shifted(u) = t[u - 39] BY <1>1, <2>1 DEF Shifted
  <2>3. \A i \in 1..24 : t[i] \in 1..127 OBVIOUS
  <2> QED BY <2>1, <2>2, <2>3
<1>2. CASE u >= 64
  <2>1. CASE u \in 65..93
    <3>1. Shifted(u) = u + 32 BY <1>2, <2>1 DEF Shifted
    <3> QED BY <2>1, <3>1
  <2>2. CASE u = 96
    <3>1. Shifted(u) = 126 BY <2>2 DEF Shifted
    <3> QED BY <3>1
  <2>3. CASE u \in 97..125
    <3>1. Shifted(u) = u - 32 BY <1>2, <2>3 DEF Shifted
    <3> QED BY <2>3, <3>1
  <2>4. CASE u \notin 65..93 /\ u # 96 /\ u \notin 97..125
    <3>1. Shifted(u) = u BY <1>2, <2>4 DEF Shifted
    <3> QED BY <1>2, <3>1
  <2> QED BY <2>1, <2>2, <2>3, <2>4
<1> QED BY <1>1, <1>2

\* Caps Lock, Shift and Ctrl, applied one after the other as keycode_handler
\* does, give the character that is meant.
LEMMA UnicodeIs ==
  ASSUME NEW k, NEW down, NEW on
  PROVE  /\ Unicode(k, down, on) \in 0..127
         /\ k \notin Characters => Unicode(k, down, on) = 0
         /\ k \in Characters =>
              Meant(k, down, on) = IF Unicode(k, down, on) = 0 THEN <<>>
                                   ELSE <<Unicode(k, down, on)>>
<1>1. k \notin Characters => Unicode(k, down, on) = 0 BY DEF Unicode
<1>2. ASSUME k \in Characters
      PROVE  /\ Unicode(k, down, on) \in 0..127
             /\ Meant(k, down, on) = IF Unicode(k, down, on) = 0 THEN <<>>
                                     ELSE <<Unicode(k, down, on)>>
  <2> DEFINE u == us_querty[k]
             shift == down \cap Shifts # {}
             ctrl == down \cap Ctrls # {}
             char == IF u \in 97..122 THEN IF shift # (Caps \in on) THEN u - 32 ELSE u
                     ELSE IF shift /\ u >= 40 THEN Shifted(u) ELSE u
             code == IF ctrl /\ char \in 64..125 \ {96} THEN char % 32 ELSE char
             c == WithCaps(u, on)
             s == WithShift(c, down)
  <2>1. u \in 1..122 BY <1>2, KeyboardAssumption
  <2>2. u \in 97..122 => Shifted(u) = u - 32 BY <2>1 DEF Shifted
  <2>3. u \in 97..122 => Shifted(u - 32) = u
    <3> SUFFICES ASSUME u \in 97..122 PROVE Shifted(u - 32) = u OBVIOUS
    <3>1. u - 32 \in 65..93 /\ ~(u - 32 < 64) /\ (u - 32) + 32 = u BY <2>1
    <3> HIDE DEF u
    <3> QED BY <3>1 DEF Shifted
  <2>4. c = IF Caps \in on /\ u \in 97..122 THEN u - 32 ELSE u
    <3> HIDE DEF u
    <3> QED BY <2>1, <2>2 DEF WithCaps
  <2>5. s = char
    <3>1. s = IF shift /\ c >= 40 THEN Shifted(c) ELSE c BY DEF WithShift
    <3> HIDE DEF u, c, s, shift
    <3>2. CASE u \in 97..122
      <4>1. u >= 40 /\ u - 32 >= 40 BY <2>1, <3>2
      <4>2. CASE Caps \in on
        <5>1. c = u - 32 BY <2>4, <3>2, <4>2
        <5>2. s = IF shift THEN u ELSE u - 32 BY <2>3, <3>1, <3>2, <4>1, <5>1
        <5> QED BY <3>2, <4>2, <5>2 DEF shift
      <4>3. CASE Caps \notin on
        <5>1. c = u BY <2>4, <4>3
        <5>2. s = IF shift THEN u - 32 ELSE u BY <2>2, <3>1, <3>2, <4>1, <5>1
        <5> QED BY <3>2, <4>3, <5>2 DEF shift
      <4> QED BY <4>2, <4>3
    <3>3. CASE u \notin 97..122 BY <2>4, <3>1, <3>3
    <3> QED BY <3>2, <3>3
  <2>6. char \in 1..127
    <3> HIDE DEF u, shift
    <3>1. u \in 97..122 => u - 32 \in 1..127 BY <2>1
    <3>2. u >= 40 => Shifted(u) \in 1..127 BY <2>1, ShiftedCode
    <3> QED BY <2>1, <3>1, <3>2
  <2>7. WithCtrl(s, down) = code
    <3> DEFINE up == IF s \in 97..125 THEN s - 32 ELSE s
    <3>1. WithCtrl(s, down) = IF ~ctrl THEN s
                              ELSE IF up \in 64..95 THEN up % 32 ELSE up
      BY DEF WithCtrl
    <3> HIDE DEF s, char, ctrl
    <3>2. s \in 1..127 BY <2>5, <2>6
    <3>3. CASE ~ctrl BY <2>5, <3>1, <3>3
    <3>4. CASE ctrl /\ s \in 97..125
      <4>1. up = s - 32 /\ up \in 64..95 /\ s \in 64..125 \ {96} BY <3>2, <3>4
      <4>2. (s - 32) % 32 = s % 32 BY <3>2, <3>4
      <4> QED BY <2>5, <3>1, <3>4, <4>1, <4>2
    <3>5. CASE ctrl /\ s \notin 97..125
      <4>1. up = s /\ (s \in 64..95 <=> s \in 64..125 \ {96}) BY <3>2, <3>5
      <4> QED BY <2>5, <3>1, <3>5, <4>1
    <3> QED BY <3>3, <3>4, <3>5
  <2>8. code \in 0..127
    <3> HIDE DEF char, ctrl
    <3> QED BY <2>6
  <2>9. Unicode(k, down, on) = IF k \in Keypad /\ Num \notin on THEN 0 ELSE code
    <3> HIDE DEF code, s, c, u
    <3> USE DEF s, c, u
    <3> QED BY <1>2, <2>7 DEF Unicode
  <2>10. Meant(k, down, on) =
           IF (k \in Keypad /\ Num \notin on) \/ code = 0 THEN <<>> ELSE <<code>>
    BY DEF Meant
  <2> HIDE DEF code
  <2> QED BY <2>8, <2>9, <2>10
<1> QED BY <1>1, <1>2

------------------------------------------------------------------------------
(***************************************************************************)
(* States and the bytes that lead from one to another.                     *)

\* E0 and E1 are prefixes, and the other bytes none.
LEMMA Prefixes ==
  ASSUME NEW b \in Code
  PROVE  /\ b.prefix \in {0, 1, 5}
         /\ b.prefix = 0 => b.key \in Keys /\ b.released \in BOOLEAN
<1>1. CASE b \in {E0, E1} BY <1>1 DEF E0, E1
<1>2. CASE b \notin {E0, E1} BY <1>2 DEF Code
<1> QED BY <1>1, <1>2

\* Handling a keycode gives a state.
LEMMA HandledIs ==
  ASSUME NEW a \in State, NEW k, NEW rel \in BOOLEAN
  PROVE  Handled(a, k, rel) \in State
<1> DEFINE u == Unicode(k, a.down, a.on)
<1>1. u \in 0..127 BY UnicodeIs
<1>2. ASSUME u # 0 PROVE Append(a.text, u) \in Seq(1..127)
  <2> HIDE DEF u
  <2>1. u \in 1..127 BY <1>1, <1>2
  <2> QED BY <2>1 DEF State
<1>3. SymDiff(a.on, {k} \cap Locks) \in SUBSET Locks BY DEF State, SymDiff
<1> HIDE DEF u
<1> QED BY <1>2, <1>3 DEF Handled, State, u

\* So does reading a byte.
LEMMA ReadIs ==
  ASSUME NEW a \in State, NEW b \in Code, Proper(a, b)
  PROVE  Read(a, b) \in State
<1>1. Decoded(a, b) \in State
  <2>1. ModeAfter(a.mode, b) \in 0..5 BY Prefixes DEF ModeAfter, State
  <2> QED BY <2>1 DEF Decoded, InMode, State
<1>2. Completes(a.mode, b) => b.released \in BOOLEAN
  BY Prefixes DEF Completes, Proper
<1> QED BY <1>1, <1>2, HandledIs DEF Read

\* Nothing is left to be read.
LEMMA LeadsNowhere ==
  ASSUME NEW a \in State, NEW z
  PROVE  Leads(a, <<>>, z) <=> a = z
<1>1. Len(<<>>) = 0 OBVIOUS
<1>2. ASSUME a = z PROVE Leads(a, <<>>, z)
  <2> DEFINE r == [i \in 0..0 |-> a]
  <2>1. r \in [0..0 -> State] /\ r[0] = a OBVIOUS
  <2> HIDE DEF r
  <2>2. Steps(r, <<>>) BY <1>1 DEF Steps
  <2> QED BY <1>1, <1>2, <2>1, <2>2 DEF Leads
<1>3. Leads(a, <<>>, z) => a = z BY <1>1 DEF Leads
<1> QED BY <1>2, <1>3

\* One more byte is sent.
LEMMA LeadsOn ==
  ASSUME NEW a, NEW w \in Seq(Code), NEW y, Leads(a, w, y),
         NEW b \in Code, Proper(y, b)
  PROVE  y \in State /\ Leads(a, Append(w, b), Read(y, b))
<1> DEFINE n == Len(w)
           v == Append(w, b)
<1>1. PICK r \in [0..n -> State] : r[0] = a /\ Steps(r, w) /\ r[n] = y BY DEF Leads
<1>2. n \in Nat /\ Len(v) = n + 1 /\ v[n + 1] = b /\ \A i \in 1..n : v[i] = w[i]
  OBVIOUS
<1>3. y \in State BY <1>1, <1>2
<1> DEFINE q == [i \in 0..(n + 1) |-> IF i <= n THEN r[i] ELSE Read(y, b)]
<1>4. q \in [0..(n + 1) -> State] BY <1>1, <1>2, <1>3, ReadIs
<1>5. q[n + 1] = Read(y, b) /\ \A i \in 0..n : q[i] = r[i] BY <1>2
<1> HIDE DEF n, v, q
<1>6. q[0] = a BY <1>1, <1>2, <1>5
<1>7. Steps(q, v)
  <2> SUFFICES ASSUME NEW i \in 1..(n + 1)
               PROVE  Proper(q[i - 1], v[i]) /\ q[i] = Read(q[i - 1], v[i])
    BY <1>2 DEF Steps
  <2>1. CASE i <= n
    <3>1. i \in 1..n /\ i \in 0..n /\ i - 1 \in 0..n BY <1>2, <2>1
    <3>2. Proper(r[i - 1], w[i]) /\ r[i] = Read(r[i - 1], w[i])
      BY <1>1, <3>1 DEF Steps, n
    <3> QED BY <1>2, <1>5, <3>1, <3>2
  <2>2. CASE i = n + 1
    <3>1. i - 1 = n /\ n \in 0..n BY <1>2, <2>2
    <3>2. q[i - 1] = y BY <1>1, <1>5, <3>1
    <3> QED BY <1>2, <1>5, <2>2, <3>2
  <2> QED BY <1>2, <2>1, <2>2
<1> QED BY <1>2, <1>3, <1>4, <1>5, <1>6, <1>7 DEF Leads, v

\* The first byte is delivered.
LEMMA LeadsFrom ==
  ASSUME NEW a, NEW w \in Seq(Code), w # <<>>, NEW z, Leads(a, w, z)
  PROVE  /\ a \in State /\ Head(w) \in Code /\ Tail(w) \in Seq(Code)
         /\ Proper(a, Head(w)) /\ Leads(Read(a, Head(w)), Tail(w), z)
<1> DEFINE n == Len(w)
           v == Tail(w)
<1>1. PICK r \in [0..n -> State] : r[0] = a /\ Steps(r, w) /\ r[n] = z BY DEF Leads
<1>2. /\ n \in Nat /\ n >= 1 /\ v \in Seq(Code) /\ Len(v) = n - 1
      /\ \A i \in 1..(n - 1) : v[i] = w[i + 1]
      /\ Head(w) = w[1] /\ w[1] \in Code
  OBVIOUS
<1> DEFINE q == [i \in 0..(n - 1) |-> r[i + 1]]
<1>3. q \in [0..(n - 1) -> State] /\ \A i \in 0..(n - 1) : q[i] = r[i + 1]
  BY <1>1, <1>2
<1> HIDE DEF n, v, q
<1>4. a \in State BY <1>1, <1>2
<1>5. Proper(a, w[1]) /\ q[0] = Read(a, w[1])
  <2>1. 1 \in 1..n /\ 0 \in 0..(n - 1) BY <1>2
  <2> QED BY <1>1, <1>3, <2>1 DEF Steps, n
<1>6. q[n - 1] = z BY <1>1, <1>2, <1>3
<1>7. Steps(q, v)
  <2> SUFFICES ASSUME NEW i \in 1..(n - 1)
               PROVE  Proper(q[i - 1], v[i]) /\ q[i] = Read(q[i - 1], v[i])
    BY <1>2 DEF Steps
  <2>1. i + 1 \in 1..n /\ i \in 0..(n - 1) /\ i - 1 \in 0..(n - 1)
        /\ (i + 1) - 1 = i /\ (i - 1) + 1 = i
    BY <1>2
  <2>2. Proper(r[i], w[i + 1]) /\ r[i + 1] = Read(r[i], w[i + 1])
    BY <1>1, <2>1 DEF Steps, n
  <2> QED BY <1>2, <1>3, <2>1, <2>2
<1>8. Leads(Read(a, w[1]), v, z) BY <1>2, <1>3, <1>5, <1>6, <1>7 DEF Leads
<1> QED BY <1>2, <1>4, <1>5, <1>8 DEF v
------------------------------------------------------------------------------
(***************************************************************************)
(* The keyboard.                                                           *)

\* What a key event leaves to be reached.
GoalAfter(k) ==
  [mode |-> 0, down |-> (IF k \in held THEN held \ {k} ELSE held \cup {k}) \cap Modifiers,
   on |-> IF k \in Locks \ held THEN SymDiff(lit, {k}) ELSE lit,
   text |-> IF k \in Characters \ held THEN meant \o Meant(k, held, lit) ELSE meant]

\* The keycode of a key that goes down or up does what the key event means.
LEMMA EventHandled ==
  ASSUME TypeOK, Goal \in State, NEW k \in Keys \ {Pause},
         NEW rel \in BOOLEAN, rel <=> k \in held
  PROVE  Handled(Goal, k, rel) = GoalAfter(k)
<1> DEFINE D == held \cap Modifiers
           u == Unicode(k, D, lit)
<1>1. Handled(Goal, k, rel) =
        [mode |-> 0,
         down |-> IF k \in held THEN D \ {k} ELSE D \cup ({k} \cap Modifiers),
         on |-> IF k \in held THEN lit ELSE SymDiff(lit, {k} \cap Locks),
         text |-> IF k \notin held /\ u # 0 THEN Append(meant, u) ELSE meant]
  BY DEF Handled, Goal
<1>2. (IF k \in held THEN D \ {k} ELSE D \cup ({k} \cap Modifiers))
      = (IF k \in held THEN held \ {k} ELSE held \cup {k}) \cap Modifiers
  OBVIOUS
<1>3. (IF k \in held THEN lit ELSE SymDiff(lit, {k} \cap Locks))
      = (IF k \in Locks \ held THEN SymDiff(lit, {k}) ELSE lit)
  <2>1. k \in Locks => {k} \cap Locks = {k} OBVIOUS
  <2>2. k \notin Locks => {k} \cap Locks = {} OBVIOUS
  <2>3. SymDiff(lit, {}) = lit BY DEF SymDiff
  <2> QED BY <2>1, <2>2, <2>3
<1>4. (IF k \notin held /\ u # 0 THEN Append(meant, u) ELSE meant)
      = (IF k \in Characters \ held THEN meant \o Meant(k, held, lit) ELSE meant)
  <2>1. Meant(k, held, lit) = Meant(k, D, lit)
    <3>1. held \cap Shifts = D \cap Shifts /\ held \cap Ctrls = D \cap Ctrls
      BY DEF Modifiers
    <3> DEFINE M(S, C) ==
                 LET v == us_querty[k]
                     char == IF v \in 97..122
                             THEN IF (S # {}) # (Caps \in lit) THEN v - 32 ELSE v
                             ELSE IF S # {} /\ v >= 40 THEN Shifted(v) ELSE v
                     code == IF C # {} /\ char \in 64..125 \ {96} THEN char % 32 ELSE char
                 IN  IF (k \in Keypad /\ Num \notin lit) \/ code = 0 THEN <<>> ELSE <<code>>
    <3>2. Meant(k, held, lit) = M(held \cap Shifts, held \cap Ctrls) BY DEF Meant
    <3>3. Meant(k, D, lit) = M(D \cap Shifts, D \cap Ctrls) BY DEF Meant
    <3> HIDE DEF M, D
    <3> QED BY <3>1, <3>2, <3>3
  <2>2. /\ u \in 0..127
        /\ k \notin Characters => u = 0
        /\ k \in Characters => Meant(k, D, lit) = IF u = 0 THEN <<>> ELSE <<u>>
    BY UnicodeIs
  <2>3. meant \in Seq(1..127) BY DEF Goal, State
  <2> HIDE DEF u, D
  <2>4. meant \o <<>> = meant BY <2>3
  <2>5. u # 0 => meant \o <<u>> = Append(meant, u) BY <2>2, <2>3
  <2>6. CASE k \in held BY <2>6
  <2>7. CASE k \notin held /\ k \notin Characters
    <3>1. u = 0 /\ k \notin Characters \ held BY <2>2, <2>7
    <3> QED BY <3>1
  <2>8. CASE k \notin held /\ k \in Characters
    <3>1. CASE u = 0
      <4>1. Meant(k, held, lit) = <<>> BY <2>1, <2>2, <2>8, <3>1
      <4> QED BY <2>4, <2>8, <3>1, <4>1
    <3>2. CASE u # 0
      <4>1. Meant(k, held, lit) = <<u>> BY <2>1, <2>2, <2>8, <3>2
      <4> QED BY <2>5, <2>8, <3>2, <4>1
    <3> QED BY <3>1, <3>2
  <2> QED BY <2>6, <2>7, <2>8
<1> HIDE DEF D, u
<1> QED BY <1>1, <1>2, <1>3, <1>4 DEF GoalAfter

\* A list of bytes sent one after the other.
LEMMA SentOn ==
  ASSUME NEW w \in Seq(Code), NEW s \in Seq(Code), NEW b \in Code
  PROVE  w \o Append(s, b) = Append(w \o s, b)
OBVIOUS

\* The bytes of a key lead to what it means.
LEMMA EventLeads ==
  ASSUME TypeOK, Leads(Ahead, wire, Goal), NEW k \in Keys,
         NEW rel \in BOOLEAN, rel <=> k \in held
  PROVE  LET v == wire \o Bytes(k, rel)
         IN  v \in Seq(Code) /\ Leads(Ahead, v, GoalAfter(k))
<1>1. wire \in Seq(Code) BY DEF TypeOK, Code
<1>2. /\ E0 \in Code /\ E1 \in Code
      /\ \A r \in BOOLEAN : Byte(k, r) \in Code
  BY DEF Code, Byte
<1>3. Goal \in State
  <2>1. PICK r \in [0..Len(wire) -> State] : r[Len(wire)] = Goal BY DEF Leads
  <2>2. Len(wire) \in 0..Len(wire) BY <1>1
  <2> QED BY <2>1, <2>2
<1>4. CASE k # Pause
  <2> DEFINE b == Byte(k, rel)
  <2>1. b.prefix = 0 /\ b.key = k /\ b.released = rel BY DEF Byte
  <2>2. Handled(Goal, k, rel) = GoalAfter(k) BY <1>3, <1>4, EventHandled
  <2>3. CASE k \notin Extended
    <3>1. Bytes(k, rel) = <<b>>
      <4>1. Bytes(k, rel) = <<>> \o <<b>> BY <1>4, <2>3 DEF Bytes
      <4> HIDE DEF b
      <4> QED BY <4>1
    <3>2. Proper(Goal, b) /\ Read(Goal, b) = GoalAfter(k)
      <4>1. Completes(Goal.mode, b) /\ ModeAfter(Goal.mode, b) = 0 /\ Goal.mode = 0
        BY <2>1 DEF Goal, Completes, ModeAfter
      <4>2. Decoded(Goal, b) = Goal BY <4>1 DEF Decoded, InMode, Goal
      <4> QED BY <2>1, <2>2, <4>1, <4>2 DEF Read, Proper
    <3>3. wire \o <<b>> = Append(wire, b) BY <1>1, <1>2
    <3> HIDE DEF b
    <3>4. b \in Code BY <1>2 DEF b
    <3>5. Append(wire, b) \in Seq(Code) BY <1>1, <3>4
    <3>6. Leads(Ahead, Append(wire, b), GoalAfter(k))
      BY <1>1, <3>2, <3>4, LeadsOn
    <3> QED BY <3>1, <3>3, <3>5, <3>6
  <2>4. CASE k \in Extended
    <3> DEFINE a == InMode(Goal, 1)
               v == Append(wire, E0)
    <3>1. Bytes(k, rel) = <<E0, b>>
      <4>1. Bytes(k, rel) = <<E0>> \o <<b>> BY <1>4, <2>4 DEF Bytes
      <4>2. E0 \in Code /\ b \in Code BY <1>2
      <4> HIDE DEF b
      <4>3. <<E0>> \o <<b>> = Append(<<E0>>, b) BY <4>2
      <4>4. <<E0, b>> = Append(<<E0>>, b) OBVIOUS
      <4> QED BY <4>1, <4>3, <4>4
    <3>2. Proper(Goal, E0) /\ Read(Goal, E0) = a
      BY DEF Read, Proper, Decoded, InMode, Goal, Completes, ModeAfter, E0
    <3>3. v \in Seq(Code) /\ Leads(Ahead, v, a) BY <1>1, <1>2, <3>2, LeadsOn
    <3>4. Proper(a, b) /\ Read(a, b) = GoalAfter(k)
      <4>1. Completes(a.mode, b) /\ ModeAfter(a.mode, b) = 0
        BY <2>1 DEF InMode, Completes, ModeAfter
      <4>2. Decoded(a, b) = Goal BY <4>1 DEF Decoded, InMode, Goal
      <4> QED BY <2>1, <2>2, <4>1, <4>2 DEF Read, Proper
    <3>5. b \in Code BY <1>2
    <3> HIDE DEF b, a
    <3>6. wire \o <<E0, b>> = Append(v, b)
      <4>1. <<E0, b>> = Append(<<E0>>, b) /\ wire \o <<E0>> = Append(wire, E0)
        BY <1>1
      <4> QED BY <1>1, <1>2, <3>5, <4>1, SentOn
    <3>7. Append(v, b) \in Seq(Code) BY <3>3, <3>5
    <3> HIDE DEF v
    <3>8. Leads(Ahead, Append(v, b), GoalAfter(k)) BY <3>3, <3>4, <3>5, LeadsOn
    <3> QED BY <3>1, <3>6, <3>7, <3>8
  <2> QED BY <2>3, <2>4
<1>5. CASE k = Pause
  <2>1. GoalAfter(k) = Goal
    <3>1. Pause \notin Modifiers /\ Pause \notin Locks /\ Pause \notin Characters
      BY KeyboardAssumption
    <3> QED BY <1>5, <3>1 DEF GoalAfter, Goal
  <2>2. CASE rel
    <3>1. wire \o Bytes(k, rel) = wire BY <1>1, <1>5, <2>2 DEF Bytes
    <3> QED BY <1>1, <2>1, <3>1
  <2>3. CASE ~rel
    <3> DEFINE p == Byte(k, FALSE)
               q == Byte(k, TRUE)
               M(m) == InMode(Goal, m)
    <3>1. /\ p \in Code /\ q \in Code /\ E1 \in Code
          /\ p.prefix = 0 /\ q.prefix = 0 /\ q.key = k /\ q.released = TRUE
          /\ E1.prefix = 5
      BY <1>2 DEF Byte, E1
    <3>2. Proper(Goal, E1) /\ Read(Goal, E1) = M(5)
      BY <3>1 DEF Read, Proper, Decoded, InMode, Goal, Completes, ModeAfter
    <3>3. ASSUME NEW m \in 2..5, NEW b \in Code
          PROVE  Proper(M(m), b) /\ Read(M(m), b) = M(m - 1)
      <4>1. M(m).mode = m BY DEF InMode
      <4>2. ~Completes(m, b) /\ ModeAfter(m, b) = m - 1 BY DEF Completes, ModeAfter
      <4>3. Decoded(M(m), b) = M(m - 1) BY <4>1, <4>2 DEF Decoded, InMode, Goal
      <4> QED BY <4>1, <4>2, <4>3 DEF Read, Proper
    <3>4. Proper(M(1), q) /\ Read(M(1), q) = Goal
      <4>1. M(1).mode = 1 /\ ModeAfter(1, q) = 0 /\ Completes(1, q)
        BY DEF InMode, Completes, ModeAfter
      <4>2. Decoded(M(1), q) = Goal BY <4>1 DEF Decoded, InMode, Goal
      <4>3. Handled(Goal, k, TRUE) = Goal
        <5>1. Pause \notin Modifiers BY KeyboardAssumption
        <5> QED BY <1>5, <5>1 DEF Handled, Goal
      <4> QED BY <3>1, <4>1, <4>2, <4>3 DEF Read, Proper
    <3>5. Bytes(k, rel) = <<E1, p, p, E1, q, q>> BY <1>5, <2>3 DEF Bytes
    <3> DEFINE w1 == Append(wire, E1)
               w2 == Append(w1, p)
               w3 == Append(w2, p)
               w4 == Append(w3, E1)
               w5 == Append(w4, q)
               w6 == Append(w5, q)
    <3> HIDE DEF p, q, M
    <3>6. w1 \in Seq(Code) /\ Leads(Ahead, w1, M(5)) BY <1>1, <3>1, <3>2, LeadsOn
    <3>7. w2 \in Seq(Code) /\ Leads(Ahead, w2, M(4))
      <4>1. Proper(M(5), p) /\ Read(M(5), p) = M(4) BY <3>1, <3>3
      <4> HIDE DEF w1
      <4> QED BY <3>1, <3>6, <4>1, LeadsOn
    <3>8. w3 \in Seq(Code) /\ Leads(Ahead, w3, M(3))
      <4>1. Proper(M(4), p) /\ Read(M(4), p) = M(3) BY <3>1, <3>3
      <4> HIDE DEF w2
      <4> QED BY <3>1, <3>7, <4>1, LeadsOn
    <3>9. w4 \in Seq(Code) /\ Leads(Ahead, w4, M(2))
      <4>1. Proper(M(3), E1) /\ Read(M(3), E1) = M(2) BY <3>1, <3>3
      <4> HIDE DEF w3
      <4> QED BY <3>1, <3>8, <4>1, LeadsOn
    <3>10. w5 \in Seq(Code) /\ Leads(Ahead, w5, M(1))
      <4>1. Proper(M(2), q) /\ Read(M(2), q) = M(1) BY <3>1, <3>3
      <4> HIDE DEF w4
      <4> QED BY <3>1, <3>9, <4>1, LeadsOn
    <3>11. w6 \in Seq(Code) /\ Leads(Ahead, w6, Goal)
      <4> HIDE DEF w5
      <4> QED BY <3>1, <3>4, <3>10, LeadsOn
    <3>12. wire \o <<E1, p, p, E1, q, q>> = w6
      <4>1. wire \o <<E1>> = w1 BY <1>1
      <4>2. wire \o <<E1, p>> = w2
        <5>1. <<E1, p>> = Append(<<E1>>, p) OBVIOUS
        <5> QED BY <1>1, <3>1, <4>1, <5>1, SentOn
      <4>3. wire \o <<E1, p, p>> = w3
        <5>1. <<E1, p, p>> = Append(<<E1, p>>, p) OBVIOUS
        <5> QED BY <1>1, <3>1, <4>2, <5>1, SentOn
      <4>4. wire \o <<E1, p, p, E1>> = w4
        <5>1. <<E1, p, p, E1>> = Append(<<E1, p, p>>, E1) OBVIOUS
        <5> QED BY <1>1, <3>1, <4>3, <5>1, SentOn
      <4>5. wire \o <<E1, p, p, E1, q>> = w5
        <5>1. <<E1, p, p, E1, q>> = Append(<<E1, p, p, E1>>, q) OBVIOUS
        <5> QED BY <1>1, <3>1, <4>4, <5>1, SentOn
      <4>6. <<E1, p, p, E1, q, q>> = Append(<<E1, p, p, E1, q>>, q) OBVIOUS
      <4>7. <<E1, p, p, E1, q>> \in Seq(Code) BY <3>1
      <4>8. wire \o <<E1, p, p, E1, q, q>> = Append(wire \o <<E1, p, p, E1, q>>, q)
        BY <1>1, <3>1, <4>6, <4>7, SentOn
      <4> QED BY <4>5, <4>8
    <3> HIDE DEF w6
    <3> QED BY <2>1, <3>5, <3>11, <3>12
  <2> QED BY <2>2, <2>3
<1> QED BY <1>4, <1>5

------------------------------------------------------------------------------
(***************************************************************************)
(* Each step keeps the invariant.                                          *)

\* What a run begins with.
LEMMA InitHolds == Init => KeyboardInv
<1> SUFFICES ASSUME Init PROVE KeyboardInv OBVIOUS
<1>1. StackSize \in Nat \ {0} /\ MaxKeys \in Nat BY KeyboardAssumption
<1>2. NoKey \in Keycode BY DEF NoKey, Keycode, Keys
<1>3. TypeOK
  <2>1. keycode_stack \in [0..(StackSize - 1) -> Keycode] BY <1>2 DEF Init
  <2>2. 0 \in 0..MaxKeys /\ -1 \in -1..(StackSize - 1) BY <1>1
  <2> QED BY <1>2, <2>1, <2>2 DEF Init, TypeOK
<1>4. QueueInv BY DEF Init, QueueInv
<1>5. Ahead = Goal BY DEF Init, Ahead, Goal, Current
<1>6. Goal \in State BY DEF Init, Goal, State
<1>7. Leads(Ahead, wire, Goal)
  <2>1. wire = <<>> BY DEF Init
  <2> QED BY <1>5, <1>6, <2>1, LeadsNowhere
<1> QED BY <1>3, <1>4, <1>7 DEF KeyboardInv

\* A key goes down or up: its bytes lead from what was meant before to what is
\* meant now.
LEMMA KeyEventKeeps ==
  ASSUME KeyboardInv, NEW k \in Keys, KeyEvent(k)
  PROVE  KeyboardInv'
<1> DEFINE rel == k \in held
           v == wire \o Bytes(k, rel)
<1>1. TypeOK /\ QueueInv /\ Leads(Ahead, wire, Goal) BY DEF KeyboardInv
<1>2. v \in Seq(Code) /\ Leads(Ahead, v, GoalAfter(k))
  <2>1. CASE k \in held
    <3>1. v = wire \o Bytes(k, TRUE)
      <4>1. rel = TRUE BY <2>1
      <4> HIDE DEF rel
      <4> QED BY <4>1
    <3>2. LET w == wire \o Bytes(k, TRUE)
          IN  w \in Seq(Code) /\ Leads(Ahead, w, GoalAfter(k))
      BY <1>1, <2>1, EventLeads
    <3> QED BY <3>1, <3>2
  <2>2. CASE k \notin held
    <3>1. v = wire \o Bytes(k, FALSE)
      <4>1. rel = FALSE BY <2>2
      <4> HIDE DEF rel
      <4> QED BY <4>1
    <3>2. LET w == wire \o Bytes(k, FALSE)
          IN  w \in Seq(Code) /\ Leads(Ahead, w, GoalAfter(k))
      BY <1>1, <2>2, EventLeads
    <3> QED BY <3>1, <3>2
  <2> QED BY <2>1, <2>2
<1>3. wire' = v BY DEF KeyEvent
<1>4. Goal' = GoalAfter(k) BY DEF KeyEvent, Goal, GoalAfter
<1>5. UNCHANGED <<extended, queue, thread>> BY DEF KeyEvent
<1>6. Ahead' = Ahead BY <1>5 DEF Ahead, Current, queue, thread
<1>7. QueueInv' BY <1>1, <1>5 DEF QueueInv, queue, thread
<1>8. TypeOK'
  <2>1. /\ held' \in SUBSET Keys /\ events' \in 0..MaxKeys /\ lit' \in SUBSET Locks
    <3>1. MaxKeys \in Nat BY KeyboardAssumption
    <3>2. SymDiff(lit, {k}) \subseteq Locks \/ k \notin Locks
      BY <1>1 DEF SymDiff, TypeOK
    <3>3. held' \subseteq Keys BY <1>1 DEF KeyEvent, TypeOK
    <3>4. lit' \subseteq Locks BY <1>1, <3>2 DEF KeyEvent, TypeOK
    <3>5. events' \in 0..MaxKeys BY <1>1, <3>1 DEF KeyEvent, TypeOK
    <3> QED BY <3>3, <3>4, <3>5
  <2>2. wire' \in Seq({E0, E1} \cup [prefix : {0}, key : Keys, released : BOOLEAN])
    BY <1>2, <1>3 DEF Code
  <2> HIDE DEF v
  <2> QED BY <1>1, <1>5, <2>1, <2>2 DEF TypeOK, queue, thread
<1> HIDE DEF v
<1> QED BY <1>2, <1>3, <1>4, <1>6, <1>7, <1>8 DEF KeyboardInv

\* The interrupt handler: the state it leaves, with the keycode it pushed to
\* be handled, is the one after the byte.
LEMMA KeyIrqKeeps ==
  ASSUME Patient, KeyboardInv, KeyIrq
  PROVE  KeyboardInv'
<1> DEFINE b == Head(wire)
<1>1. TypeOK /\ QueueInv /\ Leads(Ahead, wire, Goal) BY DEF KeyboardInv
<1>2. wire \in Seq(Code) /\ wire # <<>> BY <1>1 DEF TypeOK, Code, KeyIrq
<1>3. pc = "wait" /\ top = -1 BY DEF KeyIrq
<1>4. Ahead = Current BY <1>3 DEF Ahead
<1>5. /\ b \in Code /\ Tail(wire) \in Seq(Code) /\ Current \in State
      /\ Proper(Current, b) /\ Leads(Read(Current, b), Tail(wire), Goal)
  BY <1>1, <1>2, <1>4, LeadsFrom
<1> HIDE DEF b
<1>6. /\ wire' = Tail(wire) /\ extended' = ModeAfter(extended, b)
      /\ IF Completes(extended, b)
         THEN /\ top' = top + 1
              /\ keycode_stack' = [keycode_stack EXCEPT ![top + 1] =
                                     [key |-> b.key, released |-> b.released]]
         ELSE UNCHANGED queue
      /\ UNCHANGED <<held, events, meant, lit, thread>>
  BY DEF KeyIrq, NextExtended, IsKey, ModeAfter, Completes, b
<1>7. UNCHANGED <<press_keys, toggle_keys, pc, tries, reg, keycode, typed>>
  BY <1>6 DEF thread
<1>8. Goal' = Goal BY <1>6 DEF Goal
<1>9. Current' = Decoded(Current, b) BY <1>6, <1>7 DEF Current, Decoded, InMode
<1>10. 0 \in 0..(StackSize - 1) BY KeyboardAssumption
<1>11. extended' \in 0..5
  <2>1. extended \in 0..5 /\ b.prefix \in {0, 1, 5} BY <1>1, <1>5, Prefixes DEF TypeOK
  <2> QED BY <1>6, <2>1 DEF ModeAfter
<1>12. CASE Completes(extended, b)
  <2>1. b.key \in Keys /\ b.released \in BOOLEAN
    BY <1>5, <1>12, Prefixes DEF Completes, Proper, Current
  <2>2. top' = 0 /\ keycode_stack' \in [0..(StackSize - 1) -> Keycode]
        /\ keycode_stack'[0] = [key |-> b.key, released |-> b.released]
    <3> DEFINE e == [key |-> b.key, released |-> b.released]
    <3>1. e \in Keycode BY <2>1 DEF Keycode
    <3>2. keycode_stack \in [0..(StackSize - 1) -> Keycode] BY <1>1 DEF TypeOK
    <3>3. top' = 0 /\ keycode_stack' = [keycode_stack EXCEPT ![0] = e]
      BY <1>3, <1>6, <1>12
    <3> HIDE DEF e
    <3>4. keycode_stack' \in [0..(StackSize - 1) -> Keycode] /\ keycode_stack'[0] = e
      BY <1>10, <3>1, <3>2, <3>3
    <3> QED BY <3>3, <3>4 DEF e
  <2>3. Ahead' = Handled(Current', b.key, b.released)
    <3>1. pc' = "wait" BY <1>3, <1>7
    <3> QED BY <2>2, <3>1 DEF Ahead
  <2>4. Ahead' = Read(Current, b)
    <3>1. Current.mode = extended BY DEF Current
    <3> QED BY <1>9, <1>12, <2>3, <3>1 DEF Read
  <2>5. TypeOK'
    BY <1>1, <1>5, <1>6, <1>7, <1>10, <1>11, <2>2 DEF TypeOK, Code
  <2>6. QueueInv' BY <1>3, <1>7, <2>2 DEF QueueInv
  <2> QED BY <1>5, <1>6, <1>8, <2>4, <2>5, <2>6 DEF KeyboardInv
<1>13. CASE ~Completes(extended, b)
  <2>1. UNCHANGED <<keycode_stack, top>> BY <1>6, <1>13 DEF queue
  <2>2. Ahead' = Current' BY <1>3, <1>7, <2>1 DEF Ahead
  <2>3. Ahead' = Read(Current, b)
    <3>1. Current.mode = extended BY DEF Current
    <3> QED BY <1>9, <1>13, <2>2, <3>1 DEF Read
  <2>4. TypeOK' BY <1>1, <1>5, <1>6, <1>7, <1>11, <2>1 DEF TypeOK, Code
  <2>5. QueueInv' BY <1>3, <1>7, <2>1 DEF QueueInv
  <2> QED BY <1>5, <1>6, <1>8, <2>3, <2>4, <2>5 DEF KeyboardInv
<1> QED BY <1>12, <1>13

\* The pop's first step takes the keycode in hand.
LEMMA ReadTopKeeps ==
  ASSUME KeyboardInv, ReadTop
  PROVE  KeyboardInv'
<1>1. TypeOK /\ QueueInv /\ Leads(Ahead, wire, Goal) BY DEF KeyboardInv
<1>2. top = 0 BY <1>1 DEF QueueInv, ReadTop
<1>3. /\ reg' = 0 /\ keycode' = keycode_stack[0] /\ pc' = "pop" /\ pc = "wait"
      /\ UNCHANGED <<wire, held, events, meant, lit, extended, keycode_stack, top,
                     press_keys, toggle_keys, tries, typed>>
  BY <1>2 DEF ReadTop, hardware, queue
<1>4. Goal' = Goal /\ Current' = Current BY <1>3 DEF Goal, Current
<1>5. Ahead' = Ahead BY <1>2, <1>3, <1>4 DEF Ahead
<1>6. QueueInv' BY <1>2, <1>3 DEF QueueInv
<1>7. TypeOK'
  <2>1. 0 \in 0..(StackSize - 1) /\ 0 \in -1..(StackSize - 1) BY KeyboardAssumption
  <2>2. keycode_stack[0] \in Keycode BY <1>1, <2>1 DEF TypeOK
  <2> QED BY <1>1, <1>3, <2>1, <2>2 DEF TypeOK
<1> QED BY <1>1, <1>3, <1>4, <1>5, <1>6, <1>7 DEF KeyboardInv

\* Its second step leaves the stack empty.
LEMMA StoreTopKeeps ==
  ASSUME KeyboardInv, StoreTop
  PROVE  KeyboardInv'
<1>1. TypeOK /\ QueueInv /\ Leads(Ahead, wire, Goal) BY DEF KeyboardInv
<1>2. /\ reg = 0 /\ top' = -1 /\ pc' = "handle" /\ pc = "pop"
      /\ UNCHANGED <<wire, held, events, meant, lit, extended, keycode_stack,
                     press_keys, toggle_keys, tries, typed, reg, keycode>>
  BY <1>1 DEF StoreTop, Popped, hardware, QueueInv
<1>3. Goal' = Goal /\ Current' = Current BY <1>2 DEF Goal, Current
<1>4. Ahead' = Ahead BY <1>2, <1>3 DEF Ahead
<1>5. QueueInv' BY <1>2 DEF QueueInv
<1>6. TypeOK'
  <2>1. -1 \in -1..(StackSize - 1) BY KeyboardAssumption
  <2> QED BY <1>1, <1>2, <2>1 DEF TypeOK
<1> QED BY <1>1, <1>2, <1>3, <1>4, <1>5, <1>6 DEF KeyboardInv

\* What it does to the thread's state is what is expected of the keycode.
LEMMA HandleKeeps ==
  ASSUME KeyboardInv, Handle
  PROVE  KeyboardInv'
<1> DEFINE k == keycode.key
           rel == keycode.released
           H == Handled(Current, k, rel)
<1>1. TypeOK /\ QueueInv /\ Leads(Ahead, wire, Goal) BY DEF KeyboardInv
<1>2. pc = "handle" /\ top = -1 BY <1>1 DEF Handle, QueueInv
<1>3. /\ UNCHANGED <<wire, held, events, meant, lit, extended, keycode_stack, top, tries>>
      /\ pc' \in {"leds", "wait"} /\ reg' = -1 /\ keycode' = NoKey
  BY DEF Handle, hardware, queue
<1>4. Ahead = H BY <1>2 DEF Ahead
<1>5. k \in Keys /\ rel \in BOOLEAN BY <1>1 DEF TypeOK, Keycode
<1>6. Current \in State BY <1>1 DEF Current, State, TypeOK
<1>7. Current' = H
  <2>1. press_keys' = IF rel THEN press_keys \ {k} ELSE press_keys \cup ({k} \cap Modifiers)
    BY DEF Handle, AfterKey
  <2>2. toggle_keys' = IF rel THEN toggle_keys ELSE SymDiff(toggle_keys, {k} \cap Locks)
    BY DEF Handle, Toggled
  <2>3. typed' = IF ~rel /\ Unicode(k, press_keys, toggle_keys) # 0
                 THEN Append(typed, Unicode(k, press_keys, toggle_keys)) ELSE typed
    BY DEF Handle
  <2> HIDE DEF k, rel
  <2> QED BY <1>3, <2>1, <2>2, <2>3 DEF Current, Handled
<1>8. H \in State BY <1>5, <1>6, HandledIs
<1>9. Ahead' = Ahead BY <1>2, <1>3, <1>4, <1>7 DEF Ahead
<1>10. Goal' = Goal BY <1>3 DEF Goal
<1>11. QueueInv' BY <1>2, <1>3 DEF QueueInv
<1>12. TypeOK'
  <2>1. press_keys' \in SUBSET Modifiers /\ toggle_keys' \in SUBSET Locks
        /\ typed' \in Seq(1..127)
    <3>1. Current' \in State BY <1>7, <1>8
    <3> QED BY <3>1 DEF Current, State
  <2>2. NoKey \in Keycode BY DEF NoKey, Keycode, Keys
  <2>3. -1 \in -1..(StackSize - 1) BY KeyboardAssumption
  <2> QED BY <1>1, <1>3, <2>1, <2>2, <2>3 DEF TypeOK
<1> QED BY <1>1, <1>3, <1>9, <1>10, <1>11, <1>12 DEF KeyboardInv

\* The lights are updated by the thread alone.
LEMMA UpdateLedsKeeps ==
  ASSUME Patient, KeyboardInv, UpdateLeds
  PROVE  KeyboardInv'
<1>1. TypeOK /\ QueueInv /\ Leads(Ahead, wire, Goal) BY DEF KeyboardInv
<1>2. pc = "leds" /\ top = -1 BY <1>1 DEF UpdateLeds, QueueInv
<1>3. /\ UNCHANGED <<held, events, meant, lit, extended, keycode_stack, top, press_keys,
                     toggle_keys, reg, keycode, typed, wire>>
      /\ pc' \in {"leds", "wait"} /\ tries' \in 0..2
  <2>1. tries \in 0..2 BY <1>1 DEF TypeOK
  <2>2. PICK reply \in {"ack", "nothing", "scancode"} :
          /\ IF reply = "scancode" THEN ~Patient ELSE wire' = wire
          /\ IF reply = "ack" \/ tries = 2 THEN pc' = "wait" /\ tries' = 0
             ELSE pc' = pc /\ tries' = tries + 1
    BY DEF UpdateLeds
  <2>3. wire' = wire BY <2>2
  <2>4. pc' \in {"leds", "wait"} /\ tries' \in 0..2
    <3>1. CASE reply = "ack" \/ tries = 2 BY <2>2, <3>1
    <3>2. CASE ~(reply = "ack" \/ tries = 2)
      <4>1. pc' = pc /\ tries' = tries + 1 BY <2>2, <3>2
      <4>2. tries + 1 \in 0..2
        <5>1. tries # 2 BY <3>2
        <5> QED BY <2>1, <5>1
      <4> QED BY <1>2, <4>1, <4>2
    <3> QED BY <3>1, <3>2
  <2>5. UNCHANGED <<held, events, meant, lit, extended, queue, press_keys,
                    toggle_keys, reg, keycode, typed>>
    BY DEF UpdateLeds
  <2> QED BY <2>3, <2>4, <2>5 DEF queue
<1>4. Goal' = Goal /\ Current' = Current BY <1>3 DEF Goal, Current
<1>5. Ahead' = Ahead BY <1>2, <1>3, <1>4 DEF Ahead
<1>6. QueueInv' BY <1>2, <1>3 DEF QueueInv
<1>7. TypeOK' BY <1>1, <1>3 DEF TypeOK
<1> QED BY <1>1, <1>3, <1>4, <1>5, <1>6, <1>7 DEF KeyboardInv

\* Nothing happens.
LEMMA StutterKeeps ==
  ASSUME KeyboardInv, UNCHANGED vars
  PROVE  KeyboardInv'
<1>1. UNCHANGED <<wire, held, events, meant, lit, extended, keycode_stack, top,
                  press_keys, toggle_keys, pc, tries, reg, keycode, typed>>
  BY DEF vars, hardware, queue, thread
<1>2. TypeOK' BY <1>1 DEF KeyboardInv, TypeOK
<1>3. QueueInv' BY <1>1 DEF KeyboardInv, QueueInv
<1>4. Goal' = Goal /\ Ahead' = Ahead BY <1>1 DEF Goal, Ahead, Current
<1> QED BY <1>1, <1>2, <1>3, <1>4 DEF KeyboardInv

\* So does every step while interrupts wait for the thread.
LEMMA NextKeeps ==
  ASSUME Patient
  PROVE  KeyboardInv /\ [Next]_vars => KeyboardInv'
<1> SUFFICES ASSUME KeyboardInv, [Next]_vars PROVE KeyboardInv' OBVIOUS
<1>1. CASE \E k \in Keys : KeyEvent(k) BY <1>1, KeyEventKeeps
<1>2. CASE KeyIrq BY <1>2, KeyIrqKeeps
<1>3. CASE ReadTop BY <1>3, ReadTopKeeps
<1>4. CASE StoreTop BY <1>4, StoreTopKeeps
<1>5. CASE Handle BY <1>5, HandleKeeps
<1>6. CASE UpdateLeds BY <1>6, UpdateLedsKeeps
<1>7. CASE UNCHANGED vars BY <1>7, StutterKeeps
<1> QED BY <1>1, <1>2, <1>3, <1>4, <1>5, <1>6, <1>7 DEF Next

------------------------------------------------------------------------------
(***************************************************************************)
(* The theorems.                                                           *)

\* The bytes on the wire always lead from what the thread believes to what the
\* typist did.
THEOREM KeyboardInvariant == ASSUME Patient PROVE Spec => []KeyboardInv
<1>1. Init => KeyboardInv BY InitHolds
<1>2. KeyboardInv /\ [Next]_vars => KeyboardInv' BY NextKeeps
<1> QED BY <1>1, <1>2, PTL DEF Spec

\* keycode_stack_top stays on the stack, the decoder in its states and what is
\* printed a code that us_querty_shift and terminal_eval_unicode know.
THEOREM TypesKept == ASSUME Patient PROVE Spec => []TypeOK
<1>1. KeyboardInv => TypeOK BY DEF KeyboardInv
<1> QED BY <1>1, KeyboardInvariant, PTL

\* When every byte has been decoded and handled, what the thread believes is
\* what the typist did.
LEMMA AllHandled ==
  ASSUME KeyboardInv, Settled
  PROVE  press_keys = held \cap Modifiers /\ toggle_keys = lit /\ typed = meant
<1>1. wire = <<>> /\ top = -1 /\ pc = "wait" BY DEF Settled
<1>2. Ahead = Current BY <1>1 DEF Ahead
<1>3. Current \in State BY DEF KeyboardInv, TypeOK, Current, State
<1>4. Current = Goal BY <1>1, <1>2, <1>3, LeadsNowhere DEF KeyboardInv
<1> QED BY <1>4 DEF Current, Goal

\* press_keys and toggle_keys are the modifiers that are down and the locks
\* that are on.
THEOREM ModifiersKept == ASSUME Patient PROVE Spec => []ModifiersAreThoseHeld
<1>1. KeyboardInv => ModifiersAreThoseHeld BY AllHandled DEF ModifiersAreThoseHeld
<1> QED BY <1>1, KeyboardInvariant, PTL

\* keycode_handler prints what was meant, in the order it was typed in.
THEOREM TextKept == ASSUME Patient PROVE Spec => []TypedAsPressed
<1>1. KeyboardInv => TypedAsPressed BY AllHandled DEF TypedAsPressed
<1> QED BY <1>1, KeyboardInvariant, PTL
==============================================================================
