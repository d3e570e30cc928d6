---------------------------- MODULE Threads_proofs ----------------------------
(***************************************************************************)
(* Theorems about Threads, for any number of stacks, TCBs and nested ticks *)
(* and any set of threads that yield, kill and quit.                       *)
(***************************************************************************)
EXTENDS Threads, SequenceTheorems, FiniteSetTheorems, TLAPS

------------------------------------------------------------------------------
(***************************************************************************)
(* What idt_init has set up after each of its steps, for every state the   *)
(* firmware may leave the interrupt controllers in: its steps, by their    *)
(* place in idt_init.                                                      *)

Steps == 1..67
Step(n) ==
  IF n <= 10 THEN <<"write", Remap[n]>>
  ELSE IF n <= 26 THEN <<"mask", n - 11>>
  ELSE IF n <= 28 THEN <<"unmask", n - 27>>
  ELSE IF n = 29 THEN <<"pit", 54>>
  ELSE IF n = 30 THEN <<"pit", 11931 % 256>>
  ELSE IF n = 31 THEN <<"pit", 11931 \div 256>>
  ELSE IF n <= 65 THEN <<"gate", n - 32>>
  ELSE IF n = 66 THEN <<"lidt", 0>> ELSE <<"sti", 0>>
StepSet == {Step(n) : n \in Steps}

\* The n steps that follow the first m.
Piece(t, m, n) == /\ t \in Seq(StepSet) /\ Len(t) = n
                  /\ \A k \in 1..n : t[k] = Step(k + m)

\* What the first m steps and the n that follow them are, joined.
LEMMA Joined ==
  ASSUME NEW s, NEW t, NEW m \in Nat, NEW n \in Nat, Piece(s, 0, m), Piece(t, m, n)
  PROVE  Piece(s \o t, 0, m + n)
<1>1. /\ s \o t \in Seq(StepSet) /\ Len(s \o t) = m + n
      /\ \A i \in 1..(m + n) : (s \o t)[i] = IF i <= m THEN s[i] ELSE t[i - m]
  <2>1. s \in Seq(StepSet) /\ t \in Seq(StepSet) /\ Len(s) = m /\ Len(t) = n
    BY DEF Piece
  <2>2. /\ s \o t \in Seq(StepSet) /\ Len(s \o t) = Len(s) + Len(t)
        /\ \A i \in 1..(Len(s) + Len(t)) :
             (s \o t)[i] = IF i <= Len(s) THEN s[i] ELSE t[i - Len(s)]
    BY <2>1, ConcatProperties
  <2>3. Len(s) + Len(t) = m + n
    BY <2>1
  <2>4. \A i \in 1..(m + n) : (s \o t)[i] = IF i <= m THEN s[i] ELSE t[i - m]
    BY <2>1, <2>2, <2>3, Zenon
  <2> QED
    BY <2>2, <2>3, <2>4
<1>2. ASSUME NEW i \in 1..(m + n) PROVE (s \o t)[i] = Step(i + 0)
  <2>1. CASE i <= m
    BY <1>1, <2>1 DEF Piece
  <2>2. CASE ~(i <= m)
    <3>1. i - m \in 1..n /\ (i - m) + m = i + 0
      BY <2>2
    <3> QED
      BY <1>1, <2>2, <3>1 DEF Piece
  <2> QED
    BY <2>1, <2>2
<1> QED
  BY <1>1, <1>2 DEF Piece

\* A list given step by step.
Part(m, n) == [k \in 1..n |-> Step(k + m)]

\* It is a piece of idt_init.
LEMMA Listed ==
  ASSUME NEW m \in Nat, NEW n \in Nat, m + n <= 67
  PROVE  Piece(Part(m, n), m, n)
<1>1. \A k \in 1..n : Step(k + m) \in StepSet
  <2> TAKE k \in 1..n
  <2>1. k + m \in Steps
    BY DEF Steps
  <2> QED
    BY <2>1 DEF StepSet
<1> QED
  BY <1>1 DEF Piece, Part

\* The parts of IdtInit, put one after the other, are 67 steps, each where
\* Step says.
LEMMA StepsInOrder == Piece(IdtInit, 0, 67)
<1> DEFINE writes == [k \in 1..Len(Remap) |-> <<"write", Remap[k]>>]
           lines == << <<"unmask", 0>>, <<"unmask", 1>>, <<"pit", 54>>,
                       <<"pit", 11931 % 256>>, <<"pit", 11931 \div 256>> >>
           last == << <<"lidt", 0>>, <<"sti", 0>> >>
<1>1. writes = Part(0, 10)
  <2>1. Len(Remap) = 10
    BY DEF Remap
  <2> QED
    BY <2>1 DEF Step, Part
<1>2. MaskAll = Part(10, 16)
  BY DEF MaskAll, Step, Part
<1>3. lines = Part(26, 5)
  <2>1. /\ Step(1 + 26) = <<"unmask", 0>> /\ Step(2 + 26) = <<"unmask", 1>>
        /\ Step(3 + 26) = <<"pit", 54>> /\ Step(4 + 26) = <<"pit", 11931 % 256>>
        /\ Step(5 + 26) = <<"pit", 11931 \div 256>>
    BY DEF Step
  <2> QED
    BY <2>1 DEF Part
<1>4. Descriptors = Part(31, 34)
  BY DEF Descriptors, Step, Part
<1>5. last = Part(65, 2)
  <2>1. Step(1 + 65) = <<"lidt", 0>> /\ Step(2 + 65) = <<"sti", 0>>
    BY DEF Step
  <2> QED
    BY <2>1 DEF Part
<1>6. IdtInit = (((writes \o MaskAll) \o lines) \o Descriptors) \o last
  BY DEF IdtInit
<1> HIDE DEF writes, lines, last
<1>7. /\ Piece(writes, 0, 10) /\ Piece(MaskAll, 10, 16) /\ Piece(lines, 26, 5)
      /\ Piece(Descriptors, 31, 34) /\ Piece(last, 65, 2)
  <2>1. Piece(writes, 0, 10)
    BY <1>1, Listed
  <2>2. Piece(MaskAll, 10, 16)
    BY <1>2, Listed
  <2>3. Piece(lines, 26, 5)
    BY <1>3, Listed
  <2>4. Piece(Descriptors, 31, 34)
    BY <1>4, Listed
  <2>5. Piece(last, 65, 2)
    BY <1>5, Listed
  <2> QED
    BY <2>1, <2>2, <2>3, <2>4, <2>5
<1>8. Piece(writes \o MaskAll, 0, 10 + 16)
  BY <1>7, Joined
<1>9. Piece((writes \o MaskAll) \o lines, 0, 26 + 5)
  BY <1>7, <1>8, Joined
<1>10. Piece(((writes \o MaskAll) \o lines) \o Descriptors, 0, 31 + 34)
  BY <1>7, <1>9, Joined
<1>11. Piece((((writes \o MaskAll) \o lines) \o Descriptors) \o last, 0, 65 + 2)
  BY <1>7, <1>10, Joined
<1> QED
  BY <1>6, <1>11

------------------------------------------------------------------------------
(* What has been reached after n steps.                                    *)

\* A controller takes its four words in turn; first is the step of its ICW1.
Expects(p, n, first) ==
  /\ n \in first..(first + 1) => pic[p].expects = "vector"
  /\ n \in (first + 2)..(first + 3) => pic[p].expects = "cascade"
  /\ n \in (first + 4)..(first + 5) => pic[p].expects = "mode"
  /\ n >= first + 6 => pic[p].expects = "ready"

Masked(line) == Bit(line) \in pic[PicOf(line)].mask

Reached(n) ==
  /\ pic \in [Pic -> [expects : {"ready", "vector", "cascade", "mode"},
                      vector : Nat, mask : SUBSET (0..7)]]
  /\ Expects(1, n, 1) /\ Expects(2, n, 2)
  /\ n >= 3 => pic[1].vector = 32
  /\ n >= 4 => pic[2].vector = 40
  /\ \A line \in Line \ {0, 1} : n >= line + 11 => Masked(line)
  /\ n \in 32..65 => gates = n - 31
  /\ n >= 66 => gates = 34 /\ loaded

SetupInv == \E n \in 0..67 : Piece(booting, n, 67 - n) /\ Reached(n)

\* idt_init starts with all of its steps ahead.
LEMMA SetupStarts == InitInterrupts => SetupInv
<1> SUFFICES ASSUME InitInterrupts PROVE SetupInv
  OBVIOUS
<1>1. Piece(booting, 0, 67 - 0)
  BY StepsInOrder DEF InitInterrupts
<1>2. PICK m \in FirmwareMasks :
        pic = [p \in Pic |-> [expects |-> "ready", mask |-> m, vector |->
                              IF p = 1 THEN 8 ELSE 112]]
  BY DEF InitInterrupts
<1>3. m \in SUBSET (0..7)
  BY InterruptsAssumption
<1>4. Reached(0)
  <2>1. pic \in [Pic -> [expects : {"ready", "vector", "cascade", "mode"},
                         vector : Nat, mask : SUBSET (0..7)]]
    BY <1>2, <1>3
  <2>2. Expects(1, 0, 1) /\ Expects(2, 0, 2)
    BY DEF Expects
  <2>3. \A line \in Line \ {0, 1} : ~(0 >= line + 11)
    BY DEF Line
  <2> QED
    BY <2>1, <2>2, <2>3 DEF Reached
<1> QED
  BY <1>1, <1>4 DEF SetupInv

\* The step taken is the next one of idt_init, and the others are left.
LEMMA NextStep ==
  ASSUME NEW n \in 0..67, Piece(booting, n, 67 - n), booting # <<>>
  PROVE  /\ n < 67 /\ Head(booting) = Step(n + 1)
         /\ Done => Piece(booting', n + 1, 67 - (n + 1))
<1>1. booting \in Seq(StepSet) /\ Len(booting) = 67 - n
      /\ \A k \in 1..(67 - n) : booting[k] = Step(k + n)
  BY DEF Piece
<1>2. Len(booting) # 0
  BY <1>1, EmptySeq
<1>3. n < 67
  BY <1>1, <1>2
<1>4. Head(booting) = Step(n + 1)
  BY <1>1, <1>3
<1>5. /\ Tail(booting) \in Seq(StepSet) /\ Len(Tail(booting)) = Len(booting) - 1
      /\ \A i \in 1..Len(Tail(booting)) : Tail(booting)[i] = booting[i + 1]
  BY <1>1, HeadTailProperties
<1>6. ASSUME Done PROVE Piece(booting', n + 1, 67 - (n + 1))
  <2>1. \A k \in 1..(66 - n) : Tail(booting)[k] = Step((k + 1) + n)
    BY <1>1, <1>5
  <2>2. \A k \in 1..(66 - n) : (k + 1) + n = k + (n + 1)
    OBVIOUS
  <2> QED
    BY <1>1, <1>5, <1>6, <2>1, <2>2 DEF Done, Piece
<1> QED
  BY <1>3, <1>4, <1>6

\* A step of idt_init leads from what n steps reached to what n + 1 reach.
LEMMA SetupAdvances ==
  ASSUME NEW n \in 0..66, Reached(n), SettingUp, Head(booting) = Step(n + 1)
  PROVE  Reached(n + 1)'
<1> DEFINE Word == [expects : {"ready", "vector", "cascade", "mode"},
                    vector : Nat, mask : SUBSET (0..7)]
<1>0. pic \in [Pic -> Word]
  BY DEF Reached
<1>1. CASE PicWrite
  <2>1. n + 1 \in 1..10 /\ Arg = Remap[n + 1]
    BY <1>1 DEF PicWrite, Doing, Arg, Step
  <2>2. Arg[1] \in Pic /\ pic' = [pic EXCEPT ![Arg[1]] = Written(pic[Arg[1]], Arg)]
    BY <1>1, <2>1 DEF PicWrite, Remap, Pic
  <2>3. \A line \in Line \ {0, 1} : ~(n + 1 >= line + 11)
    BY <2>1 DEF Line
  <2>4. gates' = gates /\ loaded' = loaded
    BY <1>1 DEF PicWrite
  <2> DEFINE p == Arg[1]
             was == pic[p]
  <2>5. /\ was \in Word /\ pic'[p] = Written(was, Arg)
        /\ \A q \in Pic \ {p} : pic'[q] = pic[q]
    BY <1>0, <2>2
  <2>6. pic'[p] \in Word => pic' \in [Pic -> Word]
    BY <1>0, <2>2
  <2> HIDE DEF was
  <2>7. Arg = <<1, "command", "icw1">> \/ Arg = <<2, "command", "icw1">> =>
          pic'[p] \in Word /\ pic'[p].expects = "vector"
    <3> SUFFICES ASSUME Arg = <<1, "command", "icw1">> \/ Arg = <<2, "command", "icw1">>
                 PROVE  pic'[p] \in Word /\ pic'[p].expects = "vector"
      OBVIOUS
    <3>1. Arg[2] = "command"
      OBVIOUS
    <3>2. pic'[p] = [was EXCEPT !.expects = "vector", !.mask = {}]
      BY <2>5, <3>1, Zenon DEF Written
    <3>3. pic'[p] = [expects |-> "vector", vector |-> was.vector, mask |-> {}]
      BY <2>5, <3>2
    <3> QED
      BY <2>5, <3>3
  <2>8. was.expects = "vector" /\ (Arg = <<1, "data", 32>> \/ Arg = <<2, "data", 40>>) =>
          pic'[p] \in Word /\ pic'[p].expects = "cascade" /\ pic'[p].vector = 24 + 8 * p
    <3> SUFFICES ASSUME was.expects = "vector",
                        Arg = <<1, "data", 32>> \/ Arg = <<2, "data", 40>>
                 PROVE  /\ pic'[p] \in Word /\ pic'[p].expects = "cascade"
                        /\ pic'[p].vector = 24 + 8 * p
      OBVIOUS
    <3>1. Arg[2] = "data" /\ 8 * (Arg[3] \div 8) = 24 + 8 * p /\ 24 + 8 * p \in Nat
      OBVIOUS
    <3>2. Written(was, Arg) = [was EXCEPT !.expects = "cascade",
                                          !.vector = 8 * (Arg[3] \div 8)]
      BY <3>1 DEF Written
    <3>3. pic'[p] = [was EXCEPT !.expects = "cascade", !.vector = 24 + 8 * p]
      BY <2>5, <3>1, <3>2
    <3>4. pic'[p] = [expects |-> "cascade", vector |-> 24 + 8 * p, mask |-> was.mask]
      BY <2>5, <3>3
    <3> QED
      BY <2>5, <3>1, <3>4
  <2>9. was.expects = "cascade" /\ (Arg = <<1, "data", 4>> \/ Arg = <<2, "data", 2>>) =>
          pic'[p] \in Word /\ pic'[p].expects = "mode" /\ pic'[p].vector = was.vector
    BY <2>5 DEF Written
  <2>10. was.expects = "mode" /\ (Arg = <<1, "data", 1>> \/ Arg = <<2, "data", 1>>) =>
          pic'[p] \in Word /\ pic'[p].expects = "ready" /\ pic'[p].vector = was.vector
    BY <2>5 DEF Written
  <2>11. was.expects = "ready" /\ (Arg = <<1, "data", 0>> \/ Arg = <<2, "data", 0>>) =>
          pic'[p] \in Word /\ pic'[p].expects = "ready" /\ pic'[p].vector = was.vector
    BY <2>5 DEF Written
  <2>12. CASE n \in 0..1
    <3>1. Arg = IF n = 0 THEN <<1, "command", "icw1">> ELSE <<2, "command", "icw1">>
      BY <2>12, <2>1 DEF Remap
    <3> QED
      BY <2>12, <3>1, <2>3, <2>4, <2>5, <2>6, <2>7 DEF Reached, Expects, Pic
  <2>13. CASE n \in 2..3
    <3>1. Arg = IF n = 2 THEN <<1, "data", 32>> ELSE <<2, "data", 40>>
      BY <2>13, <2>1 DEF Remap
    <3> QED
      BY <2>13, <3>1, <2>3, <2>4, <2>5, <2>6, <2>8 DEF Reached, Expects, Pic, was
  <2>14. CASE n \in 4..5
    <3>1. Arg = IF n = 4 THEN <<1, "data", 4>> ELSE <<2, "data", 2>>
      BY <2>14, <2>1 DEF Remap
    <3> QED
      BY <2>14, <3>1, <2>3, <2>4, <2>5, <2>6, <2>9 DEF Reached, Expects, Pic, was
  <2>15. CASE n \in 6..7
    <3>1. Arg = IF n = 6 THEN <<1, "data", 1>> ELSE <<2, "data", 1>>
      BY <2>15, <2>1 DEF Remap
    <3> QED
      BY <2>15, <3>1, <2>3, <2>4, <2>5, <2>6, <2>10 DEF Reached, Expects, Pic, was
  <2>16. CASE n \in 8..9
    <3>1. Arg = IF n = 8 THEN <<1, "data", 0>> ELSE <<2, "data", 0>>
      BY <2>16, <2>1 DEF Remap
    <3> QED
      BY <2>16, <3>1, <2>3, <2>4, <2>5, <2>6, <2>11 DEF Reached, Expects, Pic, was
  <2> QED
    BY <2>1, <2>12, <2>13, <2>14, <2>15, <2>16
<1>2. CASE SetMask
  <2>1. n + 1 \in 11..26 /\ Arg = n - 10
    <3>1. Step(n + 1)[1] = "mask"
      BY <1>2 DEF SetMask, Doing
    <3>2. n + 1 \in 11..26
      BY <3>1 DEF Step
    <3> QED
      BY <3>2 DEF Arg, Step
  <2>2. pic' = [pic EXCEPT ![PicOf(Arg)].mask = @ \cup {Bit(Arg)}]
    BY <1>2 DEF SetMask
  <2>3. PicOf(Arg) \in Pic /\ Bit(Arg) \in 0..7
    BY <2>1 DEF PicOf, Bit, Pic
  <2>4. pic' \in [Pic -> Word]
    BY <1>0, <2>2, <2>3
  <2>5. \A p \in Pic : pic'[p].expects = pic[p].expects /\ pic'[p].vector = pic[p].vector
    BY <1>0, <2>2, <2>3
  <2>6. ASSUME NEW line \in Line \ {0, 1}, n + 1 >= line + 11 PROVE Masked(line)'
    BY <1>0, <2>1, <2>2, <2>3, <2>6 DEF Reached, Masked, Line, PicOf, Bit, Pic
  <2> QED
    BY <1>2, <2>1, <2>4, <2>5, <2>6 DEF SetMask, Reached, Expects, Pic
<1>3. CASE ClearMask
  <2>1. n + 1 \in 27..28 /\ Arg = n - 26
    <3>1. Step(n + 1)[1] = "unmask"
      BY <1>3 DEF ClearMask, Doing
    <3>2. n + 1 \in 27..28
      BY <3>1 DEF Step
    <3> QED
      BY <3>2 DEF Arg, Step
  <2>2. pic' = [pic EXCEPT ![1].mask = @ \ {Arg}]
    <3>1. PicOf(Arg) = 1 /\ Bit(Arg) = Arg
      BY <2>1 DEF PicOf, Bit
    <3> QED
      BY <1>3, <3>1 DEF ClearMask
  <2>4. pic' \in [Pic -> Word]
    BY <1>0, <2>2
  <2>5. \A p \in Pic : pic'[p].expects = pic[p].expects /\ pic'[p].vector = pic[p].vector
    BY <1>0, <2>2
  <2>6. ASSUME NEW line \in Line \ {0, 1} PROVE Masked(line)'
    BY <1>0, <2>1, <2>2 DEF Reached, Masked, Line, PicOf, Bit, Pic
  <2> QED
    BY <1>3, <2>1, <2>4, <2>5, <2>6 DEF ClearMask, Reached, Expects, Pic
<1>4. CASE PitWrite
  <2>1. n + 1 \in 29..31
    BY <1>4 DEF PitWrite, Doing, Step
  <2> QED
    BY <1>4, <2>1 DEF PitWrite, Reached, Expects, Masked, Line
<1>5. CASE SetDescriptor
  <2>1. n + 1 \in 32..65 /\ Arg = n - 31
    BY <1>5 DEF SetDescriptor, Doing, Arg, Step
  <2> QED
    BY <1>5, <2>1 DEF SetDescriptor, Reached, Expects, Masked, Line
<1>6. CASE LoadIdt
  <2>1. n + 1 = 66
    BY <1>6 DEF LoadIdt, Doing, Step
  <2> QED
    BY <1>6, <2>1 DEF LoadIdt, Reached, Expects, Masked, Line
<1>7. CASE EnableInterrupts
  <2>1. n + 1 = 67
    BY <1>7 DEF EnableInterrupts, Doing, Step
  <2> QED
    BY <1>7, <2>1 DEF EnableInterrupts, Reached, Expects, Masked, Line
<1> QED
  BY <1>1, <1>2, <1>3, <1>4, <1>5, <1>6, <1>7 DEF SettingUp

\* Each step keeps the invariant, and only the last one enables interrupts.
LEMMA SetupStep ==
  ASSUME SetupInv, SettingUp
  PROVE  SetupInv' /\ booting # <<>> /\ (booting' = <<>> \/ ifl' = ifl)
<1>1. booting # <<>> /\ Done
  BY DEF SettingUp, PicWrite, SetMask, ClearMask, PitWrite, SetDescriptor, LoadIdt,
         EnableInterrupts, Doing
<1>2. PICK n \in 0..67 : Piece(booting, n, 67 - n) /\ Reached(n)
  BY DEF SetupInv
<1>3. /\ n < 67 /\ Head(booting) = Step(n + 1)
      /\ Piece(booting', n + 1, 67 - (n + 1))
  BY <1>1, <1>2, NextStep
<1>4. n \in 0..66
  BY <1>3
<1>5. Reached(n + 1)'
  BY <1>2, <1>3, <1>4, SetupAdvances
<1>6. SetupInv'
  BY <1>3, <1>4, <1>5 DEF SetupInv
<1>7. CASE EnableInterrupts
  <2>1. Step(n + 1)[1] = "sti"
    BY <1>7, <1>3 DEF EnableInterrupts, Doing
  <2>2. n + 1 = 67
    BY <1>4, <2>1 DEF Step
  <2>3. Len(booting') = 0 /\ booting' \in Seq(StepSet)
    BY <1>3, <2>2 DEF Piece
  <2> QED
    BY <1>1, <1>6, <2>3, EmptySeq
<1>8. CASE ~EnableInterrupts
  <2>1. ifl' = ifl
    BY <1>8 DEF SettingUp, PicWrite, SetMask, ClearMask, PitWrite, SetDescriptor, LoadIdt
  <2> QED
    BY <1>1, <1>6, <2>1
<1> QED
  BY <1>7, <1>8

\* With idt_init behind, lines 0 and 1 at most get through, and they have
\* their vectors, descriptors and stubs.
LEMMA SetupComplete ==
  ASSUME SetupInv, booting = <<>>, NEW line \in Line, Passes(line)
  PROVE  /\ line \in {0, 1} /\ Vector(line) = 32 + line
         /\ loaded /\ Vector(line) < gates
<1>1. PICK n \in 0..67 : Piece(booting, n, 67 - n) /\ Reached(n)
  BY DEF SetupInv
<1>2. n = 67
  <2>1. Len(booting) = 0
    BY EmptySeq
  <2> QED
    BY <1>1, <2>1 DEF Piece
<1>3. /\ pic[1].vector = 32 /\ gates = 34 /\ loaded
      /\ \A l \in Line \ {0, 1} : Masked(l)
  BY <1>1, <1>2 DEF Reached, Line
<1>4. line \in {0, 1}
  BY <1>3 DEF Passes, Masked
<1>5. PicOf(line) = 1 /\ Bit(line) = line
  BY <1>4 DEF PicOf, Bit
<1> QED
  BY <1>3, <1>4, <1>5 DEF Vector
------------------------------------------------------------------------------
(***************************************************************************)
(* The inductive invariant.                                                *)

\* No tick can land between the instructions of a switch: either ticks are
\* kept out of it, or no thread yields and each switch is a timer's own, with
\* the timer in service.
Undisturbed == TicksInYield => Yielders = {}

\* While a thread is in new_thread or kill_thread no other calls them.
OneAtATime == Overlap = FALSE

Frame == [kind : {"none", "start", "yield", "irq"}, who : Stacks \cup {NULL},
          at : Where, nxt : Slot]
Pointer == [stack : Stacks, h : 0..MaxDepth]
TcbType == [stack : Stacks \cup {NULL}, cr3 : Dirs \cup {NULL},
            esp : [stack : Stacks \cup {NULL}, h : 0..MaxDepth]]

\* The frames from b to h let thread t go on: the one at b is for what t did in
\* its own code, and above it are ticks that hit the end of a switch.
Saved(frames, t, b, h) ==
  /\ h \in b..MaxDepth
  /\ frames[b].who = t /\ frames[b].at = "run"
  /\ \A d \in (b + 1)..h :
       frames[d].who = t /\ frames[d].kind = "irq" /\ frames[d].at = "exit"

\* Thread t can be resumed from stack pointer e.
Base(t) == Home(t).h + 1
Parked(e, t) ==
  e.stack = Home(t).stack /\ Saved(stk[e.stack], t, Base(t), e.h)

\* The processor's own thread and stack pointer, and the switch under way.
CpuInv ==
  /\ IF used = 0 THEN me = Boot /\ at \in {"run", "isr"} /\ esp.h <= 1 ELSE InUse(me)
  /\ IF at = "run" THEN esp = Home(me) ELSE Parked(esp, me)
  /\ (used > 0 /\ at # "load") => me = threads[current].stack
  /\ at \in {"save", "next", "load"} => nxt < used
  /\ at = "load" => current = nxt

\* The threads in use: distinct, and saved unless they run.
ThreadsInv ==
  /\ IF used = 0 THEN current = 0 /\ tss = Junk ELSE current < used
  /\ \A i \in 0..(used - 1) : threads[i].stack \in Stacks /\ threads[i].cr3 \in Dirs \ {NULL}
  /\ \A i, j \in 0..(used - 1) : i # j => threads[i].stack # threads[j].stack
  /\ \A i \in 0..(used - 1) : threads[i].stack # me \/ at \in {"next", "load"} =>
       Parked(threads[i].esp, threads[i].stack)
  /\ (used > 0 /\ at # "load") => /\ cr3 = threads[current].cr3
                                  /\ tss \in {Junk, threads[current].stack}

\* Where the stacks are.
Taken(s) == s \in avail \cup dead
StacksInv ==
  /\ ~Taken(Boot) /\ avail \cap dead = {}
  /\ \A i \in 0..(used - 1) : ~Taken(threads[i].stack)
  /\ \A s \in Stacks \ {Boot} :
       Taken(s) \/ InUse(s) \/ \E m \in Stacks \ {s} : made[m] = s

\* A thread s in new_thread has its new stack to itself, and the TCB past the
\* last one as far as it has filled it; in kill_thread, it has a thread to kill.
Call(s) ==
  /\ InUse(s)
  /\ IF pc[s] \in {"alloc", "kill"} THEN made[s] = s
     ELSE made[s] # Boot /\ ~Taken(made[s]) /\ ~InUse(made[s])
  /\ IF pc[s] = "kill" THEN slot[s] < used /\ threads[slot[s]].stack # Boot
     ELSE used < TCB_MAX_THREADS
  /\ pc[s] \notin {"alloc", "index", "kill"} => slot[s] = used
  /\ pc[s] \in {"esp0", "esp", "enter", "push", "leave", "count", "publish"} =>
       threads[used].cr3 = dir[s]
  /\ pc[s] \in {"esp", "enter", "push", "leave", "count", "publish"} =>
       threads[used].stack = made[s]
  /\ pc[s] \in {"enter", "push", "leave", "count", "publish"} =>
       threads[used].esp = [stack |-> made[s], h |-> 1]
  /\ pc[s] \in {"leave", "count", "publish"} =>
       Saved(stk[made[s]], made[s], 1, 1)
CallsInv ==
  \A s \in Stacks : IF pc[s] = "run" THEN made[s] = s
                    ELSE Call(s) /\ \A t \in Stacks \ {s} : pc[t] = "run"

\* The timer's EOI, and the flag while the timer is in service.
EoiInv ==
  /\ IF at = "isr" THEN isv /\ ~piti /\ ~ifl ELSE isv = piti
  /\ at \in {"run", "exit"} => ~isv
  /\ (Yielders = {} /\ at \in {"save", "next", "load", "eoi"}) => ~ifl

\* idt_init runs before there are threads, with interrupts disabled.
BootInv == booting # <<>> => /\ ~ifl /\ used = 0 /\ at = "run" /\ me \in Stacks
                             /\ \A s \in Stacks : pc[s] = "run"

KernelInv == TypeOK /\ CpuInv /\ ThreadsInv /\ StacksInv /\ CallsInv /\ EoiInv

------------------------------------------------------------------------------
(* Lemmas about frames                                                     *)

\* The frame on top of a saved thread: it says where the thread goes on.
TopIs(f, t, b, h) ==
  /\ h \in Nat /\ h >= b /\ h <= MaxDepth
  /\ f[h].who = t /\ (f[h].kind # "irq" => h = b)
  /\ h = b => f[h].at = "run"
  /\ h # b => f[h].at = "exit" /\ h - 1 >= b /\ Saved(f, t, b, h - 1)

\* Below a tick that hit the end of a switch a thread is saved too.
LEMMA TopFrame ==
  \A f, t, h : \A b \in Nat : Saved(f, t, b, h) => TopIs(f, t, b, h)
<1> SUFFICES ASSUME NEW f, NEW t, NEW h, NEW b \in Nat, Saved(f, t, b, h)
             PROVE  TopIs(f, t, b, h)
  OBVIOUS
<1>1. MaxDepth \in Nat
  BY ThreadsAssumption
<1>2. h \in Nat /\ h >= b /\ h <= MaxDepth
  BY <1>1 DEF Saved
<1>3. CASE h = b
  BY <1>2, <1>3 DEF Saved, TopIs
<1>4. CASE h # b
  <2>1. h \in (b + 1)..h /\ h - 1 \in b..MaxDepth /\ (b + 1)..(h - 1) \subseteq (b + 1)..h
    BY <1>1, <1>2, <1>4
  <2> QED
    BY <1>2, <1>4, <2>1 DEF Saved, TopIs
<1> QED
  BY <1>3, <1>4

\* A frame pushed for the running thread leaves it saved.
LEMMA FramePushed ==
  ASSUME NEW f, NEW t, NEW b \in Nat \ {0}, NEW h \in Nat, h < MaxDepth, NEW g,
         DOMAIN f = 1..MaxDepth, g.who = t,
         \/ h + 1 = b /\ g.at = "run"
         \/ Saved(f, t, b, h) /\ g.kind = "irq" /\ g.at = "exit"
  PROVE  Saved([f EXCEPT ![h + 1] = g], t, b, h + 1)
<1> DEFINE f2 == [f EXCEPT ![h + 1] = g]
<1>1. MaxDepth \in Nat /\ h + 1 \in 1..MaxDepth
  BY ThreadsAssumption
<1>2. f2[h + 1] = g /\ \A d \in 1..h : f2[d] = f[d]
  BY <1>1
<1> HIDE DEF f2
<1>3. CASE h + 1 = b
  <2>1. (b + 1)..(h + 1) = {} /\ f2[b] = g /\ h + 1 \in b..MaxDepth
    BY <1>1, <1>2, <1>3
  <2>2. ~Saved(f, t, b, h)
    BY <1>3 DEF Saved
  <2>3. Saved(f2, t, b, h + 1)
    BY <2>1, <2>2 DEF Saved
  <2> QED
    BY <2>3 DEF f2
<1>4. CASE h + 1 # b
  <2>1. Saved(f, t, b, h) /\ g.kind = "irq" /\ g.at = "exit"
    BY <1>4
  <2>2. b \in 1..h /\ h + 1 \in b..MaxDepth
    BY <1>1, <2>1 DEF Saved
  <2>3. ASSUME NEW d \in (b + 1)..(h + 1)
        PROVE  f2[d].who = t /\ f2[d].kind = "irq" /\ f2[d].at = "exit"
    <3>1. CASE d = h + 1
      BY <1>2, <2>1, <3>1
    <3>2. CASE d # h + 1
      <4>1. d \in (b + 1)..h /\ d \in 1..h
        BY <3>2
      <4> QED
        BY <1>2, <2>1, <4>1 DEF Saved
    <3> QED
      BY <3>1, <3>2
  <2>4. f2[b].who = t /\ f2[b].at = "run"
    BY <1>2, <2>1, <2>2 DEF Saved
  <2>5. Saved(f2, t, b, h + 1)
    BY <2>2, <2>3, <2>4 DEF Saved
  <2> QED
    BY <2>5 DEF f2
<1> QED
  BY <1>3, <1>4

\* The parts of TypeOK most steps use.
LEMMA Types ==
  ASSUME TypeOK
  PROVE  /\ esp \in Pointer /\ me \in Stacks
         /\ stk \in [Stacks -> [1..MaxDepth -> Frame]]
         /\ used \in Nat /\ used <= TCB_MAX_THREADS /\ TCB_MAX_THREADS \in Nat \ {0}
         /\ MaxDepth \in Nat \ {0} /\ current \in Nat /\ current \in Slot
         /\ Slot \subseteq Nat /\ 0 \in Slot
         /\ \A i \in 0..(used - 1) : i \in Slot
         /\ used < TCB_MAX_THREADS => used \in Slot
         /\ threads \in [Slot -> TcbType] /\ DOMAIN threads = Slot
         /\ Boot \in Stacks
<1>1. TCB_MAX_THREADS \in Nat \ {0} /\ MaxDepth \in Nat \ {0} /\ Boot \in Stacks
  BY ThreadsAssumption
<1>2. /\ esp \in Pointer /\ stk \in [Stacks -> [1..MaxDepth -> Frame]] /\ me \in Stacks
      /\ used \in 0..TCB_MAX_THREADS /\ current \in Slot
      /\ threads \in [Slot -> TcbType] /\ DOMAIN threads = Slot
  BY DEF TypeOK, Frame, Pointer, TcbType
<1>3. Slot \subseteq Nat /\ 0 \in Slot /\ used \in Nat /\ used <= TCB_MAX_THREADS
  BY <1>1, <1>2 DEF Slot
<1>4. \A i \in 0..(used - 1) : i \in Slot
  BY <1>1, <1>2 DEF Slot
<1>5. used < TCB_MAX_THREADS => used \in Slot
  BY <1>1, <1>3 DEF Slot
<1> QED
  BY <1>1, <1>2, <1>3, <1>4, <1>5

\* Where threads have their stack pointers.
LEMMA Homes ==
  ASSUME TypeOK, NEW s \in Stacks
  PROVE  /\ Home(s).stack \in Stacks /\ Home(s).h \in {0, 1}
         /\ Home(s).stack = IF pc[s] \in {"push", "leave"} THEN made[s] ELSE s
         /\ Home(s).h = IF pc[s] = "leave" THEN 1 ELSE 0
         /\ Base(s) \in {1, 2} /\ Base(s) = Home(s).h + 1
  BY DEF TypeOK, Home, Base

\* No two threads in use have their stack pointers in one stack, and none has
\* its own in the stack another is making.
LEMMA Apart ==
  ASSUME TypeOK, CallsInv, NEW s \in Stacks, NEW t \in Stacks, InUse(s), InUse(t), s # t
  PROVE  Home(s).stack # Home(t).stack /\ (pc[t] # "run" => Home(s).stack # made[t])
<1>1. pc[t] # "run" => pc[s] = "run" /\ (made[t] = t \/ ~InUse(made[t]))
  BY DEF CallsInv, Call
<1>2. pc[s] # "run" => pc[t] = "run" /\ (made[s] = s \/ ~InUse(made[s]))
  BY DEF CallsInv, Call
<1> QED
  BY <1>1, <1>2 DEF Home

\* The processor's stack pointer is in the stack of its thread's code.
LEMMA OnHome ==
  ASSUME TypeOK, CpuInv
  PROVE  /\ esp.stack = Home(me).stack /\ esp.h \in Nat /\ esp.h <= MaxDepth
         /\ IF at = "run" THEN esp.h + 1 = Base(me)
            ELSE esp.h >= Base(me) /\ Saved(stk[esp.stack], me, Base(me), esp.h)
<1>1. me \in Stacks /\ esp \in Pointer /\ MaxDepth \in Nat
  BY Types
<1>2. Base(me) \in {1, 2} /\ Base(me) = Home(me).h + 1 /\ Home(me).h \in {0, 1}
  BY <1>1, Homes
<1>3. esp.h \in Nat /\ esp.h <= MaxDepth
  BY <1>1 DEF Pointer
<1>4. CASE at = "run"
  BY <1>2, <1>3, <1>4 DEF CpuInv
<1>5. CASE at # "run"
  BY <1>1, <1>2, <1>3, <1>5 DEF CpuInv, Parked, Saved
<1> QED
  BY <1>4, <1>5

------------------------------------------------------------------------------
(* What steps keep of what they do not touch.                              *)

\* The same threads are in use, in the same places.
LEMMA InUseKept ==
  ASSUME used' = used, \A i \in 0..(used - 1) : threads'[i].stack = threads[i].stack
  PROVE  \A s : InUse(s)' <=> InUse(s)
BY DEF InUse

\* A thread is saved as it was when neither its code nor the frames of the
\* stack it is on change, also when its TCB moves.
LEMMA ParkedKept ==
  ASSUME NEW i, NEW j, NEW t, t = threads[i].stack, threads'[j] = threads[i],
         Parked(threads[i].esp, t), pc'[t] = pc[t], made'[t] = made[t],
         stk'[Home(t).stack] = stk[Home(t).stack]
  PROVE  Parked(threads[j].esp, threads[j].stack)'
<1>1. Home(t)' = Home(t)
  BY DEF Home
<1> QED
  BY <1>1 DEF Parked, Base, Home

\* The stacks stay where they are.
LEMMA StacksKept ==
  ASSUME StacksInv, UNCHANGED <<used, made, avail, dead>>,
         \A i \in 0..(used - 1) : threads'[i].stack = threads[i].stack
  PROVE  StacksInv'
<1>1. \A s : InUse(s)' <=> InUse(s)
  BY InUseKept
<1> QED
  BY <1>1 DEF StacksInv, Taken

\* Calls are as far as they were: the TCB past the last one and the frame in
\* the new stack are not touched.
LEMMA CallsKept ==
  ASSUME TypeOK, CallsInv, UNCHANGED <<used, pc, made, dir, slot, avail, dead>>,
         \A i \in 0..(used - 1) : threads'[i].stack = threads[i].stack,
         threads'[used] = threads[used],
         \A s \in Stacks : pc[s] \in {"leave", "count", "publish"} =>
           stk'[made[s]][1] = stk[made[s]][1]
  PROVE  CallsInv'
<1>1. \A s : InUse(s)' <=> InUse(s)
  BY InUseKept
<1>2. \A s : Taken(s)' <=> Taken(s)
  BY DEF Taken
<1>3. ASSUME NEW s \in Stacks, Call(s) PROVE Call(s)'
  <2>1. pc[s] = "kill" => threads'[slot[s]].stack = threads[slot[s]].stack
    <3>1. slot[s] \in Nat /\ used \in Nat
      BY Types, ThreadsAssumption DEF TypeOK
    <3>2. pc[s] = "kill" => slot[s] \in 0..(used - 1)
      BY <1>3, <3>1 DEF Call
    <3> QED
      BY <3>2
  <2>2. pc[s] \in {"leave", "count", "publish"} =>
          Saved(stk'[made[s]], made[s], 1, 1)
    <3>1. (1 + 1)..1 = {}
      OBVIOUS
    <3>2. pc[s] \in {"leave", "count", "publish"} =>
            /\ Saved(stk[made[s]], made[s], 1, 1)
            /\ stk'[made[s]][1] = stk[made[s]][1]
      BY <1>3 DEF Call
    <3> QED
      BY <3>1, <3>2 DEF Saved
  <2> QED
    BY <1>1, <1>2, <1>3, <2>1, <2>2 DEF Call
<1> QED
  BY <1>3 DEF CallsInv

\* A step that leaves threads, frames and calls alone.
LEMMA Untouched ==
  ASSUME KernelInv, UNCHANGED <<threads, used, stk, calls, alloc>>
  PROVE  /\ StacksInv' /\ CallsInv'
         /\ \A s : InUse(s)' <=> InUse(s)
         /\ \A s : Home(s)' = Home(s)
         /\ \A i \in 0..(used - 1) : Parked(threads[i].esp, threads[i].stack) =>
              Parked(threads[i].esp, threads[i].stack)'
<1> USE DEF calls, alloc
<1>1. StacksInv'
  BY StacksKept DEF KernelInv
<1>2. CallsInv'
  BY CallsKept DEF KernelInv
<1>3. \A s : InUse(s)' <=> InUse(s)
  BY InUseKept
<1>4. \A s : Home(s)' = Home(s)
  BY DEF Home
<1>5. ASSUME NEW i \in 0..(used - 1), Parked(threads[i].esp, threads[i].stack)
      PROVE  Parked(threads[i].esp, threads[i].stack)'
  BY <1>5, ParkedKept
<1> QED
  BY <1>1, <1>2, <1>3, <1>4, <1>5

\* A step of the data, of the flag or of idt_init.
LEMMA KernelStays ==
  ASSUME KernelInv,
         UNCHANGED <<threads, used, current, piti, me, esp, at, nxt, isv, stk, calls, alloc,
                     mmu>>,
         ifl' \in BOOLEAN, eax' \in Stacks \cup {Junk}, live' \in SUBSET Stacks,
         ifl' = ifl \/ at = "run"
  PROVE  KernelInv'
<1> USE DEF mmu
<1>1. TypeOK'
  BY DEF KernelInv, TypeOK, calls, alloc
<1>2. /\ StacksInv' /\ CallsInv'
      /\ \A s : InUse(s)' <=> InUse(s)
      /\ \A s : Home(s)' = Home(s)
      /\ \A i \in 0..(used - 1) : Parked(threads[i].esp, threads[i].stack) =>
           Parked(threads[i].esp, threads[i].stack)'
  BY Untouched
<1>3. CpuInv'
  <2>1. Parked(esp, me) => Parked(esp, me)'
    BY <1>2 DEF Parked, Base, calls
  <2> QED
    BY <1>2, <2>1 DEF KernelInv, CpuInv
<1>4. ThreadsInv'
  BY <1>2 DEF KernelInv, ThreadsInv
<1>5. EoiInv'
  BY DEF KernelInv, EoiInv
<1> QED
  BY <1>1, <1>2, <1>3, <1>4, <1>5 DEF KernelInv

\* A frame of the running thread's stack is left: the thread goes on where the
\* frame says, and nothing else of the threads changes.
LEMMA FrameLeft ==
  ASSUME KernelInv, at \in {"isr", "exit"},
         UNCHANGED <<threads, used, current, me, stk, calls, alloc, mmu>>,
         esp' = [esp EXCEPT !.h = @ - 1],
         at' = Top(esp).at \/ (Top(esp).kind # "irq" /\ at' = "run")
  PROVE  /\ esp' \in Pointer /\ Top(esp) \in Frame /\ at' \in {"run", "exit"}
         /\ CpuInv' /\ ThreadsInv' /\ StacksInv' /\ CallsInv'
<1>0. TypeOK /\ CpuInv /\ ThreadsInv
  BY DEF KernelInv
<1>1. /\ me \in Stacks /\ MaxDepth \in Nat /\ esp \in Pointer
      /\ stk \in [Stacks -> [1..MaxDepth -> Frame]]
  BY <1>0, Types
<1> DEFINE f == stk[esp.stack]
           h == esp.h
           b == Base(me)
<1>2. /\ b \in {1, 2} /\ b = Home(me).h + 1 /\ Home(me).h \in {0, 1} /\ b \in Nat
      /\ Home(me).stack \in Stacks
  BY <1>0, <1>1, Homes
<1>3. esp.stack = Home(me).stack /\ Saved(f, me, b, h)
  BY <1>0, OnHome
<1> HIDE DEF f, h, b
<1>4. /\ h \in Nat /\ h >= b /\ h <= MaxDepth
      /\ f[h].who = me /\ (f[h].kind # "irq" => h = b)
      /\ h = b => f[h].at = "run"
      /\ h # b => f[h].at = "exit" /\ h - 1 >= b /\ Saved(f, me, b, h - 1)
  <2>1. b \in Nat /\ Saved(f, me, b, h)
    BY <1>2, <1>3
  <2>2. TopIs(f, me, b, h)
    BY <2>1, TopFrame, Zenon
  <2> QED
    BY <2>2 DEF TopIs
<1>5. Top(esp) = f[h] /\ f[h] \in Frame
  <2>1. h # 0 /\ h \in 1..MaxDepth
    BY <1>1, <1>2, <1>4
  <2> QED
    BY <1>1, <1>2, <1>3, <2>1 DEF Top, f, h
<1>6. /\ esp' \in Pointer /\ esp'.stack = Home(me).stack /\ esp'.h = h - 1
      /\ esp' = [stack |-> Home(me).stack, h |-> h - 1]
  <2>1. h - 1 \in 0..MaxDepth
    BY <1>1, <1>2, <1>4
  <2>2. esp = [stack |-> Home(me).stack, h |-> h]
    BY <1>1, <1>3 DEF Pointer, h
  <2> QED
    BY <1>2, <2>1, <2>2 DEF Pointer
<1>7. at' = IF h = b THEN "run" ELSE "exit"
  BY <1>4, <1>5
<1>8. /\ StacksInv' /\ CallsInv'
      /\ \A s : InUse(s)' <=> InUse(s)
      /\ \A s : Home(s)' = Home(s)
      /\ \A i \in 0..(used - 1) : Parked(threads[i].esp, threads[i].stack) =>
           Parked(threads[i].esp, threads[i].stack)'
  BY Untouched
<1>9. IF at' = "run" THEN esp' = Home(me)' ELSE Parked(esp, me)'
  <2>1. CASE h = b
    <3>1. h - 1 = Home(me).h
      BY <1>2, <2>1
    <3> QED
      BY <1>6, <1>7, <1>8, <2>1, <3>1 DEF Home
  <2>2. CASE h # b
    <3>1. Saved(f, me, b, h - 1) /\ at' = "exit"
      BY <1>4, <1>7, <2>2
    <3>2. Base(me)' = b /\ stk'[esp'.stack] = f
      BY <1>3, <1>6, <1>8 DEF Base, b, f, calls
    <3> QED
      BY <1>6, <1>8, <3>1, <3>2 DEF Parked
  <2> QED
    BY <2>1, <2>2
<1>10. CpuInv'
  <2>1. ASSUME used = 0 PROVE at' = "run" /\ esp'.h <= 1
    <3>1. b = 1
      <4>1. pc[me] = "run"
        BY <1>0, <1>1, <2>1 DEF KernelInv, CallsInv, Call, InUse
      <4> QED
        BY <1>1, <1>2, <4>1 DEF Home
    <3> QED
      BY <1>0, <1>4, <1>7, <2>1, <3>1 DEF CpuInv, h
  <2> QED
    BY <1>0, <1>7, <1>8, <1>9, <2>1 DEF CpuInv
<1>11. ThreadsInv'
  BY <1>0, <1>7, <1>8 DEF ThreadsInv, mmu
<1> QED
  BY <1>5, <1>6, <1>7, <1>8, <1>10, <1>11

------------------------------------------------------------------------------
(* Interrupts, and the switch                                              *)

\* A frame pushed for the running thread touches no other thread's frames, and
\* the thread is saved.
LEMMA Pushes ==
  ASSUME KernelInv, NEW g \in Frame, g.who = me, PushFrame(g),
         \/ at = "run" /\ g.at = "run"
         \/ at = "exit" /\ g.kind = "irq" /\ g.at = "exit",
         UNCHANGED <<threads, used, current, me, calls, alloc, mmu>>,
         at' = "isr" \/ (at' = "save" /\ used > 0 /\ nxt' < used)
  PROVE  /\ esp' \in Pointer /\ stk' \in [Stacks -> [1..MaxDepth -> Frame]]
         /\ CpuInv' /\ ThreadsInv' /\ StacksInv' /\ CallsInv'
<1>0. TypeOK /\ CpuInv /\ ThreadsInv /\ StacksInv /\ CallsInv
  BY DEF KernelInv
<1>1. /\ me \in Stacks /\ MaxDepth \in Nat \ {0} /\ esp \in Pointer /\ used \in Nat
      /\ stk \in [Stacks -> [1..MaxDepth -> Frame]]
  BY <1>0, Types
<1> DEFINE o == Home(me).stack
           f == stk[o]
           h == esp.h
           b == Base(me)
<1>2. /\ b \in {1, 2} /\ b = Home(me).h + 1 /\ Home(me).h \in {0, 1} /\ b \in Nat \ {0}
      /\ o \in Stacks
  BY <1>0, <1>1, Homes
<1>3. /\ esp.stack = o /\ h \in Nat
      /\ IF at = "run" THEN h + 1 = b ELSE h >= b /\ Saved(f, me, b, h)
  BY <1>0, OnHome
<1>4. /\ h < MaxDepth
      /\ esp' = [stack |-> o, h |-> h + 1]
      /\ stk' = [stk EXCEPT ![o] = [f EXCEPT ![h + 1] = g]]
  BY <1>1, <1>3 DEF PushFrame, Pointer
<1> HIDE DEF f, h, b, o
<1>5. DOMAIN f = 1..MaxDepth /\ f \in [1..MaxDepth -> Frame]
  BY <1>1, <1>2 DEF f
<1>6. Saved([f EXCEPT ![h + 1] = g], me, b, h + 1)
  BY <1>2, <1>3, <1>4, <1>5, FramePushed
<1>7. /\ esp' \in Pointer /\ stk' \in [Stacks -> [1..MaxDepth -> Frame]]
      /\ stk'[o] = [f EXCEPT ![h + 1] = g] /\ \A s \in Stacks \ {o} : stk'[s] = stk[s]
  <2>1. h + 1 \in 0..MaxDepth
    BY <1>1, <1>3, <1>4
  <2>2. [f EXCEPT ![h + 1] = g] \in [1..MaxDepth -> Frame]
    BY <1>5
  <2> QED
    BY <1>1, <1>2, <1>4, <2>1, <2>2 DEF Pointer
<1>8. /\ \A s : InUse(s)' <=> InUse(s)
      /\ \A s : Home(s)' = Home(s)
  <2>1. \A s : InUse(s)' <=> InUse(s)
    BY InUseKept
  <2> QED
    BY <2>1 DEF Home, calls
<1>9. Parked(esp, me)'
  <2>1. Base(me)' = b /\ Home(me)' = Home(me) /\ me' = me
    BY <1>8 DEF Base, b
  <2>2. stk'[esp'.stack] = [f EXCEPT ![h + 1] = g] /\ esp'.h = h + 1 /\ esp'.stack = o
    BY <1>4, <1>7
  <2> QED
    BY <1>6, <2>1, <2>2 DEF Parked, o
<1>10. CpuInv'
  <2>1. used = 0 => esp'.h <= 1 /\ at' = "isr" /\ me = Boot
    <3>1. ASSUME used = 0 PROVE b = 1
      <4>1. pc[me] = "run"
        BY <1>0, <1>1, <3>1 DEF CallsInv, Call, InUse
      <4> QED
        BY <1>1, <1>2, <4>1 DEF Home
    <3>2. used = 0 => at = "run" /\ at' = "isr" /\ me = Boot
      BY <1>0 DEF CpuInv
    <3> QED
      BY <1>3, <1>4, <3>1, <3>2
  <2> QED
    BY <1>0, <1>8, <1>9, <2>1 DEF CpuInv
<1>11. ThreadsInv'
  <2>1. ASSUME NEW i \in 0..(used - 1), threads[i].stack # me
        PROVE  Parked(threads[i].esp, threads[i].stack)'
    <3>1. threads[i].stack \in Stacks /\ InUse(threads[i].stack) /\ InUse(me)
      BY <1>0, <1>1 DEF ThreadsInv, InUse, CpuInv
    <3>2. Home(threads[i].stack).stack # o /\ Home(threads[i].stack).stack \in Stacks
      BY <1>0, <1>1, <2>1, <3>1, Apart, Homes DEF o
    <3>3. Parked(threads[i].esp, threads[i].stack)
      BY <1>0, <2>1 DEF ThreadsInv
    <3> QED
      BY <1>7, <3>2, <3>3, ParkedKept DEF calls
  <2> QED
    BY <1>0, <2>1 DEF ThreadsInv, mmu
<1>12. StacksInv'
  BY <1>0, StacksKept DEF calls, alloc
<1>13. CallsInv'
  <2>1. ASSUME NEW s \in Stacks, pc[s] \in {"leave", "count", "publish"}
        PROVE  stk'[made[s]][1] = stk[made[s]][1]
    <3>1. made[s] \in Stacks /\ InUse(s) /\ ~InUse(made[s]) /\ used > 0
      <4>1. Call(s)
        BY <1>0, <2>1 DEF CallsInv
      <4>2. InUse(s) /\ ~InUse(made[s])
        BY <2>1, <4>1 DEF Call
      <4>3. made[s] \in Stacks
        BY <1>0 DEF TypeOK
      <4>4. used > 0
        BY <1>1, <4>2 DEF InUse
      <4> QED
        BY <4>2, <4>3, <4>4
    <3>2. CASE made[s] # o
      BY <1>7, <3>1, <3>2
    <3>3. CASE made[s] = o
      <4>1. s = me
        BY <1>0, <1>1, <2>1, <3>1, <3>3, Apart DEF CpuInv, o
      <4>2. pc[me] = "leave"
        BY <2>1, <3>1, <3>3, <4>1 DEF Home, o
      <4>3. b = 2
        BY <1>1, <1>2, <4>2 DEF Home
      <4>4. h + 1 # 1 /\ 1 \in 1..MaxDepth
        BY <1>1, <1>3, <4>3
      <4>5. stk'[o][1] = f[1]
        BY <1>5, <1>7, <4>4
      <4> QED
        BY <3>3, <4>5 DEF f
    <3> QED
      BY <3>2, <3>3
  <2> QED
    BY <1>0, <2>1, CallsKept DEF calls, alloc
<1> QED
  BY <1>7, <1>10, <1>11, <1>12, <1>13

\* A tick: it can land in a thread, wherever that has its stack pointer, or at
\* the end of a switch, never inside one.
LEMMA TimerIrqKeeps ==
  ASSUME KernelInv, Undisturbed, TimerIrq
  PROVE  KernelInv'
<1> DEFINE g == [kind |-> "irq", who |-> me, at |-> at, nxt |-> nxt]
<1>0. TypeOK
  BY DEF KernelInv
<1>1. at \in {"run", "exit"}
  <2>1. at # "isr" /\ (at \in {"save", "next", "load", "eoi"} => TicksInYield)
    BY DEF TimerIrq, KernelInv, EoiInv
  <2>2. at \in {"save", "next", "load", "eoi"} => Yielders = {}
    BY <2>1 DEF Undisturbed
  <2>3. at \notin {"save", "next", "load", "eoi"}
    BY <2>2 DEF TimerIrq, KernelInv, EoiInv
  <2> QED
    BY <1>0, <2>1, <2>3 DEF TypeOK, Where
<1>2. g \in Frame /\ g.who = me /\ g.kind = "irq" /\ g.at = at
  BY <1>0 DEF TypeOK, Frame
<1>3. /\ PushFrame(g) /\ at' = "isr" /\ ifl' = FALSE /\ isv' = TRUE /\ eax' = Junk
      /\ ~isv
      /\ UNCHANGED <<threads, used, current, piti, me, nxt, calls, alloc, live, mmu>>
  BY DEF TimerIrq
<1> HIDE DEF g
<1>4. /\ esp' \in Pointer /\ stk' \in [Stacks -> [1..MaxDepth -> Frame]]
      /\ CpuInv' /\ ThreadsInv' /\ StacksInv' /\ CallsInv'
  BY <1>1, <1>2, <1>3, Pushes
<1>5. TypeOK'
  BY <1>0, <1>3, <1>4 DEF TypeOK, Pointer, Frame, Where, calls, alloc, mmu
<1>6. EoiInv'
  BY <1>1, <1>3 DEF KernelInv, EoiInv
<1> QED
  BY <1>4, <1>5, <1>6 DEF KernelInv

\* switch_thread(true) with one thread.
LEMMA SwitchAloneKeeps ==
  ASSUME KernelInv, SwitchAlone
  PROVE  KernelInv'
<1>0. TypeOK
  BY DEF KernelInv
<1>1. /\ at = "isr" /\ esp' = [esp EXCEPT !.h = @ - 1]
      /\ at' = Top(esp).at /\ nxt' = Top(esp).nxt /\ ifl' = TRUE /\ isv' = FALSE
      /\ UNCHANGED <<threads, used, current, piti, me, stk, calls, alloc, data, mmu>>
  BY DEF SwitchAlone, Iret
<1>2. /\ esp' \in Pointer /\ Top(esp) \in Frame /\ at' \in {"run", "exit"}
      /\ CpuInv' /\ ThreadsInv' /\ StacksInv' /\ CallsInv'
  BY <1>1, FrameLeft
<1>3. TypeOK'
  <2>1. nxt' \in Slot
    BY <1>1, <1>2 DEF Frame
  <2> QED
    BY <1>0, <1>1, <1>2, <2>1 DEF TypeOK, Pointer, Where, calls, alloc, data, mmu
<1>4. EoiInv'
  <2>1. piti' = FALSE /\ isv' = FALSE
    BY <1>0, <1>1 DEF KernelInv, EoiInv, TypeOK
  <2> QED
    BY <1>2, <2>1, Zenon DEF EoiInv
<1> QED
  BY <1>2, <1>3, <1>4 DEF KernelInv

\* The round robin stays within the threads in use.
LEMMA SuccessorInUse ==
  ASSUME used \in Nat, used >= 2, current \in 0..(used - 1)
  PROVE  Successor \in 0..(used - 1) /\ Successor # current
BY DEF Successor

\* The current thread is one of those in use.
LEMMA CurrentInUse ==
  ASSUME KernelInv, used > 0
  PROVE  current \in 0..(used - 1)
<1>1. used \in Nat /\ current \in Nat
  BY Types DEF KernelInv
<1>2. current < used
  BY <1>1 DEF KernelInv, ThreadsInv
<1> QED
  BY <1>1, <1>2

\* switch_thread(true)
LEMMA SwitchFromTimerKeeps ==
  ASSUME KernelInv, SwitchFromTimer
  PROVE  KernelInv'
<1>0. TypeOK /\ CpuInv
  BY DEF KernelInv
<1>1. /\ at = "isr" /\ used >= 2 /\ piti' = TRUE /\ nxt' = Successor /\ at' = "save"
      /\ UNCHANGED <<threads, used, current, me, esp, ifl, isv, stk, calls, alloc, data, mmu>>
  BY DEF SwitchFromTimer, Owed
<1>2. used \in Nat /\ used > 0 /\ \A i \in 0..(used - 1) : i \in Slot
  BY <1>0, <1>1, Types
<1>3. nxt' \in 0..(used - 1) /\ nxt' \in Slot
  BY <1>1, <1>2, SuccessorInUse, CurrentInUse
<1>4. /\ StacksInv' /\ CallsInv'
      /\ \A s : InUse(s)' <=> InUse(s)
      /\ \A s : Home(s)' = Home(s)
      /\ \A i \in 0..(used - 1) : Parked(threads[i].esp, threads[i].stack) =>
           Parked(threads[i].esp, threads[i].stack)'
  BY <1>1, Untouched
<1>5. TypeOK'
  BY <1>0, <1>1, <1>3 DEF TypeOK, Where, calls, alloc, data, mmu
<1>6. CpuInv'
  <2>1. nxt' < used
    BY <1>2, <1>3
  <2>2. Parked(esp, me)'
    BY <1>0, <1>1, <1>4 DEF CpuInv, Parked, Base, calls
  <2> QED
    BY <1>0, <1>1, <1>2, <1>4, <2>1, <2>2 DEF CpuInv
<1>7. ThreadsInv'
  BY <1>1, <1>4 DEF KernelInv, ThreadsInv, mmu
<1>8. EoiInv'
  BY <1>1 DEF KernelInv, EoiInv
<1> QED
  BY <1>4, <1>5, <1>6, <1>7, <1>8 DEF KernelInv

\* switch_thread(false)
LEMMA YieldKeeps ==
  ASSUME KernelInv, Yield
  PROVE  KernelInv'
<1> DEFINE g == [kind |-> "yield", who |-> me, at |-> "run", nxt |-> 0]
<1>0. TypeOK
  BY DEF KernelInv
<1>1. /\ at = "run" /\ me \in Yielders /\ used >= 2 /\ PushFrame(g)
      /\ nxt' = Successor /\ at' = "save" /\ live' = live \ {me}
      /\ UNCHANGED <<threads, used, current, piti, me, ifl, isv, calls, alloc, eax, mmu>>
  BY DEF Yield, Here
<1>2. /\ used \in Nat /\ used > 0 /\ \A i \in 0..(used - 1) : i \in Slot
      /\ 0 \in Slot /\ me \in Stacks
  BY <1>0, <1>1, Types
<1>3. nxt' \in 0..(used - 1) /\ nxt' \in Slot
  BY <1>1, <1>2, SuccessorInUse, CurrentInUse
<1>4. g \in Frame /\ g.who = me /\ g.at = "run"
  BY <1>2 DEF Frame, Where
<1> HIDE DEF g
<1>5. nxt' < used
  BY <1>2, <1>3
<1>6. /\ esp' \in Pointer /\ stk' \in [Stacks -> [1..MaxDepth -> Frame]]
      /\ CpuInv' /\ ThreadsInv' /\ StacksInv' /\ CallsInv'
  BY <1>1, <1>2, <1>4, <1>5, Pushes
<1>7. TypeOK'
  BY <1>0, <1>1, <1>3, <1>6 DEF TypeOK, Pointer, Frame, Where, calls, alloc, mmu
<1>8. EoiInv'
  BY <1>1 DEF KernelInv, EoiInv
<1> QED
  BY <1>6, <1>7, <1>8 DEF KernelInv

\* movl %esp, 4(%edi): the running thread is saved too, until the switch has
\* left its stack.
LEMMA SaveEspKeeps ==
  ASSUME KernelInv, SaveEsp
  PROVE  KernelInv'
<1>0. TypeOK /\ CpuInv /\ ThreadsInv /\ StacksInv /\ CallsInv
  BY DEF KernelInv
<1>1. /\ at = "save" /\ threads' = [threads EXCEPT ![current].esp = esp] /\ at' = "next"
      /\ UNCHANGED <<used, current, piti, me, esp, nxt, ifl, isv, stk, calls, alloc, data, mmu>>
  BY DEF SaveEsp
<1>2. /\ used \in Nat /\ used > 0 /\ \A i \in 0..(used - 1) : i \in Slot
      /\ DOMAIN threads = Slot
  <2>1. used \in Nat /\ used # 0
    BY <1>0, <1>1, Types DEF CpuInv
  <2> QED
    BY <1>0, <2>1, Types
<1>3. current \in 0..(used - 1) /\ threads[current].stack = me
  BY <1>0, <1>1, <1>2, CurrentInUse DEF CpuInv
<1>4. /\ threads' \in [Slot -> TcbType]
      /\ threads'[current].esp = esp
      /\ \A i \in Slot : /\ threads'[i].stack = threads[i].stack
                         /\ threads'[i].cr3 = threads[i].cr3
                         /\ i # current => threads'[i] = threads[i]
  <2> DEFINE changed == [threads[current] EXCEPT !.esp = esp]
  <2>1. current \in Slot /\ threads \in [Slot -> TcbType] /\ esp \in Pointer
    BY <1>0, Types
  <2>2. /\ changed \in TcbType /\ changed.esp = esp
        /\ changed.stack = threads[current].stack /\ changed.cr3 = threads[current].cr3
    BY <2>1 DEF TcbType, Pointer
  <2>3. threads' = [threads EXCEPT ![current] = changed]
    BY <1>1
  <2> HIDE DEF changed
  <2> QED
    BY <2>1, <2>2, <2>3
<1>5. threads'[used] = threads[used]
  <2>1. used # current
    BY <1>2, <1>3
  <2> QED
    BY <1>1, <2>1
<1>6. TypeOK'
  BY <1>0, <1>1, <1>4 DEF TypeOK, TcbType, Where, calls, alloc, data, mmu
<1>7. StacksInv'
  BY <1>0, <1>1, <1>2, <1>4, StacksKept DEF calls, alloc
<1>8. CallsInv'
  BY <1>0, <1>1, <1>2, <1>4, <1>5, CallsKept DEF calls, alloc
<1>9. /\ \A s : InUse(s)' <=> InUse(s)
      /\ \A s : Home(s)' = Home(s)
  <2>1. \A s : InUse(s)' <=> InUse(s)
    BY <1>1, <1>2, <1>4, InUseKept
  <2> QED
    BY <1>1, <2>1 DEF Home, calls
<1>10. Parked(esp, me)'
  BY <1>0, <1>1, <1>9 DEF CpuInv, Parked, Base, calls
<1>11. CpuInv'
  <2>1. threads'[current].stack = me /\ me' = me /\ current' = current
    BY <1>1, <1>2, <1>3, <1>4
  <2> QED
    BY <1>0, <1>1, <1>2, <1>9, <1>10, <2>1 DEF CpuInv
<1>12. ThreadsInv'
  <2>1. ASSUME NEW i \in 0..(used - 1) PROVE Parked(threads[i].esp, threads[i].stack)'
    <3>1. CASE i = current
      <4>1. threads'[i].esp = esp /\ threads'[i].stack = me /\ esp' = esp /\ me' = me
        BY <1>1, <1>2, <1>3, <1>4, <3>1
      <4> QED
        BY <1>10, <4>1 DEF Parked, Base, Home
    <3>2. CASE i # current
      <4>1. threads[i].stack # me /\ threads'[i] = threads[i]
        BY <1>0, <1>2, <1>3, <1>4, <3>2 DEF ThreadsInv
      <4>2. Parked(threads[i].esp, threads[i].stack)
        BY <1>0, <4>1 DEF ThreadsInv
      <4> QED
        BY <1>1, <4>1, <4>2, ParkedKept DEF calls
    <3> QED
      BY <3>1, <3>2
  <2>2. /\ \A i \in 0..(used - 1) : /\ threads'[i].stack = threads[i].stack
                                    /\ threads'[i].cr3 = threads[i].cr3
        /\ threads'[current].stack = threads[current].stack
        /\ threads'[current].cr3 = threads[current].cr3
    BY <1>2, <1>3, <1>4
  <2> QED
    BY <1>0, <1>1, <1>2, <2>1, <2>2 DEF ThreadsInv, mmu
<1>13. EoiInv'
  BY <1>1 DEF KernelInv, EoiInv
<1> QED
  BY <1>6, <1>7, <1>8, <1>11, <1>12, <1>13 DEF KernelInv

\* movl %esi, current_task_TCB
LEMMA SetCurrentKeeps ==
  ASSUME KernelInv, SetCurrent
  PROVE  KernelInv'
<1>0. TypeOK /\ CpuInv /\ ThreadsInv
  BY DEF KernelInv
<1>1. /\ at = "next" /\ current' = nxt /\ at' = "load"
      /\ UNCHANGED <<threads, used, piti, me, esp, nxt, ifl, isv, stk, calls, alloc, data, mmu>>
  BY DEF SetCurrent
<1>2. /\ StacksInv' /\ CallsInv'
      /\ \A s : InUse(s)' <=> InUse(s)
      /\ \A s : Home(s)' = Home(s)
      /\ \A i \in 0..(used - 1) : Parked(threads[i].esp, threads[i].stack) =>
           Parked(threads[i].esp, threads[i].stack)'
  BY <1>1, Untouched
<1>3. TypeOK'
  BY <1>0, <1>1 DEF TypeOK, Where, calls, alloc, data, mmu
<1>4. CpuInv'
  <2>1. Parked(esp, me)'
    BY <1>0, <1>1, <1>2 DEF CpuInv, Parked, Base, calls
  <2> QED
    BY <1>0, <1>1, <1>2, <2>1 DEF CpuInv
<1>5. ThreadsInv'
  <2>1. used # 0 /\ nxt < used
    BY <1>0, <1>1 DEF CpuInv
  <2> QED
    BY <1>0, <1>1, <1>2, <2>1 DEF ThreadsInv
<1>6. EoiInv'
  BY <1>1 DEF KernelInv, EoiInv
<1> QED
  BY <1>2, <1>3, <1>4, <1>5, <1>6 DEF KernelInv

\* Going on from where a thread in use is saved, the processor has its
\* registers.
LEMMA Resumed ==
  ASSUME TypeOK, NEW e, NEW t \in Stacks, Parked(e, t)
  PROVE  e.stack \in Stacks /\ e.h \in 0..MaxDepth /\ Top(e).who = t
<1>1. Base(t) \in {1, 2} /\ Home(t).stack \in Stacks /\ MaxDepth \in Nat
  BY Homes, Types
<1>2. Base(t) \in Nat
  BY <1>1
<1>3. TopIs(stk[e.stack], t, Base(t), e.h) /\ e.stack = Home(t).stack
  BY <1>2, TopFrame DEF Parked
<1>4. e.h \in Nat /\ e.h >= Base(t) /\ e.h <= MaxDepth /\ stk[e.stack][e.h].who = t
  BY <1>3 DEF TopIs
<1>5. e.h # 0 /\ e.h \in 0..MaxDepth
  BY <1>1, <1>4
<1> QED
  BY <1>1, <1>3, <1>4, <1>5 DEF Top

\* A TCB's esp is a pointer once its stack is known.
LEMMA SavedPointer ==
  ASSUME TypeOK, NEW i \in Slot, threads[i].esp.stack \in Stacks
  PROVE  threads[i].esp \in Pointer
BY DEF TypeOK, Pointer

\* movl 4(%esi), %esp
LEMMA LoadEspKeeps ==
  ASSUME KernelInv, LoadEsp
  PROVE  KernelInv'
<1> DEFINE e == threads[nxt].esp
           t == threads[nxt].stack
<1>0. TypeOK /\ CpuInv /\ ThreadsInv
  BY DEF KernelInv
<1>1. /\ at = "load" /\ esp' = e /\ me' = Top(e).who /\ at' = "eoi"
      /\ tss' = t /\ cr3' = threads[nxt].cr3
      /\ UNCHANGED <<threads, used, current, piti, nxt, ifl, isv, stk, calls, alloc, data>>
  BY DEF LoadEsp
<1>2. used > 0 /\ current = nxt /\ nxt < used
  BY <1>0, <1>1, Types DEF CpuInv
<1>3. nxt \in 0..(used - 1) /\ nxt \in Slot
  <2>1. current \in 0..(used - 1)
    BY <1>2, CurrentInUse
  <2> QED
    BY <1>0, <1>2, <2>1, Types
<1>4. Parked(e, t) /\ t \in Stacks /\ threads[nxt].cr3 \in Dirs \ {NULL}
  BY <1>0, <1>1, <1>3 DEF ThreadsInv
<1>5. e \in Pointer /\ Top(e).who = t
  <2>1. e.stack \in Stacks /\ Top(e).who = t
    BY <1>0, <1>4, Resumed
  <2> QED
    BY <1>0, <1>3, <2>1, SavedPointer
<1>6. /\ StacksInv' /\ CallsInv'
      /\ \A s : InUse(s)' <=> InUse(s)
      /\ \A s : Home(s)' = Home(s)
      /\ \A i \in 0..(used - 1) : Parked(threads[i].esp, threads[i].stack) =>
           Parked(threads[i].esp, threads[i].stack)'
  BY <1>1, Untouched
<1>7. me' = t /\ current' = nxt /\ used' = used /\ threads' = threads
  BY <1>1, <1>2, <1>5
<1>8. TypeOK'
  BY <1>0, <1>1, <1>4, <1>5, <1>7 DEF TypeOK, Where, Pointer, calls, alloc, data
<1>9. CpuInv'
  <2>1. Parked(esp, me)'
    <3>1. Home(t)' = Home(t) /\ pc' = pc
      BY <1>1, <1>6 DEF calls
    <3> QED
      BY <1>1, <1>4, <1>7, <3>1 DEF Parked, Base, Home
  <2>2. InUse(me)'
    BY <1>3, <1>7 DEF InUse
  <2> QED
    BY <1>1, <1>2, <1>7, <2>1, <2>2 DEF CpuInv
<1>10. ThreadsInv'
  <2>1. used # 0
    BY <1>0, <1>2, Types
  <2> QED
    BY <1>0, <1>1, <1>2, <1>6, <1>7, <2>1 DEF ThreadsInv
<1>11. EoiInv'
  BY <1>1 DEF KernelInv, EoiInv
<1> QED
  BY <1>6, <1>8, <1>9, <1>10, <1>11 DEF KernelInv

\* The EOI of the tick that started the switch, if one did.
LEMMA SendEoiKeeps ==
  ASSUME KernelInv, SendEoi
  PROVE  KernelInv'
<1>0. TypeOK /\ CpuInv /\ ThreadsInv
  BY DEF KernelInv
<1>1. /\ at = "eoi" /\ at' = "exit" /\ eax' = Junk
      /\ IF piti THEN isv' = FALSE /\ piti' = FALSE /\ ifl' = TRUE
                 ELSE UNCHANGED <<isv, piti, ifl>>
      /\ UNCHANGED <<threads, used, current, me, esp, nxt, stk, calls, alloc, live, mmu>>
  BY DEF SendEoi
<1>2. /\ StacksInv' /\ CallsInv'
      /\ \A s : InUse(s)' <=> InUse(s)
      /\ \A s : Home(s)' = Home(s)
      /\ \A i \in 0..(used - 1) : Parked(threads[i].esp, threads[i].stack) =>
           Parked(threads[i].esp, threads[i].stack)'
  BY <1>1, Untouched
<1>3. piti' \in BOOLEAN /\ isv' \in BOOLEAN /\ ifl' \in BOOLEAN
  BY <1>0, <1>1 DEF TypeOK
<1>4. TypeOK'
  BY <1>0, <1>1, <1>3 DEF TypeOK, Where, calls, alloc, mmu
<1>5. CpuInv'
  <2>1. Parked(esp, me)'
    BY <1>0, <1>1, <1>2 DEF CpuInv, Parked, Base, calls
  <2> QED
    BY <1>0, <1>1, <1>2, <2>1 DEF CpuInv
<1>6. ThreadsInv'
  BY <1>0, <1>1, <1>2 DEF ThreadsInv, mmu
<1>7. EoiInv'
  <2>1. piti' = FALSE /\ isv' = FALSE
    BY <1>0, <1>1 DEF KernelInv, EoiInv, TypeOK
  <2> QED
    BY <1>1, <2>1, Zenon DEF EoiInv
<1> QED
  BY <1>2, <1>4, <1>5, <1>6, <1>7 DEF KernelInv

\* The frame on top of the stack is left.
LEMMA ExitKeeps ==
  ASSUME KernelInv, Exit
  PROVE  KernelInv'
<1>0. TypeOK
  BY DEF KernelInv
<1>1. /\ at = "exit" /\ esp' = [esp EXCEPT !.h = @ - 1]
      /\ at' = Top(esp).at \/ (Top(esp).kind # "irq" /\ at' = "run")
      /\ nxt' \in {0, Top(esp).nxt} /\ ifl' \in {TRUE, ifl}
      /\ UNCHANGED <<threads, used, current, piti, me, isv, stk, calls, alloc, data, mmu>>
  BY DEF Exit, Iret
<1>2. /\ esp' \in Pointer /\ Top(esp) \in Frame /\ at' \in {"run", "exit"}
      /\ CpuInv' /\ ThreadsInv' /\ StacksInv' /\ CallsInv'
  BY <1>1, FrameLeft
<1>3. TypeOK'
  <2>1. nxt' \in Slot /\ ifl' \in BOOLEAN
    BY <1>0, <1>1, <1>2, Types DEF Frame, TypeOK
  <2> QED
    BY <1>0, <1>1, <1>2, <2>1 DEF TypeOK, Pointer, Where, calls, alloc, data, mmu
<1>4. EoiInv'
  <2>1. piti' = FALSE /\ isv' = FALSE
    BY <1>0, <1>1 DEF KernelInv, EoiInv, TypeOK
  <2> QED
    BY <1>2, <2>1, Zenon DEF EoiInv
<1> QED
  BY <1>2, <1>3, <1>4 DEF KernelInv

------------------------------------------------------------------------------
(* thread_init and new_thread                                              *)

\* The boot thread gets the first TCB.
LEMMA ThreadInitKeeps ==
  ASSUME KernelInv, ThreadInit
  PROVE  KernelInv'
<1> DEFINE rec == [[threads[0] EXCEPT !.stack = Boot] EXCEPT !.cr3 = cr3]
<1>0. TypeOK /\ CpuInv /\ ThreadsInv /\ StacksInv /\ CallsInv
  BY DEF KernelInv
<1>1. /\ used = 0 /\ at = "run" /\ current' = 0 /\ used' = 1
      /\ threads' = [threads EXCEPT ![0] = rec]
      /\ UNCHANGED <<piti, cpu, stk, calls, alloc, data, mmu>>
  <2>1. threads' = [threads EXCEPT ![0].stack = Boot, ![0].cr3 = cr3] /\ 0 \in DOMAIN threads
    BY <1>0, Types DEF ThreadInit
  <2>2. threads' = [threads EXCEPT ![0] = rec]
    BY <2>1
  <2> QED
    BY <2>2 DEF ThreadInit
<1>2. /\ 0 \in Slot /\ Boot \in Stacks /\ threads \in [Slot -> TcbType] /\ me = Boot
      /\ TCB_MAX_THREADS \in Nat \ {0} /\ cr3 \in Dirs \ {NULL} /\ current = 0
      /\ tss = Junk /\ esp = Home(me)
  BY <1>0, <1>1, Types DEF CpuInv, ThreadsInv, TypeOK
<1>3. rec \in TcbType /\ rec.stack = Boot /\ rec.cr3 = cr3
  BY <1>2 DEF TcbType
<1> HIDE DEF rec
<1>4. threads' \in [Slot -> TcbType] /\ threads'[0] = rec
  BY <1>1, <1>2, <1>3
<1>5. 0..(used' - 1) = {0}
  BY <1>1
<1>6. \A s : InUse(s)' <=> s = Boot
  BY <1>3, <1>4, <1>5 DEF InUse
<1>7. \A s \in Stacks : pc[s] = "run" /\ made[s] = s
  BY <1>0, <1>1 DEF CallsInv, Call, InUse
<1>8. \A s : Home(s)' = Home(s) /\ (Taken(s)' <=> Taken(s))
  BY <1>1 DEF Home, Taken, calls, alloc
<1>9. TypeOK'
  BY <1>0, <1>1, <1>2, <1>4 DEF TypeOK, TcbType, Slot, cpu, calls, alloc, data, mmu
<1>10. CpuInv'
  BY <1>1, <1>2, <1>3, <1>4, <1>6, <1>8 DEF CpuInv, cpu
<1>11. ThreadsInv'
  BY <1>1, <1>2, <1>3, <1>4, <1>5 DEF ThreadsInv, cpu, mmu
<1>12. StacksInv'
  <2>1. \A s \in Stacks \ {Boot} : Taken(s)
    BY <1>0, <1>1, <1>7 DEF StacksInv, InUse
  <2>2. ~Taken(Boot) /\ avail \cap dead = {}
    BY <1>0 DEF StacksInv
  <2> QED
    BY <1>1, <1>3, <1>4, <1>5, <1>8, <2>1, <2>2 DEF StacksInv, alloc
<1>13. CallsInv'
  BY <1>1, <1>7 DEF CallsInv, calls
<1>14. EoiInv'
  BY <1>1 DEF KernelInv, EoiInv, cpu
<1> QED
  BY <1>9, <1>10, <1>11, <1>12, <1>13, <1>14 DEF KernelInv

\* While a thread is in a call the others are not.
LEMMA OthersRun ==
  ASSUME KernelInv, OneAtATime, pc[me] # "run" \/ Alone
  PROVE  /\ \A s \in Stacks \ {me} : pc[s] = "run"
         /\ pc[me] # "run" => Call(me)
         /\ pc[me] = "run" => made[me] = me
<1>1. me \in Stacks /\ CallsInv
  BY Types DEF KernelInv
<1> QED
  BY <1>1 DEF OneAtATime, Alone, CallsInv

\* A call returns.
LEMMA LeavesCall ==
  ASSUME TypeOK, Leaves
  PROVE  /\ pc' \in [Stacks -> Point] /\ made' \in [Stacks -> Stacks]
         /\ dir' \in [Stacks -> Dirs \ {NULL}] /\ slot' \in [Stacks -> 0..TCB_MAX_THREADS]
         /\ pc'[me] = "run" /\ made'[me] = me
         /\ \A t \in Stacks \ {me} : pc'[t] = pc[t] /\ made'[t] = made[t]
<1>1. me \in Stacks /\ BootDir \in Dirs \ {NULL} /\ 0 \in 0..TCB_MAX_THREADS
  BY Types, ThreadsAssumption
<1>2. /\ pc \in [Stacks -> Point] /\ made \in [Stacks -> Stacks]
      /\ dir \in [Stacks -> Dirs \ {NULL}] /\ slot \in [Stacks -> 0..TCB_MAX_THREADS]
  BY DEF TypeOK
<1>3. "run" \in Point
  BY DEF Point
<1> QED
  BY <1>1, <1>2, <1>3 DEF Leaves, Goto

\* What a step of the running thread in its own code must show: the threads in
\* use and their frames are not its business.
LEMMA OwnStep ==
  ASSUME KernelInv, at = "run", used > 0,
         UNCHANGED <<used, current, piti, me, at, nxt, ifl, isv, mmu>>,
         \A i \in 0..(used - 1) : threads'[i] = threads[i],
         \A s \in Stacks \ {me} : /\ pc[s] = "run" /\ pc'[s] = "run"
                                  /\ made'[s] = made[s]
                                  /\ InUse(s) => stk'[s] = stk[s],
         esp' = Home(me)',
         IF pc'[me] = "run" THEN made'[me] = me ELSE Call(me)',
         TypeOK', StacksInv' \/ UNCHANGED <<made, avail, dead>>
  PROVE  KernelInv'
<1>0. /\ TypeOK /\ CpuInv /\ ThreadsInv /\ StacksInv /\ CallsInv /\ used \in Nat
      /\ me \in Stacks
  BY Types DEF KernelInv
<1>1. \A s : InUse(s)' <=> InUse(s)
  BY <1>0, InUseKept
<1>2. StacksInv'
  BY <1>0, StacksKept
<1>3. CallsInv'
  BY <1>0 DEF CallsInv
<1>4. CpuInv'
  <2>1. threads'[current] = threads[current]
    BY <1>0, CurrentInUse
  <2> QED
    BY <1>0, <1>1, <2>1 DEF CpuInv
<1>5. ThreadsInv'
  <2>1. ASSUME NEW i \in 0..(used - 1), threads[i].stack # me
        PROVE  Parked(threads[i].esp, threads[i].stack)'
    <3>1. threads[i].stack \in Stacks \ {me} /\ InUse(threads[i].stack)
      BY <1>0, <2>1 DEF ThreadsInv, InUse
    <3>2. Home(threads[i].stack).stack = threads[i].stack
      BY <3>1 DEF Home
    <3>3. Parked(threads[i].esp, threads[i].stack)
      BY <1>0, <2>1 DEF ThreadsInv
    <3> QED
      BY <3>1, <3>2, <3>3, ParkedKept
  <2>2. used # 0 /\ current \in 0..(used - 1)
    BY <1>0, CurrentInUse
  <2>3. /\ threads'[current] = threads[current] /\ me' = me /\ at' = at
        /\ current' = current /\ used' = used
        /\ cr3' = cr3 /\ tss' = tss
    BY <2>2 DEF mmu
  <2> QED
    BY <1>0, <2>1, <2>2, <2>3 DEF ThreadsInv
<1>6. EoiInv'
  BY DEF KernelInv, EoiInv
<1> QED
  BY <1>2, <1>3, <1>4, <1>5, <1>6 DEF KernelInv

\* The call, up to alloc_block.
LEMMA NewThreadKeeps ==
  ASSUME KernelInv, OneAtATime, NEW d \in Given, NewThread(d)
  PROVE  KernelInv'
<1>0. TypeOK /\ CpuInv /\ used \in Nat /\ used <= TCB_MAX_THREADS /\ me \in Stacks
      /\ TCB_MAX_THREADS \in Nat
  BY Types DEF KernelInv
<1>1. /\ at = "run" /\ pc[me] = "run" /\ used > 0 /\ Alone /\ used # TCB_MAX_THREADS
      /\ d # NULL /\ pc' = [pc EXCEPT ![me] = "alloc"] /\ dir' = [dir EXCEPT ![me] = d]
      /\ live' = live \ {me}
      /\ UNCHANGED <<threads, used, current, piti, cpu, stk, made, slot, alloc, eax, mmu>>
  BY DEF NewThread, Here, Goto
<1>2. /\ \A s \in Stacks \ {me} : pc[s] = "run"
      /\ made[me] = me
  BY <1>1, OthersRun
<1>3. pc'[me] = "alloc" /\ \A s \in Stacks \ {me} : pc'[s] = pc[s]
  BY <1>0, <1>1 DEF TypeOK
<1>4. TypeOK'
  <2>1. pc' \in [Stacks -> Point] /\ dir' \in [Stacks -> Dirs \ {NULL}]
    BY <1>0, <1>1, ThreadsAssumption DEF TypeOK, Point
  <2> QED
    BY <1>0, <1>1, <2>1 DEF TypeOK, cpu, alloc, mmu
<1>5. Call(me)'
  <2>1. InUse(me)'
    BY <1>0, <1>1 DEF CpuInv, InUse, cpu
  <2>2. used < TCB_MAX_THREADS
    BY <1>0, <1>1
  <2> QED
    BY <1>1, <1>2, <1>3, <2>1, <2>2 DEF Call, cpu
<1>6. esp' = Home(me)'
  BY <1>0, <1>1, <1>3 DEF CpuInv, Home, cpu
<1> QED
  BY <1>0, <1>1, <1>2, <1>3, <1>4, <1>5, <1>6, OwnStep DEF cpu, alloc

\* alloc_block finds a stack: it is the caller's alone.
LEMMA AllocStackKeeps ==
  ASSUME KernelInv, OneAtATime, AllocStack
  PROVE  KernelInv'
<1>0. TypeOK /\ CpuInv /\ StacksInv /\ CallsInv /\ used \in Nat /\ me \in Stacks
  BY Types DEF KernelInv
<1>1. /\ at = "run" /\ pc[me] = "alloc" /\ pc' = [pc EXCEPT ![me] = "index"]
      /\ UNCHANGED <<threads, used, current, piti, cpu, stk, dir, slot, dead, data, mmu>>
  BY DEF AllocStack, Here, Goto
<1>2. PICK s \in avail : avail' = avail \ {s} /\ made' = [made EXCEPT ![me] = s]
  BY DEF AllocStack
<1>3. /\ \A t \in Stacks \ {me} : pc[t] = "run"
      /\ Call(me) /\ made[me] = me /\ InUse(me) /\ used > 0
  <2>1. (\A t \in Stacks \ {me} : pc[t] = "run") /\ Call(me)
    BY <1>1, OthersRun
  <2> QED
    BY <1>0, <1>1, <2>1 DEF Call, InUse
<1>4. /\ pc'[me] = "index" /\ \A t \in Stacks \ {me} : pc'[t] = pc[t]
      /\ made'[me] = s /\ \A t \in Stacks \ {me} : made'[t] = made[t]
  BY <1>0, <1>1, <1>2 DEF TypeOK
<1>5. /\ s \in Stacks /\ Taken(s) /\ s # Boot /\ ~InUse(s) /\ s # me /\ s \notin dead
  BY <1>0, <1>2, <1>3 DEF TypeOK, StacksInv, Taken, InUse
<1>6. \A t : (InUse(t)' <=> InUse(t)) /\ (Taken(t)' <=> Taken(t) /\ t # s)
  BY <1>1, <1>2, <1>5 DEF InUse, Taken
<1>7. TypeOK'
  <2>1. /\ pc' \in [Stacks -> Point] /\ made' \in [Stacks -> Stacks]
        /\ avail' \in SUBSET Stacks
    BY <1>0, <1>1, <1>2, <1>5 DEF TypeOK, Point
  <2> QED
    BY <1>0, <1>1, <2>1 DEF TypeOK, cpu, data, mmu
<1>8. Call(me)'
  BY <1>1, <1>3, <1>4, <1>5, <1>6 DEF Call, cpu
<1>9. StacksInv'
  <2>1. ASSUME NEW t \in Stacks \ {Boot}
        PROVE  Taken(t)' \/ InUse(t)' \/ \E m \in Stacks \ {t} : made'[m] = t
    <3>1. CASE t = s
      BY <1>0, <1>4, <1>5, <3>1
    <3>2. ASSUME t # s, NEW m \in Stacks \ {t}, made[m] = t
          PROVE  made'[m] = t
      BY <1>3, <1>4, <3>2
    <3> QED
      BY <1>0, <1>6, <3>1, <3>2 DEF StacksInv
  <2> QED
    BY <1>0, <1>1, <1>2, <1>6, <2>1 DEF StacksInv
<1>10. esp' = Home(me)'
  BY <1>0, <1>1, <1>4 DEF CpuInv, Home, cpu
<1> QED
  BY <1>0, <1>1, <1>3, <1>4, <1>7, <1>8, <1>9, <1>10, OwnStep DEF cpu

\* ...or it does not.
LEMMA AllocFailsKeeps ==
  ASSUME KernelInv, OneAtATime, AllocFails
  PROVE  KernelInv'
<1>0. TypeOK /\ CpuInv /\ used \in Nat /\ me \in Stacks
  BY Types DEF KernelInv
<1>1. /\ at = "run" /\ pc[me] = "alloc" /\ Leaves
      /\ UNCHANGED <<threads, used, current, piti, cpu, stk, alloc, data, mmu>>
  BY DEF AllocFails, Here
<1>2. /\ \A t \in Stacks \ {me} : pc[t] = "run"
      /\ Call(me) /\ made[me] = me /\ used > 0
  <2>1. (\A t \in Stacks \ {me} : pc[t] = "run") /\ Call(me)
    BY <1>1, OthersRun
  <2> QED
    BY <1>0, <1>1, <2>1 DEF Call, InUse
<1>3. /\ pc'[me] = "run" /\ \A t \in Stacks \ {me} : pc'[t] = pc[t]
      /\ made' = made
  BY <1>0, <1>1, <1>2, LeavesCall DEF TypeOK
<1>4. TypeOK'
  <2>1. /\ pc' \in [Stacks -> Point] /\ made' \in [Stacks -> Stacks]
        /\ dir' \in [Stacks -> Dirs \ {NULL}] /\ slot' \in [Stacks -> 0..TCB_MAX_THREADS]
    BY <1>0, <1>1, LeavesCall
  <2> QED
    BY <1>0, <1>1, <2>1 DEF TypeOK, cpu, alloc, data, mmu
<1>5. esp' = Home(me)'
  BY <1>0, <1>1, <1>3 DEF CpuInv, Home, cpu
<1> QED
  BY <1>0, <1>1, <1>2, <1>3, <1>4, <1>5, OwnStep DEF cpu, alloc

\* A thread in a call, on the processor.
LEMMA InCall ==
  ASSUME KernelInv, OneAtATime, at = "run", pc[me] # "run"
  PROVE  /\ \A t \in Stacks \ {me} : pc[t] = "run"
         /\ Call(me) /\ InUse(me) /\ used > 0 /\ used \in Nat
         /\ me \in Stacks /\ made[me] \in Stacks /\ TypeOK /\ esp = Home(me)
<1>1. TypeOK /\ CpuInv /\ me \in Stacks /\ used \in Nat
  BY Types DEF KernelInv
<1>2. (\A t \in Stacks \ {me} : pc[t] = "run") /\ Call(me)
  BY OthersRun
<1>3. InUse(me) /\ used > 0
  BY <1>1, <1>2 DEF Call, InUse
<1> QED
  BY <1>1, <1>2, <1>3 DEF TypeOK, CpuInv

\* It goes on to the next point.
LEMMA Moved ==
  ASSUME TypeOK, NEW p \in Point, pc' = [pc EXCEPT ![me] = p]
  PROVE  pc' \in [Stacks -> Point] /\ pc'[me] = p /\ \A t \in Stacks \ {me} : pc'[t] = pc[t]
<1>1. me \in Stacks /\ pc \in [Stacks -> Point]
  BY DEF TypeOK
<1> QED
  BY <1>1

\* used_threads is read for the TCB to fill.
LEMMA LoadIndexKeeps ==
  ASSUME KernelInv, OneAtATime, LoadIndex
  PROVE  KernelInv'
<1>1. /\ at = "run" /\ pc[me] = "index" /\ pc' = [pc EXCEPT ![me] = "cr3"]
      /\ slot' = [slot EXCEPT ![me] = used]
      /\ UNCHANGED <<threads, used, current, piti, cpu, stk, made, dir, alloc, data, mmu>>
  BY DEF LoadIndex, Here, Goto
<1>2. /\ \A t \in Stacks \ {me} : pc[t] = "run"
      /\ Call(me) /\ InUse(me) /\ used > 0 /\ used \in Nat
      /\ me \in Stacks /\ made[me] \in Stacks /\ TypeOK /\ esp = Home(me)
  BY <1>1, InCall
<1>3. /\ pc' \in [Stacks -> Point] /\ pc'[me] = "cr3"
      /\ \A t \in Stacks \ {me} : pc'[t] = pc[t]
  BY <1>1, <1>2, Moved DEF Point
<1>4. slot' \in [Stacks -> 0..TCB_MAX_THREADS] /\ slot'[me] = used
  BY <1>1, <1>2 DEF TypeOK
<1>5. TypeOK'
  BY <1>1, <1>2, <1>3, <1>4 DEF TypeOK, cpu, alloc, data, mmu
<1>6. Call(me)'
  BY <1>1, <1>2, <1>3, <1>4 DEF Call, InUse, Taken, cpu, alloc
<1>7. esp' = Home(me)'
  BY <1>1, <1>2, <1>3 DEF Home, cpu
<1> QED
  BY <1>1, <1>2, <1>3, <1>5, <1>6, <1>7, OwnStep DEF cpu, alloc

\* A field of the TCB past the last one.
LEMMA Filled ==
  ASSUME KernelInv, OneAtATime, NEW here \in {"cr3", "esp0", "esp"},
         NEW there \in {"esp0", "esp", "enter"}, NEW rec \in TcbType,
         Fill(here, there, [threads EXCEPT ![Tcb] = rec]),
         rec.cr3 = dir[me], there # "esp0" => rec.stack = made[me],
         there = "enter" => rec.esp = [stack |-> made[me], h |-> 1]
  PROVE  KernelInv'
<1>1. /\ at = "run" /\ pc[me] = here /\ pc' = [pc EXCEPT ![me] = there]
      /\ threads' = [threads EXCEPT ![slot[me]] = rec]
      /\ UNCHANGED <<used, current, piti, cpu, stk, made, dir, slot, alloc, data, mmu>>
  BY DEF Fill, Here, Goto, Tcb
<1>2. /\ \A t \in Stacks \ {me} : pc[t] = "run"
      /\ Call(me) /\ InUse(me) /\ used > 0 /\ used \in Nat
      /\ me \in Stacks /\ made[me] \in Stacks /\ TypeOK /\ esp = Home(me)
  BY <1>1, InCall
<1>3. /\ pc' \in [Stacks -> Point] /\ pc'[me] = there
      /\ \A t \in Stacks \ {me} : pc'[t] = pc[t]
  BY <1>1, <1>2, Moved DEF Point
<1>4. slot[me] = used /\ used < TCB_MAX_THREADS
  BY <1>1, <1>2 DEF Call
<1>5. /\ used \in Slot /\ threads \in [Slot -> TcbType]
      /\ \A i \in 0..(used - 1) : i \in Slot /\ i # used
  BY <1>2, <1>4, Types
<1>6. /\ threads' \in [Slot -> TcbType] /\ threads'[used] = rec
      /\ \A i \in 0..(used - 1) : threads'[i] = threads[i]
  BY <1>1, <1>4, <1>5
<1>7. TypeOK'
  BY <1>1, <1>2, <1>3, <1>6 DEF TypeOK, TcbType, cpu, alloc, data, mmu
<1>8. Call(me)'
  <2>1. \A s : (InUse(s)' <=> InUse(s)) /\ (Taken(s)' <=> Taken(s))
    BY <1>1, <1>6, InUseKept DEF Taken, alloc
  <2>2. /\ me' = me /\ made' = made /\ slot' = slot /\ dir' = dir /\ used' = used
    BY <1>1 DEF cpu
  <2>3. pc[me] \notin {"alloc", "kill"} /\ pc'[me] \in {"esp0", "esp", "enter"}
    BY <1>1, <1>3
  <2> QED
    BY <1>2, <1>3, <1>4, <1>6, <2>1, <2>2, <2>3 DEF Call
<1>9. esp' = Home(me)'
  BY <1>1, <1>2, <1>3 DEF Home, cpu
<1> QED
  BY <1>1, <1>2, <1>3, <1>6, <1>7, <1>8, <1>9, OwnStep DEF cpu, alloc

\* The three of them.
LEMMA FillsKeep ==
  ASSUME KernelInv, OneAtATime, FillCr3 \/ FillEsp0 \/ FillEsp
  PROVE  KernelInv'
<1> DEFINE old == threads[Tcb]
           p == [stack |-> made[me], h |-> 1]
<1>1. /\ at = "run" /\ pc[me] \in {"cr3", "esp0", "esp"}
  BY DEF FillCr3, FillEsp0, FillEsp, Fill, Here
<1>2. /\ Call(me) /\ used \in Nat /\ me \in Stacks /\ made[me] \in Stacks /\ TypeOK
  BY <1>1, InCall
<1>3. Tcb = used /\ used \in Slot
  BY <1>1, <1>2, Types DEF Call, Tcb
<1>4. /\ old \in TcbType /\ dir[me] \in Dirs /\ p \in Pointer /\ threads \in [Slot -> TcbType]
      /\ p \in [stack : Stacks \cup {NULL}, h : 0..MaxDepth]
  BY <1>2, <1>3, Types DEF TypeOK, Pointer
<1>5. /\ pc[me] \in {"esp0", "esp"} => old.cr3 = dir[me]
      /\ pc[me] = "esp" => old.stack = made[me]
  BY <1>2, <1>3 DEF Call
<1> HIDE DEF old, p
<1>6. CASE FillCr3
  <2> DEFINE rec == [old EXCEPT !.cr3 = dir[me]]
  <2>1. rec \in TcbType /\ rec.cr3 = dir[me]
    BY <1>4 DEF TcbType
  <2>2. Fill("cr3", "esp0", [threads EXCEPT ![Tcb] = rec])
    BY <1>6 DEF FillCr3, old
  <2> HIDE DEF rec
  <2> QED
    BY <2>1, <2>2, Filled
<1>7. CASE FillEsp0
  <2> DEFINE rec == [old EXCEPT !.stack = made[me]]
  <2>1. pc[me] = "esp0"
    BY <1>7 DEF FillEsp0, Fill, Here
  <2>2. rec \in TcbType /\ rec.cr3 = dir[me] /\ rec.stack = made[me]
    BY <1>2, <1>4, <1>5, <2>1 DEF TcbType
  <2>3. Fill("esp0", "esp", [threads EXCEPT ![Tcb] = rec])
    BY <1>7 DEF FillEsp0, old
  <2> HIDE DEF rec
  <2> QED
    BY <2>2, <2>3, Filled
<1>8. CASE FillEsp
  <2> DEFINE rec == [old EXCEPT !.esp = p]
  <2>1. pc[me] = "esp"
    BY <1>8 DEF FillEsp, Fill, Here
  <2>2. rec \in TcbType /\ rec.cr3 = dir[me] /\ rec.stack = made[me] /\ rec.esp = p
    BY <1>4, <1>5, <2>1 DEF TcbType
  <2>3. Fill("esp", "enter", [threads EXCEPT ![Tcb] = rec])
    BY <1>8 DEF FillEsp, old, p
  <2> HIDE DEF rec
  <2> QED
    BY <2>2, <2>3, Filled DEF p
<1> QED
  BY <1>6, <1>7, <1>8

\* The stack pointer goes to the new stack and comes back.
LEMMA BorrowedStack ==
  ASSUME KernelInv, OneAtATime, EnterStack \/ LeaveStack
  PROVE  KernelInv'
<1>1. /\ at = "run"
      /\ \/ /\ pc[me] = "enter" /\ pc' = [pc EXCEPT ![me] = "push"]
            /\ esp' = [stack |-> made[me], h |-> 0]
         \/ /\ pc[me] = "leave" /\ pc' = [pc EXCEPT ![me] = "count"]
            /\ esp' = [stack |-> me, h |-> 0]
      /\ UNCHANGED <<threads, used, current, piti, me, at, nxt, ifl, isv, stk,
                     made, dir, slot, alloc, data, mmu>>
  BY DEF EnterStack, LeaveStack, Here, Goto
<1>2. /\ \A t \in Stacks \ {me} : pc[t] = "run"
      /\ Call(me) /\ InUse(me) /\ used > 0 /\ used \in Nat
      /\ me \in Stacks /\ made[me] \in Stacks /\ TypeOK /\ esp = Home(me)
  BY <1>1, InCall
<1>3. /\ pc' \in [Stacks -> Point]
      /\ \/ pc[me] = "enter" /\ pc'[me] = "push" /\ esp' = [stack |-> made[me], h |-> 0]
         \/ pc[me] = "leave" /\ pc'[me] = "count" /\ esp' = [stack |-> me, h |-> 0]
      /\ \A t \in Stacks \ {me} : pc'[t] = pc[t]
  BY <1>1, <1>2, Moved DEF Point
<1>4. TypeOK'
  <2>1. esp' \in [stack : Stacks, h : 0..MaxDepth]
    <3>1. 0 \in 0..MaxDepth
      BY <1>2, Types
    <3> QED
      BY <1>2, <1>3, <3>1
  <2> QED
    BY <1>1, <1>2, <1>3, <2>1 DEF TypeOK, alloc, data, mmu
<1>5. Call(me)'
  BY <1>1, <1>2, <1>3 DEF Call, InUse, Taken, alloc
<1>6. esp' = Home(me)'
  BY <1>1, <1>2, <1>3 DEF Home
<1> QED
  BY <1>1, <1>2, <1>3, <1>4, <1>5, <1>6, OwnStep DEF alloc

\* The frame the new thread starts from.
LEMMA PushStartKeeps ==
  ASSUME KernelInv, OneAtATime, PushStart
  PROVE  KernelInv'
<1> DEFINE t == made[me]
           g == [kind |-> "start", who |-> t, at |-> "run", nxt |-> 0]
<1>1. /\ at = "run" /\ pc[me] = "push" /\ pc' = [pc EXCEPT ![me] = "leave"] /\ PushFrame(g)
      /\ UNCHANGED <<threads, used, current, piti, me, at, nxt, ifl, isv,
                     made, dir, slot, alloc, data, mmu>>
  BY DEF PushStart, Here, Goto
<1>2. /\ \A s \in Stacks \ {me} : pc[s] = "run"
      /\ Call(me) /\ InUse(me) /\ used > 0 /\ used \in Nat
      /\ me \in Stacks /\ t \in Stacks /\ TypeOK /\ esp = Home(me)
  BY <1>1, InCall
<1>3. /\ pc' \in [Stacks -> Point] /\ pc'[me] = "leave"
      /\ \A s \in Stacks \ {me} : pc'[s] = pc[s]
  BY <1>1, <1>2, Moved DEF Point
<1>4. esp = [stack |-> t, h |-> 0]
  BY <1>1, <1>2 DEF Home
<1>5. g \in Frame /\ g.who = t /\ g.at = "run"
  BY <1>2, Types DEF Frame, Where
<1>6. /\ MaxDepth \in Nat \ {0} /\ 1 \in 1..MaxDepth /\ 0 + 1 = 1
      /\ stk \in [Stacks -> [1..MaxDepth -> Frame]]
  BY <1>2, Types
<1> HIDE DEF g, t
<1>7. /\ esp' = [stack |-> t, h |-> 1]
      /\ stk' = [stk EXCEPT ![t] = [stk[t] EXCEPT ![1] = g]]
  BY <1>1, <1>4, <1>6 DEF PushFrame
<1>8. /\ stk' \in [Stacks -> [1..MaxDepth -> Frame]] /\ stk'[t][1] = g
      /\ \A s \in Stacks \ {t} : stk'[s] = stk[s]
  <2>1. [stk[t] EXCEPT ![1] = g] \in [1..MaxDepth -> Frame]
    BY <1>2, <1>5, <1>6
  <2>2. [stk[t] EXCEPT ![1] = g][1] = g
    BY <1>2, <1>6
  <2> QED
    BY <1>2, <1>6, <1>7, <2>1, <2>2
<1>9. ~InUse(t)
  BY <1>1, <1>2 DEF Call, t
<1>10. TypeOK'
  <2>1. esp' \in [stack : Stacks, h : 0..MaxDepth]
    <3>1. 1 \in 0..MaxDepth
      BY <1>6
    <3> QED
      BY <1>2, <1>7, <3>1
  <2> QED
    BY <1>1, <1>2, <1>3, <1>8, <2>1 DEF TypeOK, Frame, alloc, data, mmu
<1>11. Call(me)'
  <2>1. Saved(stk'[made'[me]], made'[me], 1, 1)
    <3>1. made'[me] = t /\ (1 + 1)..1 = {}
      BY <1>1 DEF t
    <3> QED
      BY <1>5, <1>6, <1>8, <3>1 DEF Saved
  <2> QED
    BY <1>1, <1>2, <1>3, <2>1 DEF Call, InUse, Taken, alloc
<1>12. esp' = Home(me)'
  BY <1>1, <1>3, <1>7 DEF Home, t
<1>13. \A s \in Stacks \ {me} : InUse(s) => stk'[s] = stk[s]
  BY <1>8, <1>9
<1> QED
  BY <1>1, <1>2, <1>3, <1>10, <1>11, <1>12, <1>13, OwnStep DEF alloc

\* used_threads is read again, to be raised.
LEMMA LoadCountKeeps ==
  ASSUME KernelInv, OneAtATime, LoadCount
  PROVE  KernelInv'
<1>1. /\ at = "run" /\ pc[me] = "count" /\ pc' = [pc EXCEPT ![me] = "publish"]
      /\ slot' = [slot EXCEPT ![me] = used]
      /\ UNCHANGED <<threads, used, current, piti, cpu, stk, made, dir, alloc, data, mmu>>
  BY DEF LoadCount, Here, Goto
<1>2. /\ \A t \in Stacks \ {me} : pc[t] = "run"
      /\ Call(me) /\ InUse(me) /\ used > 0 /\ used \in Nat
      /\ me \in Stacks /\ made[me] \in Stacks /\ TypeOK /\ esp = Home(me)
  BY <1>1, InCall
<1>3. /\ pc' \in [Stacks -> Point] /\ pc'[me] = "publish"
      /\ \A t \in Stacks \ {me} : pc'[t] = pc[t]
  BY <1>1, <1>2, Moved DEF Point
<1>4. slot' \in [Stacks -> 0..TCB_MAX_THREADS] /\ slot'[me] = used
  BY <1>1, <1>2 DEF TypeOK
<1>5. TypeOK'
  BY <1>1, <1>2, <1>3, <1>4 DEF TypeOK, cpu, alloc, data, mmu
<1>6. Call(me)'
  BY <1>1, <1>2, <1>3, <1>4 DEF Call, InUse, Taken, cpu, alloc
<1>7. esp' = Home(me)'
  BY <1>1, <1>2, <1>3 DEF Home, cpu
<1> QED
  BY <1>1, <1>2, <1>3, <1>5, <1>6, <1>7, OwnStep DEF cpu, alloc

\* The new thread is counted: it is saved where its first frame is.
LEMMA PublishKeeps ==
  ASSUME KernelInv, OneAtATime, Publish
  PROVE  KernelInv'
<1>1. /\ at = "run" /\ pc[me] = "publish" /\ used' = slot[me] + 1 /\ Leaves
      /\ UNCHANGED <<threads, current, piti, cpu, stk, alloc, data, mmu>>
  BY DEF Publish, Here, Counted
<1> PICK t \in Stacks : t = made[me]
  BY <1>1, InCall
<1>2. /\ \A s \in Stacks \ {me} : pc[s] = "run"
      /\ Call(me) /\ InUse(me) /\ used > 0 /\ used \in Nat
      /\ me \in Stacks /\ TypeOK /\ esp = Home(me)
  BY <1>1, InCall
<1>3. CpuInv /\ ThreadsInv /\ StacksInv /\ CallsInv
  BY DEF KernelInv
<1>4. /\ t # Boot /\ ~Taken(t) /\ ~InUse(t) /\ used < TCB_MAX_THREADS /\ slot[me] = used
      /\ threads[used].cr3 = dir[me] /\ threads[used].stack = t
      /\ threads[used].esp = [stack |-> t, h |-> 1] /\ Saved(stk[t], t, 1, 1)
  BY <1>1, <1>2 DEF Call
<1>5. /\ pc' \in [Stacks -> Point] /\ made' \in [Stacks -> Stacks]
      /\ dir' \in [Stacks -> Dirs \ {NULL}] /\ slot' \in [Stacks -> 0..TCB_MAX_THREADS]
      /\ pc'[me] = "run" /\ made'[me] = me
      /\ \A s \in Stacks \ {me} : pc'[s] = pc[s] /\ made'[s] = made[s]
  BY <1>1, <1>2, LeavesCall
<1>6. used' = used + 1 /\ used' \in 0..TCB_MAX_THREADS /\ TCB_MAX_THREADS \in Nat
  <2>1. TCB_MAX_THREADS \in Nat
    BY <1>2, Types
  <2> QED
    BY <1>1, <1>2, <1>4, <2>1
<1>7. \A i \in 0..(used' - 1) : i \in 0..(used - 1) \/ i = used
  BY <1>2, <1>6
<1>8. used \in 0..(used' - 1) /\ \A i \in 0..(used - 1) : i \in 0..(used' - 1)
  BY <1>2, <1>6
<1>9. /\ me' = me /\ threads' = threads /\ current' = current /\ at' = at /\ esp' = esp
      /\ stk' = stk /\ ifl' = ifl /\ isv' = isv /\ piti' = piti /\ nxt' = nxt
      /\ cr3' = cr3 /\ tss' = tss /\ avail' = avail /\ dead' = dead
  BY <1>1 DEF cpu, alloc, mmu
<1>10. \A s : (InUse(s)' <=> InUse(s) \/ s = t) /\ (Taken(s)' <=> Taken(s))
  BY <1>4, <1>7, <1>8, <1>9 DEF InUse, Taken
<1>11. TypeOK'
  BY <1>1, <1>2, <1>5, <1>6, <1>9 DEF TypeOK, data
<1>12. CallsInv'
  BY <1>2, <1>3, <1>5 DEF CallsInv
<1>13. StacksInv'
  <2>1. ASSUME NEW s \in Stacks \ {Boot}
        PROVE  Taken(s)' \/ InUse(s)' \/ \E m \in Stacks \ {s} : made'[m] = s
    <3>1. ASSUME NEW m \in Stacks \ {s}, made[m] = s, s # t
          PROVE  made'[m] = s
      BY <1>5, <3>1
    <3> QED
      BY <1>3, <1>10, <3>1 DEF StacksInv
  <2>2. ASSUME NEW i \in 0..(used' - 1) PROVE ~Taken(threads[i].stack)'
    <3>1. ~Taken(threads[i].stack)
      BY <1>3, <1>4, <1>7 DEF StacksInv
    <3> QED
      BY <1>9, <3>1 DEF Taken
  <2> QED
    BY <1>3, <1>9, <1>10, <2>1, <2>2 DEF StacksInv
<1>14. CpuInv'
  <2>1. esp' = Home(me)'
    BY <1>1, <1>2, <1>5, <1>9 DEF Home
  <2>2. InUse(me)'
    BY <1>2, <1>9, <1>10
  <2> QED
    BY <1>1, <1>2, <1>3, <1>6, <1>9, <2>1, <2>2 DEF CpuInv
<1>15. ThreadsInv'
  <2>1. ASSUME NEW i \in 0..(used' - 1)
        PROVE  threads[i].stack \in Stacks /\ threads[i].cr3 \in Dirs \ {NULL}
    <3>1. dir[me] \in Dirs \ {NULL}
      BY <1>2 DEF TypeOK
    <3> QED
      BY <1>2, <1>3, <1>4, <1>7, <3>1 DEF ThreadsInv
  <2>2. ASSUME NEW i \in 0..(used' - 1), NEW j \in 0..(used' - 1), i # j
        PROVE  threads[i].stack # threads[j].stack
    BY <1>3, <1>4, <1>7, <2>2 DEF ThreadsInv, InUse
  <2>3. ASSUME NEW i \in 0..(used' - 1), threads[i].stack # me
        PROVE  Parked(threads[i].esp, threads[i].stack)'
    <3>1. CASE i = used
      <4>1. t # me
        BY <1>2, <1>4
      <4>2. Home(t)' = [stack |-> t, h |-> 0]
        BY <1>2, <1>5, <4>1 DEF Home
      <4>3. /\ threads'[i].esp.stack = t /\ threads'[i].esp.h = 1 /\ threads'[i].stack = t
            /\ stk'[t] = stk[t] /\ 0 + 1 = 1
        BY <1>4, <1>9, <3>1
      <4> QED
        BY <1>4, <4>2, <4>3 DEF Parked, Base, Home
    <3>2. CASE i # used
      <4>1. i \in 0..(used - 1) /\ threads[i].stack \in Stacks \ {me}
        BY <1>7, <2>1, <2>3, <3>2
      <4>2. Parked(threads[i].esp, threads[i].stack)
        BY <1>3, <2>3, <4>1 DEF ThreadsInv
      <4> QED
        BY <1>5, <1>9, <4>1, <4>2, ParkedKept
    <3> QED
      BY <3>1, <3>2
  <2>4. current < used' /\ used' # 0 /\ used # 0
    BY <1>2, <1>3, <1>6, Types DEF ThreadsInv
  <2> QED
    BY <1>1, <1>2, <1>3, <1>9, <2>1, <2>2, <2>3, <2>4 DEF ThreadsInv
<1>16. EoiInv'
  BY <1>9 DEF KernelInv, EoiInv
<1> QED
  BY <1>11, <1>12, <1>13, <1>14, <1>15, <1>16 DEF KernelInv

------------------------------------------------------------------------------
(* kill_thread                                                             *)

\* The test, with interrupts enabled.
LEMMA KillThreadKeeps ==
  ASSUME KernelInv, OneAtATime, NEW i \in Slot, KillThread(i)
  PROVE  KernelInv'
<1>1. /\ at = "run" /\ pc[me] = "run" /\ used > 1 /\ Alone
      /\ i < used /\ threads[i].stack # Boot /\ pc' = [pc EXCEPT ![me] = "kill"]
      /\ slot' = [slot EXCEPT ![me] = i] /\ live' = live \ {me}
      /\ UNCHANGED <<threads, used, current, piti, cpu, stk, made, dir, alloc, eax, mmu>>
  BY DEF KillThread, Here, Goto
<1>2. /\ TypeOK /\ CpuInv /\ used \in Nat /\ used <= TCB_MAX_THREADS /\ me \in Stacks
      /\ TCB_MAX_THREADS \in Nat /\ i \in Nat
  BY Types DEF KernelInv
<1>3. (\A s \in Stacks \ {me} : pc[s] = "run") /\ made[me] = me
  BY <1>1, OthersRun
<1>4. /\ pc' \in [Stacks -> Point] /\ pc'[me] = "kill"
      /\ \A t \in Stacks \ {me} : pc'[t] = pc[t]
  BY <1>1, <1>2, Moved DEF Point
<1>5. slot' \in [Stacks -> 0..TCB_MAX_THREADS] /\ slot'[me] = i
  <2>1. i \in 0..TCB_MAX_THREADS
    BY <1>1, <1>2
  <2> QED
    BY <1>1, <1>2, <2>1 DEF TypeOK
<1>6. TypeOK'
  BY <1>1, <1>2, <1>4, <1>5 DEF TypeOK, cpu, alloc, mmu
<1>7. Call(me)'
  <2>1. InUse(me)' /\ used > 0
    BY <1>1, <1>2 DEF CpuInv, InUse, cpu
  <2> QED
    BY <1>1, <1>3, <1>4, <1>5, <2>1 DEF Call, cpu
<1>8. esp' = Home(me)'
  BY <1>1, <1>2, <1>4 DEF CpuInv, Home, cpu
<1>9. used > 0
  BY <1>1, <1>2
<1> QED
  BY <1>1, <1>3, <1>4, <1>6, <1>7, <1>8, <1>9, OwnStep DEF cpu, alloc

\* Where the TCB at k was before the one at i was taken out.
Old(i, k) == IF k < i THEN k ELSE k + 1

\* The TCBs in use but one move down by one place or none, and current follows
\* its thread.
LEMMA Removed ==
  ASSUME TypeOK, used > 1, NEW i \in 0..(used - 1), NEW c \in 0..(used - 1), c # i,
         Remove(i, c)
  PROVE  /\ used' = used - 1 /\ used' \in 1..(TCB_MAX_THREADS - 1)
         /\ \A k \in 0..(used' - 1) : /\ Old(i, k) \in 0..(used - 1) \ {i}
                                      /\ threads'[k] = threads[Old(i, k)]
         /\ \A k, l \in 0..(used' - 1) : k # l => Old(i, k) # Old(i, l)
         /\ \A j \in 0..(used - 1) \ {i} : \E k \in 0..(used' - 1) : Old(i, k) = j
         /\ current' \in 0..(used' - 1) /\ Old(i, current') = c
         /\ threads' \in [Slot -> TcbType]
<1>1. TCB_MAX_THREADS \in Nat /\ used \in 0..TCB_MAX_THREADS
  BY ThreadsAssumption DEF TypeOK
<1>2. threads \in [Slot -> TcbType]
  BY Types
<1>3. /\ used' = used - 1 /\ current' = Adjusted(c, i)
      /\ threads' = [k \in Slot |-> IF k >= i /\ k + 1 \in Slot THEN threads[k + 1]
                                                               ELSE threads[k]]
  BY DEF Remove, MovedDown
<1>4. threads' \in [Slot -> TcbType]
  BY <1>2, <1>3
<1>5. ASSUME NEW k \in 0..(used' - 1)
      PROVE  Old(i, k) \in 0..(used - 1) \ {i} /\ threads'[k] = threads[Old(i, k)]
  <2>1. k \in Slot /\ k + 1 \in Slot
    BY <1>1, <1>3 DEF Slot
  <2> QED
    BY <1>1, <1>3, <2>1 DEF Old
<1>6. \A k, l \in 0..(used' - 1) : k # l => Old(i, k) # Old(i, l)
  BY <1>1, <1>3 DEF Old
<1>7. ASSUME NEW j \in 0..(used - 1) \ {i}
      PROVE  \E k \in 0..(used' - 1) : Old(i, k) = j
  <2> DEFINE k == IF j < i THEN j ELSE j - 1
  <2>1. k \in 0..(used' - 1) /\ Old(i, k) = j
    BY <1>1, <1>3 DEF Old
  <2> QED
    BY <2>1
<1>8. current' \in 0..(used' - 1) /\ Old(i, current') = c
  BY <1>1, <1>3 DEF Old, Adjusted
<1>9. used' \in 1..(TCB_MAX_THREADS - 1)
  BY <1>1, <1>3
<1> QED
  BY <1>3, <1>4, <1>5, <1>6, <1>7, <1>8, <1>9

\* Taking out the TCB at i, at the end of the call, keeps all there is to know
\* of the other threads: their stacks and where they are saved.
LEMMA RemoveKeeps ==
  ASSUME KernelInv, OneAtATime, at = "run", pc[me] = "kill", used > 1,
         NEW i \in 0..(used - 1), i = slot[me], NEW c \in 0..(used - 1), c # i,
         Remove(i, c), Leaves, stk' = stk
  PROVE  /\ StacksInv' /\ CallsInv'
         /\ \A s : InUse(s)' <=> InUse(s) /\ s # threads[i].stack
         /\ current' \in 0..(used' - 1) /\ threads'[current'] = threads[c]
         /\ \A k \in 0..(used' - 1) : /\ threads'[k].stack \in Stacks
                                      /\ threads'[k].cr3 \in Dirs \ {NULL}
         /\ \A k, l \in 0..(used' - 1) : k # l => threads'[k].stack # threads'[l].stack
         /\ \A k \in 0..(used' - 1) : threads'[k].stack # me =>
              Parked(threads[k].esp, threads[k].stack)'
<1> DEFINE gone == threads[i].stack
<1>1. /\ used' = used - 1 /\ used' \in 1..(TCB_MAX_THREADS - 1)
      /\ \A k \in 0..(used' - 1) : /\ Old(i, k) \in 0..(used - 1) \ {i}
                                   /\ threads'[k] = threads[Old(i, k)]
      /\ \A k, l \in 0..(used' - 1) : k # l => Old(i, k) # Old(i, l)
      /\ \A j \in 0..(used - 1) \ {i} : \E k \in 0..(used' - 1) : Old(i, k) = j
      /\ current' \in 0..(used' - 1) /\ Old(i, current') = c
  <2>1. TypeOK
    BY DEF KernelInv
  <2> QED
    BY <2>1, Removed
<1>2. /\ \A s \in Stacks \ {me} : pc[s] = "run"
      /\ Call(me) /\ me \in Stacks /\ TypeOK
  BY InCall
<1>3. ThreadsInv /\ StacksInv /\ CallsInv
  BY DEF KernelInv
<1>4. /\ pc'[me] = "run" /\ made'[me] = me
      /\ \A s \in Stacks \ {me} : pc'[s] = pc[s] /\ made'[s] = made[s]
  BY <1>2, LeavesCall
<1>5. \A s \in Stacks : pc'[s] = "run" /\ made'[s] = s /\ made[s] = s
  BY <1>2, <1>3, <1>4 DEF CallsInv, Call
<1>6. /\ gone \in Stacks \ {Boot} /\ InUse(gone)
      /\ \/ avail' = avail \cup {gone} /\ dead' = dead
         \/ dead' = dead \cup {gone} /\ avail' = avail
  BY <1>2, <1>3 DEF Call, ThreadsInv, InUse, Remove, StackOf
<1> HIDE DEF gone
<1>7. ASSUME NEW s PROVE InUse(s)' <=> InUse(s) /\ s # gone
  <2>1. ASSUME NEW k \in 0..(used' - 1), threads'[k].stack = s
        PROVE  InUse(s) /\ s # gone
    <3>1. threads[Old(i, k)].stack # threads[i].stack
      BY <1>1, <1>3 DEF ThreadsInv
    <3> QED
      BY <1>1, <2>1, <3>1 DEF InUse, gone
  <2>2. ASSUME NEW j \in 0..(used - 1), threads[j].stack = s, s # gone
        PROVE  \E k \in 0..(used' - 1) : threads'[k].stack = s
    <3>1. j # i
      BY <2>2 DEF gone
    <3>2. PICK k \in 0..(used' - 1) : Old(i, k) = j
      BY <1>1, <3>1
    <3> QED
      BY <1>1, <2>2, <3>2
  <2> QED
    BY <2>1, <2>2 DEF InUse
<1>8. CallsInv'
  BY <1>5 DEF CallsInv
<1>9. ~Taken(gone)
  BY <1>3 DEF StacksInv, gone
<1>10. \A s : Taken(s)' <=> Taken(s) \/ s = gone
  BY <1>6 DEF Taken
<1>11. StacksInv'
  <2>1. ~Taken(Boot)' /\ avail' \cap dead' = {}
    <3>1. avail' \cap dead' = {}
      BY <1>3, <1>6, <1>9 DEF StacksInv, Taken
    <3> QED
      BY <1>3, <1>6, <1>10, <3>1 DEF StacksInv
  <2>2. ASSUME NEW k \in 0..(used' - 1) PROVE ~Taken(threads[k].stack)'
    <3>1. threads'[k] = threads[Old(i, k)] /\ Old(i, k) \in 0..(used - 1) /\ Old(i, k) # i
      BY <1>1
    <3>2. ~Taken(threads[Old(i, k)].stack) /\ threads[Old(i, k)].stack # gone
      BY <1>3, <3>1 DEF StacksInv, ThreadsInv, gone
    <3> QED
      BY <1>6, <3>1, <3>2 DEF Taken
  <2>3. ASSUME NEW s \in Stacks \ {Boot} PROVE Taken(s)' \/ InUse(s)'
    BY <1>3, <1>5, <1>7, <1>10 DEF StacksInv
  <2> QED
    BY <2>1, <2>2, <2>3 DEF StacksInv
<1>12. threads'[current'] = threads[c]
  BY <1>1
<1>13. \A k, l \in 0..(used' - 1) : k # l => threads'[k].stack # threads'[l].stack
  BY <1>1, <1>3 DEF ThreadsInv
<1>14. \A k \in 0..(used' - 1) : /\ threads'[k].stack \in Stacks
                                 /\ threads'[k].cr3 \in Dirs \ {NULL}
  BY <1>1, <1>3 DEF ThreadsInv
<1>15. ASSUME NEW k \in 0..(used' - 1), threads'[k].stack # me
       PROVE  Parked(threads[k].esp, threads[k].stack)'
  <2>1. threads'[k] = threads[Old(i, k)] /\ Old(i, k) \in 0..(used - 1)
    BY <1>1
  <2> PICK t : t = threads[Old(i, k)].stack
    OBVIOUS
  <2>2. t # me /\ t \in Stacks /\ Parked(threads[Old(i, k)].esp, t)
    BY <1>3, <1>15, <2>1 DEF ThreadsInv
  <2>3. pc'[t] = pc[t] /\ made'[t] = made[t]
    BY <1>4, <2>2
  <2> QED
    BY <2>1, <2>2, <2>3, ParkedKept
<1> QED
  BY <1>1, <1>7, <1>8, <1>11, <1>12, <1>13, <1>14, <1>15 DEF gone

\* kill_thread(another thread)
LEMMA KillOtherKeeps ==
  ASSUME KernelInv, OneAtATime, KillOther
  PROVE  KernelInv'
<1> PICK i : i = slot[me]
  OBVIOUS
<1>1. /\ at = "run" /\ pc[me] = "kill" /\ i # current
      /\ Remove(i, current) /\ Leaves /\ ifl' = FALSE
      /\ UNCHANGED <<piti, me, esp, nxt, isv, stk, at, cr3, tss>>
  BY DEF KillOther, Here, mmu
<1>2. /\ Call(me) /\ used > 0 /\ used \in Nat /\ me \in Stacks /\ TypeOK /\ esp = Home(me)
  BY <1>1, InCall
<1>3. CpuInv /\ ThreadsInv
  BY DEF KernelInv
<1>4. /\ i \in 0..(used - 1) /\ current \in 0..(used - 1) /\ used > 1
  <2>1. i < used /\ i \in Nat
    BY <1>1, <1>2, Types DEF Call, TypeOK
  <2>2. current \in 0..(used - 1)
    BY <1>2, CurrentInUse
  <2> QED
    BY <1>1, <1>2, <2>1, <2>2
<1>5. /\ StacksInv' /\ CallsInv'
      /\ \A s : InUse(s)' <=> InUse(s) /\ s # threads[i].stack
      /\ current' \in 0..(used' - 1) /\ threads'[current'] = threads[current]
      /\ \A k \in 0..(used' - 1) : /\ threads'[k].stack \in Stacks
                                   /\ threads'[k].cr3 \in Dirs \ {NULL}
      /\ \A k, l \in 0..(used' - 1) : k # l => threads'[k].stack # threads'[l].stack
      /\ \A k \in 0..(used' - 1) : threads'[k].stack # me =>
           Parked(threads[k].esp, threads[k].stack)'
  BY <1>1, <1>4, RemoveKeeps
<1>6. used' \in 1..(TCB_MAX_THREADS - 1) /\ threads' \in [Slot -> TcbType]
  BY <1>1, <1>2, <1>4, Removed
<1>7. /\ pc' \in [Stacks -> Point] /\ made' \in [Stacks -> Stacks]
      /\ dir' \in [Stacks -> Dirs \ {NULL}] /\ slot' \in [Stacks -> 0..TCB_MAX_THREADS]
      /\ pc'[me] = "run"
  BY <1>1, <1>2, LeavesCall
<1>8. /\ avail' \in SUBSET Stacks /\ dead' \in SUBSET Stacks
      /\ eax' = Junk /\ live' \in SUBSET Stacks
  BY <1>1, <1>2, <1>3, <1>4 DEF Remove, StackOf, TypeOK, ThreadsInv
<1>9. TCB_MAX_THREADS \in Nat
  BY <1>2, Types
<1>10. used' # 0 /\ used' > 0 /\ current' < used' /\ used' \in 0..TCB_MAX_THREADS
       /\ current' \in Slot
  BY <1>5, <1>6, <1>9 DEF Slot
<1>11. TypeOK'
  BY <1>1, <1>2, <1>6, <1>7, <1>8, <1>10 DEF TypeOK, TcbType
<1>12. me = threads[current].stack /\ me # threads[i].stack /\ InUse(me)
  BY <1>1, <1>2, <1>3, <1>4 DEF CpuInv, ThreadsInv, InUse
<1>13. CpuInv'
  <2>1. esp' = Home(me)'
    BY <1>1, <1>2, <1>7 DEF Home
  <2>2. InUse(me)'
    BY <1>1, <1>5, <1>12
  <2> QED
    BY <1>1, <1>5, <1>10, <1>12, <2>1, <2>2 DEF CpuInv
<1>14. ThreadsInv'
  <2>1. cr3' = threads'[current'].cr3 /\ tss' \in {Junk, threads'[current'].stack}
    BY <1>1, <1>2, <1>3, <1>5 DEF ThreadsInv
  <2> QED
    BY <1>1, <1>5, <1>10, <2>1 DEF ThreadsInv
<1>15. EoiInv'
  BY <1>1 DEF KernelInv, EoiInv
<1> QED
  BY <1>5, <1>11, <1>13, <1>14, <1>15 DEF KernelInv

\* kill_thread(itself): the next thread goes on, wherever its TCB moved.
LEMMA KillSelfKeeps ==
  ASSUME KernelInv, OneAtATime, KillSelf
  PROVE  KernelInv'
<1> PICK c : c = Successor
  OBVIOUS
<1> PICK t : t = threads[c].stack
  OBVIOUS
<1>1. /\ at = "run" /\ pc[me] = "kill" /\ slot[me] = current /\ used > 1
      /\ esp' = threads[c].esp /\ me' = Top(threads[c].esp).who
      /\ Remove(current, c) /\ Leaves
      /\ tss' = threads'[current'].stack /\ cr3' = threads'[current'].cr3
      /\ ifl' = TRUE /\ at' = "exit"
      /\ UNCHANGED <<piti, nxt, isv, stk>>
  BY DEF KillSelf, NextTcb, Here
<1>2. /\ Call(me) /\ used > 0 /\ used \in Nat /\ me \in Stacks /\ TypeOK
  BY <1>1, InCall
<1>3. CpuInv /\ ThreadsInv
  BY DEF KernelInv
<1>4. current \in 0..(used - 1) /\ c \in 0..(used - 1) /\ c # current
  <2>1. used >= 2 /\ current \in 0..(used - 1)
    BY <1>1, <1>2, CurrentInUse
  <2> QED
    BY <1>2, <2>1, SuccessorInUse
<1>5. /\ StacksInv' /\ CallsInv'
      /\ \A s : InUse(s)' <=> InUse(s) /\ s # threads[current].stack
      /\ current' \in 0..(used' - 1) /\ threads'[current'] = threads[c]
      /\ \A k \in 0..(used' - 1) : /\ threads'[k].stack \in Stacks
                                   /\ threads'[k].cr3 \in Dirs \ {NULL}
      /\ \A k, l \in 0..(used' - 1) : k # l => threads'[k].stack # threads'[l].stack
      /\ \A k \in 0..(used' - 1) : threads'[k].stack # me =>
           Parked(threads[k].esp, threads[k].stack)'
  BY <1>1, <1>4, RemoveKeeps
<1>6. used' \in 1..(TCB_MAX_THREADS - 1) /\ threads' \in [Slot -> TcbType]
  BY <1>1, <1>2, <1>4, Removed
<1>7. /\ pc' \in [Stacks -> Point] /\ made' \in [Stacks -> Stacks]
      /\ dir' \in [Stacks -> Dirs \ {NULL}] /\ slot' \in [Stacks -> 0..TCB_MAX_THREADS]
  BY <1>1, <1>2, LeavesCall
<1>8. /\ avail' \in SUBSET Stacks /\ dead' \in SUBSET Stacks
      /\ eax' = Junk /\ live' \in SUBSET Stacks
  BY <1>1, <1>2, <1>3, <1>4 DEF Remove, StackOf, TypeOK, ThreadsInv
<1>9. TCB_MAX_THREADS \in Nat
  BY <1>2, Types
<1>10. used' # 0 /\ used' > 0 /\ current' < used' /\ used' \in 0..TCB_MAX_THREADS
       /\ current' \in Slot
  <2>1. /\ used' \in Nat /\ used' # 0 /\ used' > 0 /\ used' <= TCB_MAX_THREADS - 1
        /\ used' \in 0..TCB_MAX_THREADS
    BY <1>6, <1>9
  <2>2. \A n \in Nat : \A k \in 0..(n - 1) : k \in Nat /\ k < n
    OBVIOUS
  <2>3. current' \in Nat /\ current' < used'
    BY <1>5, <2>1, <2>2, Zenon
  <2>4. current' \in Slot
    BY <1>9, <2>1, <2>3 DEF Slot
  <2> QED
    BY <2>1, <2>3, <2>4
<1>11. t # me /\ t \in Stacks /\ InUse(t) /\ me = threads[current].stack
  BY <1>1, <1>2, <1>3, <1>4 DEF CpuInv, ThreadsInv, InUse
<1>12. Parked(threads[c].esp, t) /\ c \in Slot
  BY <1>2, <1>3, <1>4, <1>11, Types DEF ThreadsInv
<1>13. esp' \in Pointer /\ me' = t
  <2>1. threads[c].esp.stack \in Stacks /\ Top(threads[c].esp).who = t
    BY <1>2, <1>11, <1>12, Resumed
  <2> QED
    BY <1>1, <1>2, <1>12, <2>1, SavedPointer
<1>14. TypeOK'
  <2>1. cr3' \in Dirs \ {NULL} /\ tss' \in Stacks /\ me' \in Stacks /\ at' \in Where
    BY <1>1, <1>5, <1>11, <1>13 DEF Where
  <2> QED
    BY <1>1, <1>2, <1>6, <1>7, <1>8, <1>10, <1>13, <2>1 DEF TypeOK, TcbType, Pointer
<1>15. CpuInv'
  <2>1. Parked(threads[current].esp, threads[current].stack)'
    BY <1>5, <1>11
  <2>2. threads'[current'].esp = esp' /\ threads'[current'].stack = me'
    BY <1>1, <1>5, <1>13
  <2>3. Parked(esp, me)'
    BY <2>1, <2>2 DEF Parked, Base, Home
  <2>4. InUse(me)'
    BY <1>5, <1>11, <1>13
  <2> QED
    BY <1>1, <1>10, <2>2, <2>3, <2>4 DEF CpuInv
<1>16. ThreadsInv'
  <2>1. \A k \in 0..(used' - 1) : threads'[k].stack # me
    <3>1. \A s : s = me => ~InUse(s)'
      BY <1>5, <1>11
    <3> QED
      BY <3>1 DEF InUse
  <2> QED
    BY <1>1, <1>5, <1>10, <2>1 DEF ThreadsInv
<1>17. EoiInv'
  BY <1>1 DEF KernelInv, EoiInv
<1> QED
  BY <1>5, <1>14, <1>15, <1>16, <1>17 DEF KernelInv

------------------------------------------------------------------------------
(* The theorems                                                            *)

\* The boot stack, no TCB, and idt_init ahead.
LEMMA KernelStarts == Init => KernelInv /\ SetupInv /\ BootInv
<1> SUFFICES ASSUME Init PROVE KernelInv /\ SetupInv /\ BootInv
  OBVIOUS
<1>1. SetupInv
  BY SetupStarts DEF Init
<1>2. /\ TCB_MAX_THREADS \in Nat \ {0} /\ MaxDepth \in Nat \ {0} /\ 0 \in Slot
      /\ Boot \in Stacks /\ BootDir \in Dirs \ {NULL}
  BY ThreadsAssumption DEF Slot
<1>3. /\ threads = [i \in Slot |-> NoTcb] /\ used = 0 /\ current = 0 /\ piti = FALSE
      /\ me = Boot /\ esp = [stack |-> Boot, h |-> 0]
      /\ stk = [s \in Stacks |-> [d \in 1..MaxDepth |-> NoFrame]]
      /\ at = "run" /\ nxt = 0 /\ isv = FALSE
      /\ pc = [s \in Stacks |-> "run"] /\ made = [s \in Stacks |-> s]
      /\ dir = [s \in Stacks |-> BootDir] /\ slot = [s \in Stacks |-> 0]
      /\ avail = Stacks \ {Boot} /\ dead = {} /\ eax = Junk /\ live = {}
      /\ cr3 = BootDir /\ tss = Junk /\ ifl = FALSE
  BY DEF Init, InitInterrupts
<1>4. \A i : i \notin 0..(used - 1)
  BY <1>3
<1>5. TypeOK
  <2>1. NoTcb \in TcbType
    BY <1>2 DEF NoTcb, TcbType
  <2>2. NoFrame \in Frame
    BY <1>2 DEF NoFrame, Frame, Where
  <2>3. stk \in [Stacks -> [1..MaxDepth -> Frame]]
    BY <1>3, <2>2
  <2>4. threads \in [Slot -> TcbType]
    BY <1>3, <2>1
  <2>5. esp \in Pointer
    BY <1>2, <1>3 DEF Pointer
  <2>6. /\ pc \in [Stacks -> Point] /\ made \in [Stacks -> Stacks]
        /\ dir \in [Stacks -> Dirs \ {NULL}] /\ slot \in [Stacks -> 0..TCB_MAX_THREADS]
    BY <1>2, <1>3 DEF Point
  <2>7. /\ avail \in SUBSET Stacks /\ dead \in SUBSET Stacks
        /\ at \in Where /\ used \in 0..TCB_MAX_THREADS
    BY <1>2, <1>3 DEF Where
  <2> QED
    BY <1>2, <1>3, <2>3, <2>4, <2>5, <2>6, <2>7 DEF TypeOK, Frame, Pointer, TcbType
<1>6. CpuInv
  <2>1. Home(me) = [stack |-> Boot, h |-> 0]
    BY <1>2, <1>3 DEF Home
  <2> QED
    BY <1>3, <2>1 DEF CpuInv
<1>7. ThreadsInv
  BY <1>3, <1>4 DEF ThreadsInv
<1>8. StacksInv
  BY <1>3, <1>4 DEF StacksInv, Taken
<1>9. CallsInv
  BY <1>3 DEF CallsInv
<1>10. EoiInv
  BY <1>3 DEF EoiInv
<1>11. BootInv
  BY <1>2, <1>3 DEF BootInv
<1> QED
  BY <1>1, <1>5, <1>6, <1>7, <1>8, <1>9, <1>10, <1>11 DEF KernelInv

\* Nothing runs before idt_init is through, whatever the threads do later.
LEMMA BootStep ==
  ASSUME SetupInv, BootInv, [Next]_vars
  PROVE  SetupInv' /\ BootInv'
<1>1. CASE Boots
  <2>1. /\ SettingUp /\ UNCHANGED <<used, me, at, pc>>
    BY <1>1 DEF Boots, calls
  <2>2. SetupInv' /\ booting # <<>> /\ (booting' = <<>> \/ ifl' = ifl)
    BY <2>1, SetupStep
  <2> QED
    BY <2>1, <2>2 DEF BootInv
<1>2. CASE ~Boots
  <2>1. UNCHANGED setup
    BY <1>2 DEF Next, Runs, vars
  <2>2. SetupInv' /\ booting' = booting
    BY <2>1 DEF SetupInv, Reached, Expects, Masked, setup
  <2>3. ASSUME booting # <<>> PROVE UNCHANGED <<ifl, used, at, me, pc>>
    <3>1. /\ ~ifl /\ used = 0 /\ at = "run" /\ me \in Stacks /\ pc[me] = "run"
      BY <2>3 DEF BootInv
    <3>2. ~TimerIrq /\ ~KeyIrq /\ ~ThreadInit /\ ~Switching /\ ~Yield
      BY <2>3, <3>1 DEF TimerIrq, KeyIrq, ThreadInit, Switching, SwitchAlone,
         SwitchFromTimer, SaveEsp, SetCurrent, LoadEsp, SendEoi, Exit, Yield
    <3>3. ~Creating /\ ~Killing
      BY <3>1 DEF Creating, AllocStack, AllocFails, LoadIndex, FillCr3, FillEsp0, FillEsp, Fill,
         EnterStack, PushStart, LeaveStack, LoadCount, Publish, Killing, KillOther, KillSelf,
         Here
    <3>4. Calling => UNCHANGED vars
      BY <3>1 DEF Calling, NewThread, NewThreadNull, KillNone, KillThread
    <3>5. Compute => UNCHANGED <<cpu, used, calls>>
      BY DEF Compute
    <3>6. UNCHANGED vars \/ UNCHANGED <<cpu, used, calls>>
      BY <1>2, <3>2, <3>3, <3>4, <3>5 DEF Next, Runs
    <3> QED
      BY <3>6 DEF vars, kernel, cpu, calls
  <2> QED
    BY <2>2, <2>3 DEF BootInv
<1> QED
  BY <1>1, <1>2

\* Every step keeps the invariant.
LEMMA KernelStep ==
  ASSUME Undisturbed, OneAtATime, KernelInv, SetupInv, BootInv, [Next]_vars
  PROVE  KernelInv' /\ SetupInv' /\ BootInv'
<1>1. SetupInv' /\ BootInv'
  BY BootStep
<1>2. CASE Boots
  <2>1. /\ SettingUp
        /\ UNCHANGED <<threads, used, current, piti, me, esp, at, nxt, isv,
                       stk, calls, alloc, data, mmu>>
    BY <1>2 DEF Boots
  <2>2. at = "run"
    BY <2>1, SetupStep DEF BootInv
  <2>3. ifl' \in BOOLEAN
    BY <2>1 DEF SettingUp, PicWrite, SetMask, ClearMask, PitWrite, SetDescriptor, LoadIdt,
                EnableInterrupts, KernelInv, TypeOK
  <2>4. eax' \in Stacks \cup {Junk} /\ live' \in SUBSET Stacks
    BY <2>1 DEF data, KernelInv, TypeOK
  <2> QED
    BY <1>1, <2>1, <2>2, <2>3, <2>4, KernelStays
<1>3. CASE KeyIrq \/ Compute \/ UNCHANGED vars
  <2>1. UNCHANGED <<threads, used, current, piti, me, esp, at, nxt, isv, stk, calls, alloc, mmu,
                    ifl>>
    BY <1>3 DEF KeyIrq, Compute, vars, kernel, cpu, data
  <2>2. eax' \in Stacks \cup {Junk} /\ live' \in SUBSET Stacks
    BY <1>3, Types DEF KeyIrq, Compute, vars, kernel, data, KernelInv, TypeOK
  <2>3. ifl' \in BOOLEAN /\ ifl' = ifl
    BY <2>1 DEF KernelInv, TypeOK
  <2> QED
    BY <1>1, <2>1, <2>2, <2>3, KernelStays
<1>4. CASE Switching
  BY <1>1, <1>4, SwitchAloneKeeps, SwitchFromTimerKeeps, SaveEspKeeps, SetCurrentKeeps,
     LoadEspKeeps, SendEoiKeeps, ExitKeeps DEF Switching
<1>5. CASE Creating
  BY <1>1, <1>5, AllocStackKeeps, AllocFailsKeeps, LoadIndexKeeps, FillsKeep, BorrowedStack,
     PushStartKeeps, LoadCountKeeps, PublishKeeps DEF Creating
<1>6. CASE Calling
  <2>1. CASE \E d \in Given : NewThread(d)
    BY <1>1, <2>1, NewThreadKeeps
  <2>2. CASE \E i \in Slot : KillThread(i)
    BY <1>1, <2>2, KillThreadKeeps
  <2>3. CASE (\E d \in Given : NewThreadNull(d)) \/ KillNone
    BY <1>3, <2>3 DEF NewThreadNull, KillNone
  <2> QED
    BY <1>6, <2>1, <2>2, <2>3 DEF Calling
<1>7. CASE TimerIrq \/ ThreadInit \/ Yield \/ Killing
  BY <1>1, <1>7, TimerIrqKeeps, ThreadInitKeeps, YieldKeeps, KillOtherKeeps, KillSelfKeeps
  DEF Killing
<1> QED
  BY <1>2, <1>3, <1>4, <1>5, <1>6, <1>7 DEF Next, Runs

\* The kernel invariant: new_thread and kill_thread preempted at each of their
\* steps, ticks on borrowed stacks, nested ticks.  It needs that no tick lands
\* inside the switch of a yield, and that these calls do not overlap.
THEOREM KernelInvariant ==
  ASSUME Undisturbed, OneAtATime
  PROVE  Spec => [](KernelInv /\ SetupInv /\ BootInv)
<1>1. Init => KernelInv /\ SetupInv /\ BootInv
  BY KernelStarts
<1>2. (KernelInv /\ SetupInv /\ BootInv) /\ [Next]_vars
        => (KernelInv /\ SetupInv /\ BootInv)'
  BY KernelStep
<1> QED
  BY <1>1, <1>2, PTL DEF Spec

\* TCBs, frames, stack pointers and the setup are what their names say: no
\* stack pointer leaves its stack, whatever returns through which frame.
THEOREM TypesKept ==
  ASSUME Undisturbed, OneAtATime
  PROVE  Spec => []TypeOK
<1>1. KernelInv => TypeOK
  BY DEF KernelInv
<1> QED
  BY <1>1, KernelInvariant, PTL

\* Every thread in use exists once, and is saved where its code has its stack
\* pointer unless it runs; it runs in its own page directory.
THEOREM ContextsSafe ==
  ASSUME Undisturbed, OneAtATime
  PROVE  Spec => []ContextsKept
<1>1. ASSUME KernelInv PROVE ContextsKept
  <2>1. used \in Nat /\ TypeOK /\ CpuInv /\ ThreadsInv /\ StacksInv
    BY <1>1, Types DEF KernelInv
  <2>2. \A i \in 0..(used - 1) : threads[i].stack \in Stacks
    BY <2>1 DEF ThreadsInv
  <2>3. \A i \in 0..(used - 1) : threads[i].stack \notin avail
    BY <2>1 DEF StacksInv, Taken
  <2>4. ASSUME NEW i \in 0..(used - 1), ~InSwitch, i # current
        PROVE  /\ threads[i].esp.stack = Home(threads[i].stack).stack
               /\ threads[i].esp.h > Home(threads[i].stack).h
               /\ Top(threads[i].esp).who = threads[i].stack
    <3> PICK t \in Stacks : t = threads[i].stack
      BY <2>2
    <3> PICK e : e = threads[i].esp
      OBVIOUS
    <3>1. i \in Slot /\ current \in Slot /\ used > 0 /\ current < used /\ current \in Nat
      <4>1. used # 0
        OBVIOUS
      <4> QED
        BY <2>1, <4>1, Types DEF ThreadsInv
    <3>2. me = threads[current].stack
      BY <2>1, <2>4, <3>1 DEF CpuInv, InSwitch
    <3>3. t # me
      <4>1. current \in 0..(used - 1)
        BY <2>1, <3>1
      <4> QED
        BY <2>1, <2>4, <3>2, <4>1 DEF ThreadsInv
    <3>4. Parked(e, t)
      BY <2>1, <3>3 DEF ThreadsInv
    <3>5. e.stack \in Stacks /\ e.h \in 0..MaxDepth /\ Top(e).who = t
      BY <2>1, <3>4, Resumed
    <3>6. /\ Base(t) \in {1, 2} /\ Base(t) = Home(t).h + 1 /\ Home(t).h \in {0, 1}
          /\ MaxDepth \in Nat
      BY <2>1, Homes, Types
    <3>7. e.h > Home(t).h
      BY <3>4, <3>5, <3>6 DEF Parked, Saved
    <3> QED
      BY <3>4, <3>5, <3>7 DEF Parked
  <2>5. current < used \/ used = 0
    BY <2>1 DEF ThreadsInv
  <2>6. (~InSwitch /\ used > 0) => me = threads[current].stack
    BY <2>1 DEF CpuInv, InSwitch
  <2>7. (at = "run" /\ used > 0) => /\ cr3 = threads[current].cr3
                                    /\ tss \in {Junk, threads[current].stack}
    BY <2>1 DEF ThreadsInv
  <2>8. at = "run" => esp = Home(me)
    BY <2>1 DEF CpuInv
  <2>9. OwnStacks
    BY <2>1 DEF ThreadsInv, OwnStacks
  <2> QED
    BY <2>3, <2>4, <2>5, <2>6, <2>7, <2>8, <2>9 DEF ContextsKept
<1> QED
  BY <1>1, KernelInvariant, PTL

\* The stack pointer that switch_tasks saves is one through which the thread
\* it is saved for goes on, also when that thread was interrupted on the stack
\* of one it is creating.
THEOREM OwnStackSaved ==
  ASSUME Undisturbed, OneAtATime
  PROVE  Spec => []SavesOwnStack
<1>1. ASSUME KernelInv, at = "save" PROVE Top(esp).who = threads[current].stack
  <2>1. TypeOK /\ CpuInv /\ used \in Nat /\ me \in Stacks
    BY <1>1, Types DEF KernelInv
  <2>2. used > 0 /\ me = threads[current].stack /\ Parked(esp, me)
    BY <1>1, <2>1 DEF CpuInv
  <2> QED
    BY <2>1, <2>2, Resumed
<1>2. KernelInv => SavesOwnStack
  BY <1>1 DEF SavesOwnStack
<1> QED
  BY <1>2, KernelInvariant, PTL

\* No stack is lost and none is given twice.
THEOREM StacksSafe ==
  ASSUME Undisturbed, OneAtATime
  PROVE  Spec => []StacksAccounted
<1>1. ASSUME KernelInv PROVE StacksAccounted
  <2> SUFFICES ASSUME NEW s \in Stacks \ {Boot}
               PROVE  Cardinality({k \in 1..4 :
                         CASE k = 1 -> s \in avail [] k = 2 -> s \in dead [] k = 3 -> InUse(s)
                           [] k = 4 -> \E m \in Stacks \ {s} : made[m] = s}) = 1
    BY DEF StacksAccounted
  <2> DEFINE Handed == \E m \in Stacks \ {s} : made[m] = s
             P(k) == CASE k = 1 -> s \in avail [] k = 2 -> s \in dead [] k = 3 -> InUse(s)
                       [] k = 4 -> \E m \in Stacks \ {s} : made[m] = s
             places == {k \in 1..4 : P(k)}
  <2>1. Handed => s \notin avail \cup dead /\ ~InUse(s)
    <3>1. ASSUME NEW m \in Stacks \ {s}, made[m] = s PROVE ~Taken(s) /\ ~InUse(s)
      <4>1. pc[m] # "run" /\ Call(m) /\ made[m] # m
        BY <1>1, <3>1 DEF KernelInv, CallsInv
      <4> QED
        BY <3>1, <4>1 DEF Call
    <3> QED
      BY <3>1 DEF Taken
  <2>2. /\ InUse(s) => s \notin avail \cup dead
        /\ avail \cap dead = {}
        /\ s \in avail \cup dead \/ InUse(s) \/ Handed
    BY <1>1 DEF KernelInv, StacksInv, Taken, InUse
  <2>3. /\ P(1) <=> s \in avail
        /\ P(2) <=> s \in dead
        /\ P(3) <=> InUse(s)
        /\ P(4) <=> Handed
    OBVIOUS
  <2>4. \A k \in 1..4 : k = 1 \/ k = 2 \/ k = 3 \/ k = 4
    OBVIOUS
  <2> HIDE DEF P, Handed
  <2>5. \E k \in 1..4 : places = {k}
    <3>1. CASE P(1)
      BY <2>1, <2>2, <2>3, <2>4, <3>1
    <3>2. CASE P(2)
      BY <2>1, <2>2, <2>3, <2>4, <3>2
    <3>3. CASE P(3)
      BY <2>1, <2>2, <2>3, <2>4, <3>3
    <3>4. CASE P(4)
      BY <2>1, <2>2, <2>3, <2>4, <3>4
    <3> QED
      BY <2>2, <2>3, <3>1, <3>2, <3>3, <3>4
  <2>6. Cardinality(places) = 1
    BY <2>5, FS_Singleton
  <2> QED
    BY <2>6 DEF P
<1> QED
  BY <1>1, KernelInvariant, PTL

\* No thread runs with the timer's EOI still owed.
THEOREM EoiSent ==
  ASSUME Undisturbed, OneAtATime
  PROVE  Spec => []EoiNeverOwed
<1>1. ASSUME KernelInv, at = "run" PROVE ~isv /\ ~piti
  BY <1>1 DEF KernelInv, EoiInv
<1>2. KernelInv => EoiNeverOwed
  BY <1>1 DEF EoiNeverOwed
<1> QED
  BY <1>2, KernelInvariant, PTL

\* Interrupts are enabled once everything that can interrupt has its stub:
\* this needs no hypothesis on what the threads do.
THEOREM StubsReady == Spec => []InterruptsHaveStubs
<1>1. Init => SetupInv /\ BootInv
  BY KernelStarts
<1>2. (SetupInv /\ BootInv) /\ [Next]_vars => (SetupInv /\ BootInv)'
  BY BootStep
<1>3. SetupInv /\ BootInv => InterruptsHaveStubs
  BY SetupComplete DEF BootInv, InterruptsHaveStubs
<1> QED
  BY <1>1, <1>2, <1>3, PTL DEF Spec
=============================================================================
