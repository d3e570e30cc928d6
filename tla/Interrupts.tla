------------------------------ MODULE Interrupts ------------------------------
(***************************************************************************)
(* What idt_init (kernel/arch/i386/idt.c, isr.c) sets up before it enables *)
(* interrupts: the two interrupt controllers with their vectors and masks, *)
(* the counter of the timer and the descriptors of the IDT.  The           *)
(* controllers are 8259s: a write means what the writes before it make it  *)
(* mean.                                                                   *)
(***************************************************************************)
EXTENDS Integers, Sequences

CONSTANT
  FirmwareMasks  \* what the firmware may leave in the mask registers

Line == 0..15
Pic == {1, 2}
PicOf(line) == IF line < 8 THEN 1 ELSE 2
Bit(line) == line % 8

ASSUME InterruptsAssumption == FirmwareMasks \subseteq SUBSET (0..7)

VARIABLES
  booting,  \* the steps of idt_init still to come
  pic,      \* per controller: the word it expects, its first vector, its mask
  pit,      \* the bytes written to the timer's counter
  gates,    \* vectors that have a descriptor: 0..gates-1
  loaded,   \* the IDT is loaded
  ifl       \* the interrupt flag

setup == <<booting, pic, pit, gates, loaded>>

\* The calls of idt_init in their order.  A write is <<PIC, register, byte>>.
Remap == << <<1, "command", "icw1">>, <<2, "command", "icw1">>,
            <<1, "data", 32>>, <<2, "data", 40>>,
            <<1, "data", 4>>, <<2, "data", 2>>,
            <<1, "data", 1>>, <<2, "data", 1>>,
            <<1, "data", 0>>, <<2, "data", 0>> >>

\* for (i = 0; i < 16; i++) IRQ_set_mask(i)
MaskAll == [k \in 1..16 |-> <<"mask", k - 1>>]

\* Mutant: the loop ends one vector early.
OneLess == [k \in 1..33 |-> <<"gate", k - 1>>]

\* for (vector = 0; vector < 34; vector++) idt_set_descriptor(...)
Descriptors == [k \in 1..34 |-> <<"gate", k - 1>>]

IdtInit ==
  [k \in 1..Len(Remap) |-> <<"write", Remap[k]>>] \o MaskAll
  \o << <<"unmask", 0>>, <<"unmask", 1>>,
        <<"pit", 54>>, <<"pit", 11931 % 256>>, <<"pit", 11931 \div 256>> >>
  \o Descriptors \o << <<"lidt", 0>>, <<"sti", 0>> >>

InitInterrupts ==
  /\ booting = IdtInit /\ ifl = FALSE
  /\ \E m \in FirmwareMasks :
       pic = [p \in Pic |-> [expects |-> "ready", mask |-> m, vector |->
                             IF p = 1 THEN 8 ELSE 112]]
  /\ pit = <<>> /\ gates = 0 /\ loaded = FALSE

------------------------------------------------------------------------------
Doing(what) == booting # <<>> /\ Head(booting)[1] = what
Arg == Head(booting)[2]
Done == booting' = Tail(booting)

\* ICW1 clears the mask; vector, cascade and mode follow at the data port,
\* and after them a byte for it is the mask.
Written(p, w) ==
  CASE w[2] = "command" -> [p EXCEPT !.expects = "vector", !.mask = {}]
    [] w[2] = "data" /\ p.expects = "vector" ->
         [p EXCEPT !.expects = "cascade", !.vector = 8 * (w[3] \div 8)]
    [] w[2] = "data" /\ p.expects = "cascade" -> [p EXCEPT !.expects = "mode"]
    [] w[2] = "data" /\ p.expects = "mode" -> [p EXCEPT !.expects = "ready"]
    [] OTHER -> [p EXCEPT !.mask = {b \in 0..7 : (w[3] \div 2^b) % 2 = 1}]

\* PIC_remap, a write at a time.
PicWrite ==
  /\ Doing("write") /\ Done
  /\ pic' = [pic EXCEPT ![Arg[1]] = Written(@, Arg)]
  /\ UNCHANGED <<pit, gates, loaded, ifl>>

\* IRQ_set_mask and IRQ_clear_mask
SetMask ==
  /\ Doing("mask") /\ Done
  /\ pic' = [pic EXCEPT ![PicOf(Arg)].mask = @ \cup {Bit(Arg)}]
  /\ UNCHANGED <<pit, gates, loaded, ifl>>

ClearMask ==
  /\ Doing("unmask") /\ Done
  /\ pic' = [pic EXCEPT ![PicOf(Arg)].mask = @ \ {Bit(Arg)}]
  /\ UNCHANGED <<pit, gates, loaded, ifl>>

\* PIT_init: square wave, low and high byte of 3579545/300.
PitWrite ==
  /\ Doing("pit") /\ Done /\ pit' = Append(pit, Arg)
  /\ UNCHANGED <<pic, gates, loaded, ifl>>

\* idt_set_descriptor(vector, isr_stub_table[vector], 0x8E)
SetDescriptor ==
  /\ Doing("gate") /\ Done /\ gates' = Arg + 1
  /\ UNCHANGED <<pic, pit, loaded, ifl>>

LoadIdt ==
  /\ Doing("lidt") /\ Done /\ loaded' = TRUE
  /\ UNCHANGED <<pic, pit, gates, ifl>>

EnableInterrupts ==
  /\ Doing("sti") /\ Done /\ ifl' = TRUE
  /\ UNCHANGED <<pic, pit, gates, loaded>>

SettingUp == \/ PicWrite \/ SetMask \/ ClearMask \/ PitWrite
             \/ SetDescriptor \/ LoadIdt \/ EnableInterrupts

\* A line gets to the processor: its own mask, and the second controller's
\* place at the first, let it through.
Passes(line) ==
  /\ Bit(line) \notin pic[PicOf(line)].mask
  /\ PicOf(line) = 2 => 2 \notin pic[1].mask

Vector(line) == pic[PicOf(line)].vector + Bit(line)
==============================================================================
