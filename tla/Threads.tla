------------------------------- MODULE Threads -------------------------------
(***************************************************************************)
(* Threads and context switching (kernel/arch/i386/thread.c and the timer  *)
(* stub, switch_tasks and kill_switch_tasks of boot.S) on one processor,   *)
(* at the granularity at which a timer interrupt can get in: switch_tasks  *)
(* is a few instructions, and runs with interrupts enabled when a thread   *)
(* calls switch_thread(false) itself; so do new_thread, which borrows the  *)
(* stack pointer for a while, and the test at the head of kill_thread.     *)
(*                                                                         *)
(* A thread is named by its stack.  A stack holds the frames a thread      *)
(* returns through: "start" (what new_thread pushes), "yield" (a call of   *)
(* switch_tasks by the thread) and "irq" (isr_stub_32 and its call of      *)
(* switch_tasks, with what the processor will resume).                     *)
(***************************************************************************)
EXTENDS Integers, FiniteSets, Interrupts

CONSTANTS
  Stacks,           \* the boot stack and the blocks new_thread may get
  Boot,             \* the boot stack, of the thread that runs kernel_main
  TCB_MAX_THREADS,  \* 6
  MaxDepth,         \* frames a stack can hold: bounds nested interrupts
  Dirs,             \* page directories
  BootDir,          \* page_directory_start
  Given, NULL,      \* what new_thread may be given as page directory
  Creators,         \* threads that call new_thread
  Killers,          \* threads that call kill_thread on another thread
  Quitters,         \* threads that call kill_thread on themselves
  Overlap,          \* a thread may call new_thread or kill_thread while
                    \* another is inside one of them
  Yielders,         \* threads that call switch_thread(false), as
                    \* keycode_handler does while it waits for a key
  Computing,        \* threads that keep a value in EAX between instructions
  Keys,             \* keys are pressed
  TicksInYield,     \* a tick may land inside the switch of a yield
  Junk              \* what an interrupt leaves in EAX

ASSUME ThreadsAssumption ==
  /\ Boot \in Stacks /\ Junk \notin Stacks /\ NULL \notin Stacks
  /\ BootDir \in Dirs \ {NULL} /\ Given \subseteq Dirs \cup {NULL}
  /\ TCB_MAX_THREADS \in Nat \ {0} /\ MaxDepth \in Nat \ {0}
  /\ Creators \cup Killers \cup Quitters \cup Yielders \cup Computing \subseteq Stacks
  /\ Overlap \in BOOLEAN

Slot == 0..(TCB_MAX_THREADS - 1)

\* What the processor runs: the code of a thread, or a part of the switch.
Where == {"run", "isr", "save", "next", "load", "eoi", "exit"}

\* How far a thread is in its own code, in new_thread and in kill_thread.
Point == {"run", "alloc", "index", "cr3", "esp0", "esp", "enter", "push", "leave",
          "count", "publish", "kill"}

NoFrame == [kind |-> "none", who |-> NULL, at |-> "run", nxt |-> 0]
NoTcb == [stack |-> NULL, cr3 |-> NULL, esp |-> [stack |-> NULL, h |-> 0]]

VARIABLES
  threads,  \* the TCBs: esp0 (as the stack it is in), cr3 and the saved esp
  used,     \* used_threads
  current,  \* current_task_TCB as an index
  piti,     \* an EOI is owed by whoever is switched to
  me,       \* the thread whose registers the processor holds
  esp,      \* the processor's stack pointer: a stack and a height in it
  stk,      \* the frames of each stack; those above the height are stale
  at, nxt,  \* the next instruction and the target of the switch under way
  isv,      \* the timer interrupt is in service: the PIC holds back others
  pc,       \* per thread, how far it is in its code
  made,     \* new_thread's stack, per thread
  dir,      \* new_thread's cr3, per thread
  slot,     \* new_thread's copy of used_threads, kill_thread's index
  avail,    \* free stack blocks
  dead,     \* dead_stacks: stacks free_block did not take
  cr3, tss, \* the processor's page directory, and esp0 of tss_1
  eax,      \* whose value EAX holds
  live      \* threads whose next instruction uses the value they left in EAX

cpu == <<me, esp, at, nxt, ifl, isv>>
data == <<eax, live>>
calls == <<pc, made, dir, slot>>
alloc == <<avail, dead>>
mmu == <<cr3, tss>>
kernel == <<threads, used, current, piti, cpu, stk, calls, alloc, data, mmu>>
vars == <<kernel, setup>>

\* The frame on top of the stack that e points into.
Top(e) == IF e.h = 0 THEN NoFrame ELSE stk[e.stack][e.h]

\* When the processor comes to idt_init: one stack, no TCB, and the .bss zero.
Init ==
  /\ InitInterrupts
  /\ threads = [i \in Slot |-> NoTcb] /\ used = 0 /\ current = 0
  /\ piti = FALSE
  /\ me = Boot /\ esp = [stack |-> Boot, h |-> 0]
  /\ stk = [s \in Stacks |-> [d \in 1..MaxDepth |-> NoFrame]]
  /\ at = "run" /\ nxt = 0 /\ isv = FALSE
  /\ pc = [s \in Stacks |-> "run"] /\ made = [s \in Stacks |-> s]
  /\ dir = [s \in Stacks |-> BootDir] /\ slot = [s \in Stacks |-> 0]
  /\ avail = Stacks \ {Boot} /\ dead = {}
  /\ eax = Junk /\ live = {}
  /\ cr3 = BootDir /\ tss = Junk

\* thread_init, once boot has left idt_init.
ThreadInit ==
  /\ booting = <<>> /\ used = 0 /\ at = "run"
  /\ threads' = [threads EXCEPT ![0].stack = Boot, ![0].cr3 = cr3]
  /\ current' = 0 /\ used' = 1
  /\ UNCHANGED <<piti, cpu, stk, calls, alloc, data, mmu>>

------------------------------------------------------------------------------
\* Mutant: the last thread is never chosen.
SkipsLast == IF current >= used - 2 THEN 0 ELSE current + 1

\* Mutant: the index runs past the threads in use.
NoWrap == current + 1

\* Round robin over the TCBs in use.
Successor == IF current = used - 1 THEN 0 ELSE current + 1

PushFrame(f) ==
  /\ esp.h < MaxDepth
  /\ stk' = [stk EXCEPT ![esp.stack][esp.h + 1] = f]
  /\ esp' = [esp EXCEPT !.h = @ + 1]

\* The timer interrupts wherever the flag allows; the handler uses EAX.
TimerIrq ==
  /\ ifl /\ ~isv /\ Passes(0)
  /\ TicksInYield \/ at \notin {"save", "next", "load", "eoi"}
  /\ PushFrame([kind |-> "irq", who |-> me, at |-> at, nxt |-> nxt])
  /\ at' = "isr" /\ ifl' = FALSE /\ isv' = TRUE /\ eax' = Junk
  /\ UNCHANGED <<threads, used, current, piti, me, nxt, calls, alloc, live, mmu>>

\* isr_stub_33 with its EOI: it runs with interrupts disabled, and its line
\* waits while the timer is in service.  What the handler does with the scan
\* code is module Keyboard's.
KeyIrq ==
  /\ Keys /\ ifl /\ ~isv /\ Passes(1)
  /\ eax' = Junk
  /\ UNCHANGED <<threads, used, current, piti, cpu, stk, calls, alloc, live, mmu>>

\* iret: what was interrupted goes on.
Iret(f) == /\ esp' = [esp EXCEPT !.h = @ - 1]
           /\ at' = f.at /\ nxt' = f.nxt /\ ifl' = TRUE

\* switch_thread(true) with a single thread: EOI, and back.
SwitchAlone ==
  /\ at = "isr" /\ used < 2
  /\ Iret(Top(esp)) /\ isv' = FALSE
  /\ UNCHANGED <<threads, used, current, piti, me, stk, calls, alloc, data, mmu>>

\* Mutant: the EOI is not passed on to the thread that is switched to.
NoEoi == FALSE

Owed == TRUE

\* switch_thread(true): piti = send_eoi | piti.
SwitchFromTimer ==
  /\ at = "isr" /\ used >= 2
  /\ piti' = Owed /\ nxt' = Successor /\ at' = "save"
  /\ UNCHANGED <<threads, used, current, me, esp, ifl, isv, stk, calls, alloc, data, mmu>>

\* The thread me executes its own code, and has come to p.
Here(p) == at = "run" /\ pc[me] = p
Goto(p) == pc' = [pc EXCEPT ![me] = p]

\* switch_thread(false): a call, before which the compiler saves EAX.
Yield ==
  /\ Here("run") /\ me \in Yielders /\ used >= 2
  /\ PushFrame([kind |-> "yield", who |-> me, at |-> "run", nxt |-> 0])
  /\ nxt' = Successor /\ at' = "save" /\ live' = live \ {me}
  /\ UNCHANGED <<threads, used, current, piti, me, ifl, isv, calls, alloc, eax, mmu>>

------------------------------------------------------------------------------
(* switch_tasks, between the instructions where an interrupt matters.      *)

\* movl %esp, 4(%edi)
SaveEsp ==
  /\ at = "save"
  /\ threads' = [threads EXCEPT ![current].esp = esp]
  /\ at' = "next"
  /\ UNCHANGED <<used, current, piti, me, esp, nxt, ifl, isv, stk, calls, alloc, data, mmu>>

\* movl %esi, current_task_TCB
SetCurrent ==
  /\ at = "next"
  /\ current' = nxt /\ at' = "load"
  /\ UNCHANGED <<threads, used, piti, me, esp, nxt, ifl, isv, stk, calls, alloc, data, mmu>>

\* movl 4(%esi), %esp; the same TCB's esp0 and cr3 go to the TSS and to CR3.
\* The registers that will be popped are those of whoever pushed the frame.
LoadEsp ==
  /\ at = "load"
  /\ esp' = threads[nxt].esp /\ me' = Top(threads[nxt].esp).who /\ at' = "eoi"
  /\ tss' = threads[nxt].stack /\ cr3' = threads[nxt].cr3
  /\ UNCHANGED <<threads, used, current, piti, nxt, ifl, isv, stk, calls, alloc, data>>

\* The EOI is sent once the processor is on the next thread's stack.
SendEoi ==
  /\ at = "eoi"
  /\ IF piti THEN isv' = FALSE /\ piti' = FALSE /\ ifl' = TRUE
             ELSE UNCHANGED <<isv, piti, ifl>>
  /\ at' = "exit" /\ eax' = Junk
  /\ UNCHANGED <<threads, used, current, me, esp, nxt, stk, calls, alloc, live, mmu>>

\* The registers are popped and the frame on top of the stack is left.
Exit ==
  /\ at = "exit"
  /\ IF Top(esp).kind = "irq"
     THEN Iret(Top(esp))
     ELSE /\ esp' = [esp EXCEPT !.h = @ - 1] /\ at' = "run" /\ nxt' = 0
          /\ UNCHANGED ifl
  /\ UNCHANGED <<threads, used, current, piti, me, isv, stk, calls, alloc, data, mmu>>

------------------------------------------------------------------------------
(* new_thread: interrupts stay enabled, and each access to used_threads,   *)
(* to the TCB past the last one and to the stack pointer is a step.        *)

\* What callers of new_thread and kill_thread keep to, unless Overlap.
Alone == Overlap \/ \A s \in Stacks : pc[s] = "run"

\* The call returns.
Leaves ==
  /\ Goto("run") /\ made' = [made EXCEPT ![me] = me]
  /\ dir' = [dir EXCEPT ![me] = BootDir] /\ slot' = [slot EXCEPT ![me] = 0]

\* No free TCB, or no page directory.
NewThreadNull(d) ==
  /\ Here("run") /\ me \in Creators /\ used > 0 /\ Alone
  /\ used = TCB_MAX_THREADS \/ d = NULL
  /\ UNCHANGED vars

NewThread(d) ==
  /\ Here("run") /\ me \in Creators /\ used > 0 /\ Alone
  /\ used # TCB_MAX_THREADS /\ d # NULL
  /\ Goto("alloc") /\ dir' = [dir EXCEPT ![me] = d] /\ live' = live \ {me}
  /\ UNCHANGED <<threads, used, current, piti, cpu, stk, made, slot, alloc, eax, mmu>>

\* alloc_block finds a stack, or no range or no frames for one.
AllocStack ==
  /\ Here("alloc") /\ Goto("index")
  /\ \E s \in avail : avail' = avail \ {s} /\ made' = [made EXCEPT ![me] = s]
  /\ UNCHANGED <<threads, used, current, piti, cpu, stk, dir, slot, dead, data, mmu>>

AllocFails ==
  /\ Here("alloc") /\ Leaves
  /\ UNCHANGED <<threads, used, current, piti, cpu, stk, alloc, data, mmu>>

\* used_threads is read, once for the three fields at threads[used_threads].
LoadIndex ==
  /\ Here("index") /\ Goto("cr3") /\ slot' = [slot EXCEPT ![me] = used]
  /\ UNCHANGED <<threads, used, current, piti, cpu, stk, made, dir, alloc, data, mmu>>

Fill(here, there, filled) ==
  /\ Here(here) /\ Goto(there) /\ threads' = filled
  /\ UNCHANGED <<used, current, piti, cpu, stk, made, dir, slot, alloc, data, mmu>>

Tcb == slot[me]
FillCr3 == Fill("cr3", "esp0", [threads EXCEPT ![Tcb].cr3 = dir[me]])
FillEsp0 == Fill("esp0", "esp", [threads EXCEPT ![Tcb].stack = made[me]])
FillEsp == Fill("esp", "enter",
                [threads EXCEPT ![Tcb].esp = [stack |-> made[me], h |-> 1]])

\* movl %0, %esp: the creator goes on on the new stack...
EnterStack ==
  /\ Here("enter") /\ Goto("push") /\ esp' = [stack |-> made[me], h |-> 0]
  /\ UNCHANGED <<threads, used, current, piti, me, at, nxt, ifl, isv, stk,
                 made, dir, slot, alloc, data, mmu>>

\* ...pushes the frame the new thread starts from...
PushStart ==
  /\ Here("push") /\ Goto("leave")
  /\ PushFrame([kind |-> "start", who |-> made[me], at |-> "run", nxt |-> 0])
  /\ UNCHANGED <<threads, used, current, piti, me, at, nxt, ifl, isv,
                 made, dir, slot, alloc, data, mmu>>

\* ...and takes current_esp back, which is where its own code has it: it has
\* left the frames of its stack.
LeaveStack ==
  /\ Here("leave") /\ Goto("count") /\ esp' = [stack |-> me, h |-> 0]
  /\ UNCHANGED <<threads, used, current, piti, me, at, nxt, ifl, isv, stk,
                 made, dir, slot, alloc, data, mmu>>

\* return threads + (used_threads++): a load and a store.
LoadCount ==
  /\ Here("count") /\ Goto("publish") /\ slot' = [slot EXCEPT ![me] = used]
  /\ UNCHANGED <<threads, used, current, piti, cpu, stk, made, dir, alloc, data, mmu>>

Counted == slot[me] + 1

Publish ==
  /\ Here("publish") /\ used' = Counted /\ Leaves
  /\ UNCHANGED <<threads, current, piti, cpu, stk, alloc, data, mmu>>

------------------------------------------------------------------------------
(* kill_thread                                                             *)

\* The last thread cannot be killed.
KillNone ==
  /\ Here("run") /\ me \in Killers \cup Quitters /\ used <= 1
  /\ UNCHANGED vars

\* The test of used_threads, before cli.  Threads whose stack came from
\* alloc_block are killed, by themselves or by another.
KillThread(i) ==
  /\ Here("run") /\ used > 1 /\ Alone
  /\ i < used /\ threads[i].stack # Boot
  /\ IF i = current THEN me \in Quitters ELSE me \in Killers
  /\ Goto("kill") /\ slot' = [slot EXCEPT ![me] = i] /\ live' = live \ {me}
  /\ UNCHANGED <<threads, used, current, piti, cpu, stk, made, dir, alloc, eax, mmu>>

\* Mutant: one TCB too few moves down.
LeavesGap(i) == [k \in Slot |-> IF k > i /\ k + 1 \in Slot THEN threads[k + 1]
                                                            ELSE threads[k]]

\* memmove over the TCB at index i.
MovedDown(i) == [k \in Slot |-> IF k >= i /\ k + 1 \in Slot THEN threads[k + 1]
                                                             ELSE threads[k]]

\* Mutant: the stack is read from the TCB after the others moved down.
ReadLate(i) == MovedDown(i)[i].stack

\* thread->esp0-0x3fff
StackOf(i) == threads[i].stack

\* if (current_task_TCB > thread) current_task_TCB--
Adjusted(c, i) == IF c > i THEN c - 1 ELSE c

\* Named bound: dead_stacks has TCB_MAX_THREADS places, and its count is never
\* checked nor lowered.
RoomForDead == Cardinality(dead) < TCB_MAX_THREADS

\* The TCB at i goes; free_block takes its stack or, with its table full, the
\* stack is remembered in dead_stacks.  c is the thread that goes on.
Remove(i, c) ==
  /\ used' = used - 1 /\ threads' = MovedDown(i) /\ current' = Adjusted(c, i)
  /\ \/ avail' = avail \cup {StackOf(i)} /\ dead' = dead
     \/ RoomForDead /\ dead' = dead \cup {StackOf(i)} /\ avail' = avail
  /\ eax' = Junk /\ live' = live \ {StackOf(i)}

\* Another thread.  cli, and no sti: the caller goes on with interrupts
\* disabled.
KillOther ==
  /\ Here("kill") /\ slot[me] # current
  /\ Remove(slot[me], current) /\ Leaves /\ ifl' = FALSE
  /\ UNCHANGED <<piti, me, esp, nxt, isv, stk, at, mmu>>

\* movl current_task_TCB, %esi: the TCB may have moved.
NextTcb == threads'[current']

\* The thread itself: kill_switch_tasks loads the next thread's stack, calls
\* kill_thread from there, whose test is passed again, and enables interrupts
\* before it returns.
KillSelf ==
  /\ Here("kill") /\ slot[me] = current /\ used > 1
  /\ esp' = threads[Successor].esp /\ me' = Top(threads[Successor].esp).who
  /\ Remove(current, Successor) /\ Leaves
  /\ tss' = NextTcb.stack /\ cr3' = NextTcb.cr3
  /\ ifl' = TRUE /\ at' = "exit"
  /\ UNCHANGED <<piti, nxt, isv, stk>>

\* A thread leaves a value in EAX that its next instruction uses.
Compute ==
  /\ Here("run") /\ me \in Computing
  /\ eax' = me /\ live' = live \cup {me}
  /\ UNCHANGED <<threads, used, current, piti, cpu, stk, calls, alloc, mmu>>

------------------------------------------------------------------------------
Switching == \/ SwitchAlone \/ SwitchFromTimer
             \/ SaveEsp \/ SetCurrent \/ LoadEsp \/ SendEoi \/ Exit
Creating == \/ AllocStack \/ AllocFails \/ LoadIndex \/ FillCr3 \/ FillEsp0 \/ FillEsp
            \/ EnterStack \/ PushStart \/ LeaveStack \/ LoadCount \/ Publish
Killing == KillOther \/ KillSelf
Calling == \/ \E d \in Given : NewThread(d) \/ NewThreadNull(d)
           \/ KillNone \/ \E i \in Slot : KillThread(i)

\* idt_init runs on the boot stack, before anything can interrupt it.
Boots == SettingUp /\ UNCHANGED <<threads, used, current, piti, me, esp, at, nxt, isv,
                                   stk, calls, alloc, data, mmu>>
Runs == /\ TimerIrq \/ KeyIrq \/ ThreadInit \/ Switching
           \/ Yield \/ Calling \/ Creating \/ Killing \/ Compute
        /\ UNCHANGED setup

Next == Boots \/ Runs

Spec == Init /\ [][Next]_vars

\* The processor executes its next instruction, and the timer ticks; between
\* two ticks (10 ms) there is time for an instruction of a call.
Fairly(A) == A /\ UNCHANGED setup
FairSpec == /\ Spec /\ WF_vars(Boots) /\ WF_vars(Fairly(ThreadInit))
            /\ WF_vars(Fairly(Switching)) /\ WF_vars(Fairly(TimerIrq))
            /\ SF_vars(Fairly(Creating \/ Killing))

------------------------------------------------------------------------------
(* Properties                                                              *)

TypeOK ==
  /\ threads \in [Slot -> [stack : Stacks \cup {NULL}, cr3 : Dirs \cup {NULL},
                           esp : [stack : Stacks \cup {NULL}, h : 0..MaxDepth]]]
  /\ used \in 0..TCB_MAX_THREADS /\ current \in Slot /\ piti \in BOOLEAN
  /\ me \in Stacks /\ esp \in [stack : Stacks, h : 0..MaxDepth]
  /\ stk \in [Stacks -> [1..MaxDepth ->
               [kind : {"none", "start", "yield", "irq"}, who : Stacks \cup {NULL},
                at : Where, nxt : Slot]]]
  /\ at \in Where /\ nxt \in Slot /\ ifl \in BOOLEAN /\ isv \in BOOLEAN
  /\ pc \in [Stacks -> Point] /\ made \in [Stacks -> Stacks]
  /\ dir \in [Stacks -> Dirs \ {NULL}] /\ slot \in [Stacks -> 0..TCB_MAX_THREADS]
  /\ avail \in SUBSET Stacks /\ dead \in SUBSET Stacks
  /\ cr3 \in Dirs \ {NULL} /\ tss \in Stacks \cup {Junk}
  /\ eax \in Stacks \cup {Junk} /\ live \in SUBSET Stacks

\* "Creates a new thread with its own stack" (thread.c:49): each thread in use
\* has a stack, and no two have the same.
OwnStacks ==
  \A i, j \in 0..(used - 1) :
    /\ threads[i].stack \in Stacks
    /\ i # j => threads[i].stack # threads[j].stack

\* Where the code of thread s has its stack pointer: new_thread is for three
\* instructions on the stack it has made.
Home(s) == [stack |-> IF pc[s] \in {"push", "leave"} THEN made[s] ELSE s,
            h |-> IF pc[s] = "leave" THEN 1 ELSE 0]

InSwitch == at \in {"next", "load", "eoi", "exit"}

\* Every thread in use exists once, on a stack that is not free, and while the
\* processor runs one, every other is saved where its code has its stack
\* pointer, below a frame through which that thread and no other goes on: also
\* the one that was interrupted on the stack of a thread it is creating.  A
\* thread runs in its own page directory and, once threads have switched, with
\* its own stack in the TSS, however the TCBs were moved in between.
ContextsKept ==
  /\ OwnStacks
  /\ \A i \in 0..(used - 1) :
       /\ threads[i].stack \notin avail
       /\ (~InSwitch /\ i # current) =>
            /\ threads[i].esp.stack = Home(threads[i].stack).stack
            /\ threads[i].esp.h > Home(threads[i].stack).h
            /\ Top(threads[i].esp).who = threads[i].stack
  /\ current < used \/ used = 0
  /\ (~InSwitch /\ used > 0) => me = threads[current].stack
  /\ at = "run" => esp = Home(me)
  /\ (at = "run" /\ used > 0) => /\ cr3 = threads[current].cr3
                                 /\ tss \in {Junk, threads[current].stack}

\* "Update esp on the previous task's TCB" (boot.S:204): what switch_tasks
\* saves is a stack pointer through which the thread of that TCB goes on.
SavesOwnStack == at = "save" => Top(esp).who = threads[current].stack

\* No stack is lost and none is given twice: each block is free, on its way
\* into new_thread, in use by one thread or in dead_stacks.
InUse(s) == \E i \in 0..(used - 1) : threads[i].stack = s
StacksAccounted ==
  \A s \in Stacks \ {Boot} :
    Cardinality({k \in 1..4 : CASE k = 1 -> s \in avail
                                [] k = 2 -> s \in dead
                                [] k = 3 -> InUse(s)
                                [] k = 4 -> \E m \in Stacks \ {s} : made[m] = s}) = 1

\* Whatever can interrupt has its descriptor and its stub from the first
\* moment interrupts are enabled, and no other line gets through.
InterruptsHaveStubs ==
  ifl => \A line \in Line : Passes(line) =>
    /\ line \in {0, 1} /\ Vector(line) = 32 + line
    /\ loaded /\ Vector(line) < gates

\* Code of a thread never runs with the timer's EOI still owed: the switch
\* sends it for the thread that was interrupted, whichever thread it resumes.
EoiNeverOwed == at = "run" => ~isv /\ ~piti

\* "For cdecl, EAX, ECX, and EDX are already saved by the caller and don't
\* need to be saved again" (boot.S:193): a thread that goes on finds in EAX
\* what it left there.
ScratchKept == (Here("run") /\ me \in live) => eax = me

\* Under a timer that keeps ticking every thread in use runs again and again,
\* and comes out of what it has called.
Running(s) == Here("run") /\ me = s
Crowded == at = "isr" /\ Top(esp).at = "exit"
EveryThreadRuns ==
  \A s \in Stacks :
    <>[]~ifl \/ []<>Crowded \/ []<>(InUse(s) => Running(s))
==============================================================================
