# A verification of rOSes

rOSes is a small 32-bit x86 kernel (C and assembly, about 2000 lines of code).
This directory holds TLA+ modules translated from its source, TLC
configurations that check them on small instances, and theorems, proved by
TLAPS for every value of the constants, about the physical and the virtual
memory manager, the heap, threads and interrupts, the keyboard, the PS/2 controller,
the terminal and the C library.

    tlc -workers 2 -config MCPmm.cfg MCPmm.tla      # one run
    tlapm Pmm_proofs.tla                            # the proofs of a module

## 1. Inventory

All paths are under `src/kernel/arch/i386/` unless they say otherwise.

| Component | State it keeps | Operations | Talks to |
|---|---|---|---|
| Physical memory manager, `pmm.c` | `free_blocks`, `last_freed`, `coalesce_ptr` | `pmm_init`, `alloc_page`, `free_page`, `coalesce`/`coalesce_loop`, `test_pmm` | the Multiboot2 memory map; called by the VMM |
| Virtual memory manager, `vmm.c` | two tables of free ranges sorted by size, the page directory and page tables, the TLB | `alloc_block`, `free_block`, `check_lower`, `check_upper`, `map_page`, `unmap_page`, `flush_tlb` | `alloc_page`/`free_page`; called by the heap and by threads |
| Threads, `thread.c`, `boot.S` | the array of TCBs, `used_threads`, `current_task_TCB`, `piti`, a stack per thread, `dead_stacks`, CR3 and the TSS | `thread_init`, `switch_thread`, `switch_tasks`, `new_thread`, `kill_thread`, `kill_switch_tasks`, the stubs `isr_stub_32` and `isr_stub_33` | `alloc_block`/`free_block` for stacks; the PIC; interrupted by the PIT |
| Keyboard, `keyboard.c` | the decoder's `extended` state, `keycode_stack`, `press_keys`, `toggle_keys` | `PS2_key_handler` (interrupt 1), the thread `keycode_handler`, `keyboard_init`, `keyboard_update_leds` | the PS/2 controller; the terminal; `switch_thread(false)` |
| Heap, `heap.c` | a doubly linked list of headers | `heap_init`, `kmalloc`, `split_header`, `kfree`, `test_heap` | `alloc_block` |
| Terminal, `tty.c` | row, column, length of each row, video memory, the hardware cursor | `terminal_initialize`, `terminal_write`, `terminal_putchar`, `terminal_backspace`, `terminal_scrollup`, `terminal_eval_unicode` | `printf`, the keyboard thread |
| PS/2 controller, `device.c` | which ports and devices exist | `PS2_init`, `identify_device`, `send_byte`, `recieve_byte` | port I/O, `keyboard_init` |
| IDT, PIC, PIT, `idt.c`, `isr.c` | the IDT, the registers of the two interrupt controllers and of the timer | `idt_init` and what it calls, once at boot | decides which interrupts reach threads and keyboard |
| Boot, GDT, page directory | tables in memory | run once at boot | everything |
| `src/kernel/kernel/kernel.c` | none | runs the three boot-time tests, then halts | PMM, VMM, heap, `printf` |
| C library, `src/libc` | none between calls | `printf`, `puts`, `memmove`, `memcpy`, `memset`, `memcmp`, `strlen`, `abort` | terminal; every table of the kernel is moved with `memmove` |

What makes it hard, and what correctness means for each part:

* **PMM.** Sequential, but `coalesce_loop` removes entries from the array it
  iterates over, recurses, and moves `coalesce_ptr` before, during and after
  the recursion. Correct: no page of RAM is handed out twice, none is lost,
  only whole pages of available RAM are managed, the loop ends, and the table
  (whose capacity is never tested) stays small enough.
* **VMM.** An allocation takes one frame and one mapping at a time and can fail
  after any of them; the rollback must return everything exactly once. The
  tables are sorted by size and rely on that order. Interrupts are not masked
  while pages are mapped, so a second caller could get in; today there is one.
  The TLB is flushed by the callers of `unmap_page`, not by it. Correct:
  frames, ranges and mappings agree through every failure, and callers see
  ranges that never overlap.
* **Threads.** A timer tick can arrive between any two instructions. It switches
  stacks in the middle of other code, `switch_tasks` itself included when a
  thread yields; the EOI of a tick is sent by the thread that is resumed;
  `new_thread` fills a TCB and works on another thread's stack with interrupts
  enabled, and the guard of `kill_thread` is tested before they are masked;
  TCBs move in the array when a thread is killed. Correct: every saved context
  can be returned through by its own thread, every thread runs in its
  own page directory, no stack is lost, no EOI is lost, nobody is starved,
  registers survive, and nothing that has no stub interrupts.
* **Keyboard.** An interrupt handler and a thread share `keycode_stack` without
  masking interrupts. Correct: keys come out in order, none is lost, and the
  modifiers and locks the thread believes in are those held and lit; the
  characters are what the keyboard's legend says.
* **Heap.** Headers are split and merged through `next`/`prev` fields. Correct:
  list and memory agree, live blocks never overlap, and what was cut is merged
  again once it is free.
* **PS/2 controller.** `recieve_byte` gives up after a while and every byte,
  from either device or from the controller, comes through the same register:
  a late answer is taken for the answer to the next command. Correct: every
  keyboard is found and enabled, nothing else is taken for one, it ends.
* **Terminal.** The length of each row is kept beside the cells and rotated when
  the rows move up; a backspace relies on it, and can leave the column where no
  character belongs. Correct: what is on the screen is the text that was
  written, edited at its end.
* **C library.** Loops with boundaries: INT_MIN, a buffer that a numeral fills
  exactly, a count that may not pass INT_MAX, ranges that overlap. Correct:
  each call does what its definition says.

## 2. Modules

| Module | Models | Depends on |
|---|---|---|
| `PageAllocator` | what `alloc_page`/`free_page` promise: an abstract specification | |
| `Pmm` | all of `pmm.c` that changes state | INSTANCE of `PageAllocator` |
| `Pmm_proofs` | theorems about `Pmm` | EXTENDS `Pmm`, `FiniteSetTheorems`, TLAPS |
| `RangeAllocator` | what `alloc_block`/`free_block` and `kmalloc`/`kfree` promise | |
| `Vmm` | `vmm.c`, on the frames `PageAllocator` promises | INSTANCE of `RangeAllocator` |
| `Vmm_proofs` | theorems about `Vmm` | EXTENDS `Vmm`, `FiniteSetTheorems`, `WellFoundedInduction`, TLAPS |
| `Heap` | `heap.c`, on the pages `alloc_block` promises | INSTANCE of `RangeAllocator` |
| `Heap_proofs` | theorems about `Heap` | EXTENDS `Heap`, `FiniteSetTheorems`, `SequenceTheorems`, `WellFoundedInduction`, TLAPS |
| `Interrupts` | `idt_init` and what the controllers let through afterwards | |
| `Threads` | `thread.c`, and the switching code of `boot.S` | EXTENDS `Interrupts` |
| `Threads_proofs` | theorems about `Interrupts` and `Threads` | EXTENDS `Threads`, `SequenceTheorems`, `FiniteSetTheorems`, TLAPS |
| `Keyboard` | `keyboard.c` from scan codes to characters and LEDs | |
| `Keyboard_proofs` | theorems about `Keyboard` | EXTENDS `Keyboard`, `SequenceTheorems`, TLAPS |
| `Ps2` | `device.c` and `keyboard_init`, against a controller and two devices | |
| `Ps2_proofs` | theorems about `Ps2` | EXTENDS `Ps2`, `SequenceTheorems`, `FiniteSetTheorems`, `WellFoundedInduction`, TLAPS |
| `Screen` | what the terminal promises: a page edited at its end | |
| `Tty` | `tty.c` | INSTANCE of `Screen` |
| `Tty_proofs` | theorems about `Tty` | EXTENDS `Tty`, `SequenceTheorems`, TLAPS |
| `Printf` | `printf` | |
| `Mem` | `memmove`, `memcpy`, `memset`, `memcmp`, `strlen` | |
| `Libc` | the two as one library, a call at a time | EXTENDS `Printf`, `Mem` |
| `Libc_proofs` | theorems about `Printf`, `Mem` and `Libc` | EXTENDS `Libc`, `SequenceTheorems`, `FiniteSetTheorems`, `WellFoundedInduction`, TLAPS |
| `MCPmm`, `MCVmm`, `MCThreads`, `MCKeyboard`, `MCLibc` | values for TLC | the module they name |

The models meet at interfaces, as the code does. `Vmm` uses the physical
allocator only as a set of free frames: `ImplementsPageAllocator` (proved)
justifies that for any table `Pmm` can be in. `Heap` and `Threads` use
`alloc_block` as "some free run of pages, or NULL", which is what `Vmm` is
proved to implement (`RangeAllocatorSpec`); `Heap` is proved to implement the
same specification for its own callers, in bytes. `Threads` runs on the
controllers as `Interrupts` has set them up. What `Keyboard` prints and what
`Printf` passes to `putchar` are the characters `Tty` is given.

**Pmm.** Addresses in the table are page numbers, because every address in it is
page aligned; the entries of the memory map are in bytes, so that the rounding
of `pmm_init` is really computed. The sum `addr_low + len_low` wraps at
`AddressSpace` as the code's `uint32_t` sum does. Indices replace pointers.
`ScanEntry` is one turn of the loop of `pmm_init`; `FinishInit` the end of it;
`AllocPage`/`AllocPageNull` and `FreePage` are whole calls; `coalesce` is
`CoalesceNothing` (the early return), `CoalesceStart`, one `Merge` per
recursive call of `coalesce_loop`, and `NextBlock`, in which all pending calls
return, each moving `coalesce_ptr` on (`depth` counts them). `owned` and `ret`
are history: what callers hold, and what the last call returned. A
`free_page` on an empty table reads `free_blocks[-1]`; `SlotBelow` is the zero
padding that is there.

**Vmm.** `blocks[s][k]` are the slots of a table, including those above its end
(they keep stale values the code reads). `AllocTake` searches and carves the
range; `AllocFrame`, `MapPage`/`MapPageNewTable` are one page each;
`AllocFails` is the rollback entry; `SettleMerge`/`SettleDone` are
`check_upper`; `UnmapPage`/`UnmapReturn` finish a free or a rollback. `TlbFill`
is the processor caching any translation at any time. Each action is a stretch
of code a second thread cannot usefully split; with two `Threads` the stretches
would interleave. The kernel's only caller is the thread of `kernel_main`, so
the run has one.

**RangeAllocator.** A set of ranges held by callers: an allocation adds one that
lies in the pool and overlaps none of the others, a free removes one. For `Vmm`
the units are pages of either space and `held` is the history `allocs`; for
`Heap` they are bytes and `held` the callers' requests, so that a block smaller
than its request would overlap its neighbour. Every internal step (mapping,
rollback, merging) is a stutter.

**Interrupts.** `booting` is what is left of the calls of `idt_init`, each write
to a controller an element. `Written` is the controllers' side: after ICW1 the
data port takes vector, cascade and mode before a byte is a mask again, so an
initialisation in the wrong order would leave other vectors and masks.
`Passes` and `Vector` are what `Threads` asks about a line.

**Threads.** It begins with `idt_init` on the boot stack, with interrupts enabled
before `thread_init` has run, as the code has it. A thread is named by its
stack. `switch_tasks` is split at the instructions at which an interrupt
matters (`SaveEsp`, `SetCurrent`, `LoadEsp`, `SendEoi`, `Exit`). `TimerIrq` may
happen wherever the interrupt flag is set, the line passes and no tick is in
service; `KeyIrq` is the keyboard's stub, which switches nothing.
`new_thread` runs with interrupts enabled and is a step per access that a tick can
separate: `NewThread` the test of its guard, `AllocStack`, the read of
`used_threads` (`LoadIndex`) and the three fields (`FillCr3`, `FillEsp0`,
`FillEsp`; the compiler reads the index once, as the stores cannot change it),
`EnterStack`, `PushStart` and `LeaveStack` for the stretch on the new stack
(`thread.c:69-80`), and the load and the store of `used_threads++` (`LoadCount`,
`Publish`). The five words it pushes are one frame. `pc`, `made`, `dir` and
`slot` are where each thread is in such a call and its locals; `Home(s)` is where
the code of thread s has its stack pointer, which for three instructions is in
the stack it is making. `me` is the thread whose registers the processor holds,
and a frame says through `who` which thread goes on through it, so that a stack
pointer saved in the wrong TCB shows.
`kill_thread` is two steps: `KillThread` is the test of `used_threads`, which is
made before the `cli`, and `KillOther` or `KillSelf` is the rest, which runs with
interrupts masked. `KillOther` returns to its caller with them still masked;
`KillSelf` is `kill_switch_tasks`, which goes on with the next thread.
Each kill either returns the stack to `free_block` or, when the table of ranges
is full, adds it to `dead_stacks`; `Remove` chooses, and `RoomForDead` is a named
bound: the array has `TCB_MAX_THREADS` places and the code does not check it.
`Overlap` says whether a thread may begin one of these calls while another is
inside one. In this kernel none can: `boot.S:113` is the only call of
`new_thread`, and nothing but `kill_switch_tasks` calls `kill_thread`. The runs
set it to FALSE; section 7 says what happens with TRUE.

**Keyboard.** `KeyIrq` is one byte through `scan_to_key` and the push; the
thread's pop is two steps, `ReadTop` and `StoreTop`, as the compiler's load and
store of `keycode_stack_top` are; `Handle` is the body of the loop with the
translation: Num Lock, then Caps Lock, Shift and Ctrl one after the other
through `us_querty_shift` (`Shifted`). `UpdateLeds` is one try of
`keyboard_update_leds`, whose poll may take a byte the interrupt handler was to
have. `us_querty` is a constant, the part of the table for the keys a run has;
its codes are 1 to 122, the range of the table in the code. `meant` is a history,
the text of the keys as they were pressed: `Meant` says what a key means with the
modifiers and locks of that moment, in other terms than `keycode_handler` does.

**Heap.** Unit: 8 bytes. `hdr[h]` is the header at address h; sizes and addresses
wrap at `AddressSpace`. `kmalloc` (interrupts masked) is one action per outcome:
`TakeExact`, `TakeSplit`, `Grow`, `GrowFails`. `kfree` is `Free`, then a step
per merged block (`MergePrev`, `MergeNext`). `Leftover` is what memory holds where
the `next` field of a new region goes, which `Grow` does not set. `regions` is
history: where the regions that `alloc_block` returned begin.

**Tty.** `term` is the state of `tty.c` with the buffer as a function of cells.
`Put` is `terminal_putchar` (a wrap counts the character into the row it fills),
`Scrolled` is `terminal_scrollup`. `Call` starts a `terminal_write` or the echo
of a character, `PutChar` is one of its characters, `MoveCursor` its end;
`Backspace` is a whole call. Before `Initialize` characters are dropped.
A backspace at the start of a row that follows a full one leaves the column at
`VGA_WIDTH` (`tty.c:62`). What is printed there goes to the cells of the next
rows (`Stored`; below the last row it is out of sight), the test for the end of
the row never holds, and the column runs on until a newline; `line_length` is a
byte (`LENGTHS`) and wraps behind it. `overrun` is history: whether that has
happened. `MaxColumn` bounds the column at which a call starts, for TLC.
`Screen` has a list of lines instead: the refinement takes of each row the
cells that `line_length` counts and the screen shows (`End`), so a length that
is wrong is a line that is. It asks for a step of the page as long as the column
fits the byte (`Counted`); once a length has wrapped, the code has no record of
where that row ended.

**Printf, Mem, Libc.** `Printf` scans a format directive by directive (`Literal`,
`Text`, `Signed`, `Unsigned`, `Hex`, `Other`), fills the buffer a `Digit` at a
time and reverses it with the code's swaps; the variadic arguments are chosen
as they are taken. `Mem` is a byte per step, on a memory chosen by the caller.
`Libc` runs one call of either at a time; neither touches the other's state.

**Ps2.** `out` is the queue of bytes to be read, each with its sender, which only
the properties and the devices know; `config` is the controller's configuration
byte as a set of bits. Each action is one `recieve_byte` and what follows it:
`Flush` to `SecondConfig` are `PS2_init` up to the ports, then both ports take
the same path from `Test` to `Enabled` (`PortFails`, `NoDevice` and
`NotIdentified` are its early ends), and `EnableIrqs` is the end. `Arrives` lets
`recieve_byte` give up with bytes on their way when answers are late (`prompt`
is false), so that a later call reads them; `Reads` lets the interrupt handler,
which is installed by then, take bytes first while the firmware's configuration
still raises interrupts. The controller and its devices are external: they
answer as those of the emulator the repository runs under, where a device
that is sent a byte drops the answer that was not read.

## 3. Runs

| Run | Question | Result |
|---|---|---|
| `pmm` | Does every page stay in one place, through any order of calls and inside `coalesce`? Does the table implement `PageAllocator`? Does `coalesce` end? | holds |
| `vmm` | Is everything given back, once, when an allocation fails at any point? Are ranges tiled, merged and sorted? Does a full table of ranges do harm? Do callers see a `RangeAllocator`? | holds |
| `threads` | From boot on, are contexts, stacks, page directories and EOIs kept with yields, nested ticks, and ticks at each step of `new_thread` and before the `cli` of `kill_thread`? Does only what has a stub interrupt? Does every thread run again and again, and come out of what it calls? | holds |
| `threads_yield` | Does `switch_tasks` save into the right TCB when a thread yields? | violated |
| `threads_scratch` | Do EAX, ECX, EDX survive a tick? | violated |
| `heap` | Do list, memory and callers agree, are all cuts undone once everything is freed, do callers see a `RangeAllocator`? | holds |
| `heap_tail` | Do blocks tile the heap for every request size? | violated |
| `keyboard` | Does a patient typist get the right characters, modifiers and locks, and does the queue drain? | holds |
| `keyboard_burst` | Are the modifiers right when interrupts come at any time? | violated |
| `ps2` | Is every keyboard found and enabled, is nothing else taken for one, does the kernel stop only without ports, and does the initialisation end? | holds |
| `tty` | Does what shows of the screen implement a page edited at its end, also when characters are printed past the end of a row? Is the rest blank until then, and the cursor where the next character goes? | holds |
| `libc` | Does `printf` print and count what its format says, and do the memory functions do what they are defined to, for every overlap? | holds |

Bounds, and why they are enough:

* `MCPmm`: pages of two bytes, five maps with aligned and unaligned entries,
  reserved holes, an entry that wraps, an entry that is too small, up to four
  blocks. A merge involves two blocks and a shift over a third; four blocks
  give every position of `block`, its partner and `coalesce_ptr` relative to
  each other. The theorems remove the bounds for everything but `CoalesceEnds`.
* `MCVmm`: a kernel space of five pages over two page tables, a user space of
  one page, two slots per table and six frames. Five pages are the fewest for
  three separate free ranges, so that the two slots overflow; six frames let
  that happen and are fewer than pages and page tables together, so an
  allocation fails at each of its three places (the page, the page table, the
  range). Frames are symmetric: nothing in `Vmm` or its properties orders them.
* `MCThreads`: three threads (the fewest in which the next thread is not also
  the previous one, and one below and one above the killed TCB can remain),
  stacks two frames deep (a tick on top of a yield), the boot thread in one page
  directory and those it creates in another (`Given`), and two masks the
  firmware may leave. A depth of two is also what a tick needs
  that finds `new_thread` on the stack it is making, above the frame it has
  pushed there. Ticks inside the switch of a yield are the subject of
  `threads_yield` and excluded (`TicksInYield`), and calls that overlap do not
  occur (`Overlap`).
* `MCKeyboard`: four key events (press and release of two keys, with a
  modifier or a lock around a character) over Shift, an extended Ctrl, the
  three locks, Pause and three characters, one of each kind the translation
  tells apart: a letter, an extended sign, a key of the keypad.
  `MCKeyboardBurst` needs two events.
* `MCTty`: three rows of two columns, two characters, writes of up to two.
  Three rows are the fewest for a length to move through the middle of the
  array; a write of two can wrap and scroll. Calls start at columns up to
  `MaxColumn` = 4 and lengths wrap at 4 (`LENGTHS`): text runs past the edge of a
  row by up to four characters, over the two rows below it, below the last row,
  and past what the byte can count.
* `MCLibc`: integers of 8 bits with buffers sized for them (4, 3 and 2
  characters, as 11, 10 and 8 are for 32 bits), arguments at both limits of the
  type and of a digit, a string of 126 characters that fills the count, formats
  of up to four characters (two directives); for the memory functions four
  bytes of three values and every range, so that two ranges may overlap by one
  or two bytes either way.
* `MCHeap`: three pages, one of which is apart from the others; requests of no
  bytes, of two units and of five units: exact fits, splits, growth by one
  page next to a block and away from one, and no room at all. `Sizes` avoids
  those `heap_tail` uses.
* `MCPs2`: all 30 pairs of what may be at the two ports (a keyboard, a mouse, a
  device that fails its self test, nothing, a port that fails its test, no
  second port), two configurations the firmware may leave, and a key it may
  leave unread. Nothing else is bounded: ids keep their 16 bits.

## 4. Fairness

* `Pmm!FairSpec`: `WF(Coalescing)`. `coalesce` is straight code that waits for
  nothing; once called, its next step is always taken.
* `Threads!FairSpec`: `WF(Switching)`, the processor executes; `WF(TimerIrq)`,
  the PIT ticks periodically (`boot.S` programs it) and a tick pends until the
  flag allows it; `WF(Boots)` and `WF(ThreadInit)`, the
  same for the boot; `SF(Creating \/ Killing)`: between two
  ticks, 10 ms apart, a thread executes some instructions, so a thread that
  is preempted between two of its steps again and again still takes them.
  `EveryThreadRuns` has two escapes. A thread that calls `kill_thread` on
  another goes on with interrupts masked (`thread.c:94`), and may never be
  preempted again: `<>[]~ifl`. And a tick may land, time after time, in the
  few instructions that end a switch, before the frame of that switch is left:
  `[]<>Crowded`. On the machine each such tick takes another frame of the stack;
  in the model `MaxDepth` refuses the frame and the tick waits, so that a tick
  which always comes there keeps the thread from its own code for ever. The
  escape is an artefact of this bound, and stands for the assumption that ticks
  10 ms apart do not keep landing in the same few instructions.
* `Keyboard!FairSpec`: `WF(KeyIrq)`, the controller delivers what it holds;
  weak fairness of the thread's steps, which `EveryThreadRuns` justifies.
  `EventuallySettled` speaks of a typist who stops, after `MaxKeys` events.
* `Ps2!FairSpec`: `WF(Next)`. `PS2_init` runs alone, and its longest wait is the
  100000 polls of `recieve_byte`.

Deadlock checking is off only for `keyboard`, `keyboard_burst` and `ps2`:
a typist may stop, and the initialisation ends.

## 5. Proofs

### Pmm

`Pmm_proofs` proves, for every page size, address space, first page and set of
memory maps:

| Theorem | Says |
|---|---|
| `TypeCorrect` | `[]TypeOK`; inside `coalesce`, `block` is an entry of the table |
| `NeverOwnedTwice` | `[]NoDoubleOwnership` |
| `PagesConserved` | `[]Conservation` |
| `WholeRamPages` | `[]OnlyWholeRamPages` |
| `SlotsSuffice` | `[]SlotsFitPages` |
| `ImplementsPageAllocator` | `Spec => PageAllocatorSpec` |

Assumptions: `PmmAssumption` (the constants are positive, the maps are sequences
of entries) and `MapAssumption`: the low words of two available entries never
describe the same page. The second is a real condition on the machine: `pmm_init`
drops the high words, so a machine with RAM above 4 GiB can break it, and then
the theorems do not apply. A map with overlapping entries breaks it too.

The inductive invariant is `IInv == TypeOK /\ NoDoubleOwnership /\ Conservation`.
Neither half is inductive alone: a page that is freed is known to be outside the
table only because no page is both free and in use, and an entry of the map adds
fresh pages only because free and used pages are exactly those of the entries
scanned before. The argument follows the pages: `PushPages`, `TakePages`,
`ExtendPages` and `MergePages` say what each change of the table does to the set
of free pages (adds, removes one, adds one, nothing) and that blocks stay
disjoint; `ScanManaged` does the same for the pages managed so far. `StepIInv`
has one step per action. `MergePages` is where the index arithmetic of
`coalesce_loop` is: an entry disappears and those above it move down.

`WholeRamPages` follows from `Conservation` and `RegionInside`, the
arithmetic of rounding up a start, rounding down a length and a sum that wraps.
`SlotsSuffice` follows because disjoint blocks start at different pages: the map
from slots to first pages is an injection into a finite set.
The refinement maps the table to the set of pages it covers; `Merge`,
`CoalesceStart` and `NextBlock` are stutters.

### Printf, Mem, Libc

`Libc_proofs` proves, for every call, every overlap and every content of a
memory of any size with bytes of any width (`MemAssumption`), and for integers
of any width, formats and arguments of any length (`PrintfAssumption`, and
`BufferAssumption` below):

| Theorem | Says |
|---|---|
| `MemInductive` | the loop invariants below hold in every state |
| `MemTypes` | `[]MemTypeOK`: the counters stay within the memory, `strlen` does not run past the 0 of its string |
| `MemAsDefined` | `[]AsDefined` of `MemSpec`: when a call is done, memory and result are those of the definition |
| `AlwaysAsDefined` | the same of `Spec`, by `LibcRunsMem`: the library's steps are steps of `Mem` or leave its state alone |
| `PrintfInductive` | the invariant of `printf` below holds in every state |
| `AlwaysPrintsAsTold` | `[]PrintsAsTold`: the output and the count are those of the format, and `printf` gives up only for a count that has no `int` |

`AsDefined` speaks of finished calls only and says nothing of how they got there,
so the invariant `MemInv` has one part per loop: `UpInv` and `DownInv` (the bytes
copied so far are those of the memory as it was found, all others are
untouched), `SetInv`, `CompareInv` (equal so far, or the last pair differs) and
`CountInv` (no 0 so far, and one still ahead). The step that matters is that the
byte a copy reads next has not been overwritten: for the upward copy because
`dst < src`, or because `memcpy`'s callers may not overlap ranges (`Allowed`),
for the downward one because `dst >= src`.

`PrintsAsTold` compares what the loops of `printf` have done with recursive
functions, `Numeral` over the digits of a number and `Texts` over the characters
of a format. There is no induction over data here: that such functions exist,
and that numerals of larger numbers are not shorter, is proved by a least
counterexample (`Least`, from the well-founded ordering of finite sets), and
after that only the recursion equations are used (`NumeralIs`, `TextsAre`).

`PrintfInv` has a part for each place `printf` can be in. Between directives
(`ScanInv`) what is printed, followed by what the rest of the format stands for,
is the whole text. This has to hold for all arguments that may still come
(`Stands`, `Ahead`), since they are chosen as they are taken, and the text of
the finished call is that of all of them. Inside a conversion (`NumberInv`) the
same holds before the directive, and the buffer has its own invariant:
`DigitsInv` (the digits still to come, then those in the buffer from its end,
are the numeral), `ReverseInv` (the digits outside of `i` and `j` are in their
order, those between them are not, and `i + j` does not change). That a buffer
is never full when another digit is due follows from `DigitsInv`, as the numeral
of a part is shorter, and from `BufferAssumption`: the numerals of `INT_MAX + 1`
(with room for the sign) and of `UINT_MAX` fit the buffers. TLC evaluates it for
the bytes of the run; for the kernel's 32 bits it says that 2147483648 has at
most 10 digits, 4294967295 at most 10 and FFFFFFFF at most 8, in buffers of 11,
10 and 8 characters. `AheadOn` is the step of the proof for whatever is printed,
and `AheadBegins` says why the text is longer than `INT_MAX` when there is no
room.

### Vmm

`Vmm_proofs` proves, for any spaces, tables, numbers of slots and of frames:

| Theorem | Says |
|---|---|
| `VmmInvariant` | the invariant below holds in every state |
| `TypesKept` | `[]TypeOK` |
| `FramesKept` | `[]FramesOnce`: a frame is free, mapped once, a page table or in hand, at every point of a call |
| `SpaceKept` | `[]SpaceTiled`: every page of a space is in one entry of its table or in one range |
| `MappingsKept` | `[]MappedExactly` |
| `TablesSorted` | `[]SortedBySize` |
| `RoomFound` | `[]FitsWhenRoom`: pages that nobody holds are found |
| `TlbKept` | `[]TlbCoherent` |
| `Implements` | `Spec => RangeAllocatorSpec` |

Assumptions: `VmmAssumption` (the spaces do not overlap, there is one, tables
have a slot) and the hypothesis `OneCaller`: one thread allocates ranges. It is
how the kernel uses `vmm.c` (its `kernel_main` thread makes every call), the
run `vmm` is an instance of it, and section 7 says what goes wrong without it.

These properties are not inductive. Most speak of the states between calls, while
`alloc_block` first cuts an entry short and then maps one page after another,
and a free merges and moves an entry before it unmaps; so `VmmInv` says what
holds at each of these points. `CallInv` ties the locals of the C functions to the table: `free_block`
still points to the entry that was cut, whose end is where the new range
starts, and if nothing is left of it, it is the last one. `TablesInv` says of each
table that its entries tile what is not held (`Tiling`), that it is sorted but
for the entry `check_upper` is about to move (`Sorted`), that free ranges which
touch are merged but for that one (`Apart`) and that only the entry that was cut
may be empty (`Filled`). `HeldInv`, `MapInv`, `TlbInv` and `FrameInv` say which
pages are mapped, stale and on which frame when a call is half done.

The lemmas are about tables: what cutting, inserting, removing, moving an entry
to its place and merging it with a neighbour do to the four parts of
`GoodTable`, for a table of any length. `check_upper` takes a turn for each
entry it merges; `SettleMerge` keeps the invariant because a merged entry may
touch others but no two others may touch. `RoomFound` needs an argument of its
own (`RoomFits`): the entry that has the first of the free pages has them all,
because the one after it would touch it and would have been merged.

### Heap

`Heap_proofs` proves, for pages of any size, any pages left to the heap and any
set of requests, under the two hypotheses below:

| Theorem | Says |
|---|---|
| `HeapInvariant` | the invariant below holds in every state |
| `TypesKept` | `[]TypeOK` |
| `ListKept` | `[]ListLinked`: the list is linked both ways and its used blocks are those callers hold |
| `TilesKept` | `[]BlocksTile`: blocks and headers tile the heap's pages |
| `Merged` | `[]MergedWhenFree`: when everything is freed no cut of `kmalloc` is left, and no block begins where the one before it in the list ends |
| `Implements` | `Spec => RangeAllocatorSpec`, in bytes |

Assumptions: `HeapAssumption`, and two hypotheses. `CleanPages`: the pages the heap
grows into hold NULL where the `next` field of their header goes (`Leftover`).
kmalloc never sets that field (`heap.c:124-127`) and `alloc_block` does not clear
frames; RAM that was never used is zero in the emulator, but `test_vmm` writes
to frames and gives them back. With another
`Leftover` in `MCHeap.cfg`, an address in the new pages for instance, TLC refutes
`ListLinked`. `RoomBehind`: in the pages that
`kmalloc` asks for there is room behind the request for the header of the block
that is left. It is about the sizes callers ask for, and the code does not test
it: `heap_tail` is the run with a size that breaks it, and there `BlocksTile`
fails (finding 4). The run `heap` satisfies both.

`MergedWhenFree` is what `test_heap` relies on when it compares its checksums, and
not more: `kfree` compares a block with its neighbours in the list, and a region
that lies below an earlier one in memory follows it in the list. Two such
regions touch and stay apart. As `alloc_block` hands out the highest pages first
this is how a heap usually grows, and `test_heap`, whose requests fit the first
region, does not see it. Without growth the list is `heap_init`'s one block again.

`List`, which walks `next`, is a recursive function: nothing about it follows from
its definition without induction. `HeapInv` therefore names the list: some
sequence of addresses `l` begins at `start`, each of its headers points to the
next and to the one before, the blocks share no unit and have them all, and no
other address has a header left (`Listed`). That `l` is what `List` returns is
then proved once (`ListIs`): the beginnings of `l`, one longer at each step, satisfy
the recursive definition, so there is a function that does, and by a least
counterexample any that does agrees with them. `Ordered` says that a block which begins no region
follows, in the list, the block that ends where it begins, so that once all are
free the merging loops leave no such block.

`Held` ties `l` to the requests callers hold. `MergedWhenFree` is about states in
which nothing is held, and says nothing about the others: two free blocks that
touch may well be apart for a while, because the loop of `kfree` stops at a
block that does not touch, and the list is not in the order of addresses. What
makes it true in the end is `Settled`: from two such blocks one gets, through free
blocks that touch, to a used one, and its `kfree` will merge them. `MergesBack`
and `MergesOn` are that statement inside the two loops of `kfree`, where the
block being freed takes the place of the used one. The lemmas on sequences say
what splitting a block (`l` gets one longer in its middle), growing the heap (at
its end) and swallowing the next block (one shorter) do to each of these parts.

### Interrupts and Threads

`Threads_proofs` begins with `idt_init`: its 67 writes in order, and what each
has set up whatever state the firmware left the controllers in (`SetupInv`); when
they are done the PIC maps line n to vector 32 + n, lets the timer and the
keyboard through and nothing else. Then it proves, for any number of stacks, TCBs,
nested ticks and threads that create, yield, kill and quit:

| Theorem | Says |
|---|---|
| `KernelInvariant` | the three invariants below hold in every state |
| `TypesKept` | `[]TypeOK` |
| `ContextsSafe` | `[]ContextsKept`: whatever is switched out can be resumed, by its own thread and where its code has its stack pointer |
| `OwnStackSaved` | `[]SavesOwnStack`: what is saved into a TCB is a stack pointer through which that thread goes on |
| `StacksSafe` | `[]StacksAccounted`: every stack has one place |
| `EoiSent` | `[]EoiNeverOwed` |
| `StubsReady` | `[]InterruptsHaveStubs` |

Hypotheses, of all but `StubsReady`: `OneAtATime`, calls of `new_thread` and
`kill_thread` do not overlap (`Overlap` is FALSE; any thread may make them, and
be preempted at every step of them); and `Undisturbed`, no tick lands inside the
switch of a thread that yields: either no thread yields, and then every switch
is a tick's own, or ticks come elsewhere. The run `threads` satisfies both.
`threads_yield` is an instance without the second, and there `SavesOwnStack`
fails (finding 2), so `OwnStackSaved` says when the comment at `boot.S:204` is
right. The first is what the kernel's one call of `new_thread` satisfies
(section 7).

`KernelInv` follows the switch an instruction at a time (`CpuInv`: at `load` the
stack is still that of the old thread, while `current` is the new one). Of
every other thread it says that where its code has its stack pointer there is
one frame for what the thread did there and above it only ticks that hit the end
of a switch, all of them its own (`Saved`, `Parked`): a thread that was
interrupted between `EnterStack` and `LeaveStack` has these frames in the stack it
is making, on or above the frame the new thread will start from. `CallsInv` says
how far a call has got, be its thread running or saved under ticks: which fields
of the TCB past the last one are filled, that the new stack is nobody else's,
and that the index `kill_thread` was given is still in use (`Call`). `StacksInv`
says where every stack is, `EoiInv` when the timer is in service. Beside it
`SetupInv` is about `idt_init` and `BootInv` says that nothing runs before it is
through; these two need no hypothesis. The parts depend on each other: that
`LoadEsp` finds a frame needs `Parked`, which survives a tick on a borrowed stack
because no thread in use has that stack (`Apart`), and the killing of a thread
because no two TCBs share one.

### Tty

`Tty_proofs` proves, for a screen of every width and height above one and writes of
every length, from every column, with no hypothesis beyond `TtyAssumption`:

| Theorem | Says |
|---|---|
| `TtyInvariant` | the invariant below holds in every state |
| `TypesKept` | `[]TypeOK` |
| `BlanksKept` | `[]RestBlank`: until a character is printed past the end of a row the rest of the screen is blank; always the cursor is where the next character goes |
| `Implements` | `Spec => ScreenSpec`: what shows of the rows is a page of lines edited at its end, while the column fits its byte |

Characters printed past the end of a full row are in all of these: what no longer
holds then (the column within the row, blanks past its end) is said of the
behaviours without one (`overrun`), and what still does of all. `TtyInv` has as
its parts that the length of the row that is written is its column, as a byte
(`Written`), which a backspace over the start of a row relies on, that rows below
it have no length (`BelowEmpty`), and, as long as there is no `overrun`, that rows
end on the screen (`Fits`) and are blank behind their end (`PastEndBlank`).
The refinement needs neither of the last two: a character printed past the end
of a row lands in rows below it, which are not part of the page yet, and a row
that has run past the edge shows `WIDTH` characters of which an erasure past the
edge takes none. The arithmetic is that of a buffer with `WIDTH` cells to a row
(`Address`, `Distinct`): `terminal_scrollup` moves each cell by `WIDTH`, which
moves each row by one and none into another.

### Keyboard

`Keyboard_proofs` proves, for any keys, any `us_querty` with codes from 1 to 122, a
stack of any size and any number of key events in any order:

| Theorem | Says |
|---|---|
| `KeyboardInvariant` | the invariant below holds in every state |
| `TypesKept` | `[]TypeOK` |
| `ModifiersKept` | `[]ModifiersAreThoseHeld`: no modifier or lock is stuck once all is handled |
| `TextKept` | `[]TypedAsPressed`: what is printed is what was meant |

Hypothesis: `Patient`, interrupts come only while the thread waits for a key and
the stack is empty. The code does not see to it: `keyboard_burst` is the instance
without it, and there `ModifiersAreThoseHeld` fails (finding 1). The run `keyboard`
satisfies it.

Both properties are about states in which everything has been handled, while keys
may be pressed long before their bytes are read. `KeyboardInv` therefore takes
decoder and thread as one automaton, whose state is the decoder's `extended`, the
modifiers, the locks and the text: there is a sequence of such states, one for each
byte still on the wire, each the one before with that byte read and the keycode it
completes handled, which begins where decoder and thread are (with the keycode in
hand, or on the stack, handled) and ends outside a prefix with `held`, `lit` and
`meant` (`Leads`). A sequence rather than a fold over the wire, because nothing can
be derived about a recursive definition here. A key event makes it longer at its
end: the bytes of a key, prefixes and the six bytes of Pause included, read from a
state outside a prefix, come out as that key's press or release (`EventLeads`). An
interrupt takes the first step of it (`LeadsFrom`). That the press prints what it
means is `UnicodeIs`: Caps Lock, Shift and Ctrl, applied one after the other to any
code, agree with `Meant`.

### PS/2 controller

`Ps2_proofs` proves, for any set of kinds of devices at either port, any
configuration and any unread byte the firmware may leave:

| Theorem | Says |
|---|---|
| `TypeCorrect` | `[]TypeOK` |
| `NeverPhantom` | `[]NoPhantomKeyboard`, with answers as late as they like |
| `KeyboardFound` | `[]KeyboardUsable`, when answers are prompt |
| `PanicsOnly` | `[]PanicsWithoutPorts`, when answers are prompt |

The only assumption is `Ps2Assumption`: port one exists, and the byte the firmware
leaves is not the 0xFF that `recieve_byte` returns when nothing comes.

Neither invariant speaks of the queue of unread bytes, on which everything depends.
With late answers `LateInv` says what can be in it at each stage (`UnreadInv`): a
byte at most before the ports are tried, and where an ACK can be from then on. After
a reset an ACK that the other port or the controller owes comes first or not at all,
so that no id follows it (`AtReset`); when a command has been sent to a port the only
ACK is the port's own, and what it dropped or had read before it is gone (`AtDisable`,
`AtIdentify`); so the bytes collected after the ACK to 0xF2 are the identity of that
device, and those of a device that is no keyboard are zeros (`AtIdentity`). It
matters that a device drops its unread answer when it is sent another byte, and that
the handler of interrupt 1 may take bytes first while the configuration lets it.

With prompt answers `PromptInv` says exactly what is unread: what is left of the
answer to the last command, and which id that makes (`DueInv`); that translation and
interrupts are off and the port that is talked to is on (`ConfigInv`); which ports
have been found to work (`PortsInv`); and that each port that is finished stays
set up while the other one is tried (`FoundInv`). At the end all ports are finished.

The lemmas are about the queue: what `recieve_byte` takes from it and leaves
(`ReadsIs`, `PromptRead`), what asking the controller appends (`AnsweredIs`), what
`send_byte` leaves of it (`SentIs`, `SentAlone`), and that a byte is the sum of its bits
(`ByteIs`). `Others` is a recursive function, so that there is one is proved first
(`OthersExist`), by a least counterexample.

### Only model-checked

* Liveness, out of the prover's reach: `CoalesceEnds`, `EveryThreadRuns`,
  `EventuallySettled` and `InitEnds`.
* The hypotheses of theorems are checked by TLC only in so far as the runs named
  above are instances of them.

## 6. Findings

Each is a violation run; `PROJECT.json` quotes the line it contradicts.

1. `keyboard_burst`: a key interrupt between the load and the store of
   `keycode_stack_top`, or two keycodes waiting, loses or reorders keys, and a
   modifier stays set (`keyboard.c:154`).
2. `threads_yield`: a tick between `boot.S:208` and `boot.S:210` during a yield
   saves the old stack into the next thread's TCB.
3. `threads_scratch`: the timer stub saves none of EAX, ECX, EDX (`boot.S:176`).
4. `heap_tail`: for some sizes just below a whole number of pages, the size of
   the remainder wraps (`heap.c:80`).

Why passing runs avoid them: `threads` has no ticks inside the switch of a yield
and does not ask whether EAX survives; `keyboard` has a patient typist; `heap`
leaves out the sizes of `heap_tail`. What those runs show holds
under these conditions and no others.

## 7. Not modelled

* Terminal: colours; two writers at once (`tty.c` has no lock; the echo of the
  keyboard thread can preempt a `printf`, and no document says whether it may);
  and what a character printed below the last row overwrites, in video memory
  that is not shown. No document says what should happen to text printed after
  a backspace at the start of a row that follows a full one (`tty.c:62`); the
  model does what the code does, and it is not listed as a finding.
* C library: `abort`. `printf("%x")` does not count its `0x` in what it returns;
  `PrintsAsTold` says so, since no document says otherwise.
* Keyboard: the entries of `us_querty_shift` that a US keyboard would not have
  (it maps `*` to `)`, for instance) are modelled as they are and demanded as
  they are; `keyboard_update_leds` sends to port two whatever is there. The
  bound of `keycode_stack` is not tested by the code; the model stops there.
* PS/2: an input buffer that stays full (a byte is then dropped without
  notice), keys typed during the initialisation. Two things the model shares
  with the code and no property demands otherwise: when port one fails its
  test, `write_config` sends nothing (`device.c:80`), so the interrupt of a
  keyboard at port two is never enabled (`KeyboardUsable` excludes this); and
  the interrupt of an absent second port is enabled, because `PS2_device_two`
  is then 0 and not 0xFFFF (`device.c:191`).
* Interrupts: exceptions (their stubs halt), and spurious interrupts of the
  second controller; `keyboard_handler`, `pic_get_irr` and `pic_get_isr` have no
  caller. A spurious interrupt 7 would come in at vector 39, which has no
  descriptor.
* Threads: calls of `new_thread` and `kill_thread` that overlap, which this kernel
  does not make (`boot.S:113` is the only call of `new_thread`). The module has
  the steps in which they go wrong: with `Overlap = TRUE` in `MCThreads.cfg` TLC
  refutes the invariants, `ContextsKept` among them. A creator has filled the TCB at `used_threads`, another
  thread kills itself and lowers `used_threads`, and `thread.c:86` brings a TCB
  into use that nobody filled; a kill between the load and the store of
  `used_threads++` is lost, and leaves the same stack in two TCBs.
* Threads: a kill of the boot thread, whose stack no `alloc_block` returned, and
  of an index that is not in use: no caller does either, and the code tests
  neither. Kills that find `dead_stacks` full (`thread.c:110`), which write behind
  the array: `RoomForDead` stops the model there. `kill_thread` of
  another thread returns with interrupts masked (`thread.c:94`), as the model
  does; no document says what its caller may expect.
* Heap: growth into pages that hold something else than 0 where the `next` of
  their header goes (`CleanPages`, section 5); `multiboot_find_tag`, which walks the tags of the boot loader; requests near 2^32, whose rounding wraps to 0, are excluded by
  `HeapAssumption`; only one thread calls the heap (`kfree` takes no lock).
* Vmm: a second caller. `vmm.c:220` says that an entry that is used up is always
  at the end of its table; with two callers the table may have been sorted in
  between, and `SortedBySize` fails with `Threads = {t1, t2}` in the
  configuration. The user/kernel flags of a page and the printing functions
  are left out.
* Boot, GDT and page directory: straight-line code that runs once before
  anything can interrupt it. `gdt.c:39` loads the contents of `stack_top`
  rather than its address into the TSS: the initial `tss` of `Threads` is `Junk`.
* `test_pmm`, `test_vmm`, `test_heap` and `kernel.c`: their calls are among those
  the runs make. `test_pmm` cannot fail: its checksum is a product over all
  slots, and 0 as soon as one is unused (`pmm.c:146`).

## 8. Plan

Done: every component but those of section 7 has its module; theorems about the
PMM, the VMM, the heap, interrupts and threads, the keyboard, the terminal, the PS/2
controller and the C library, with the four refinements of `PageAllocator`, `RangeAllocator` (twice)
and `Screen`. Next:

1. `Tty` under two writers, once the code says what it promises there.
2. `multiboot_find_tag` on well-formed and truncated tag lists.
3. A keyboard whose typist is patient only as long as a switch takes, composed
   with `Threads`.
