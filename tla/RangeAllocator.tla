---------------------------- MODULE RangeAllocator ----------------------------
(***************************************************************************)
(* What an allocator of address ranges promises whoever calls it: ranges   *)
(* that lie in its pool and never overlap while they are held.  An         *)
(* allocation may fail.  Vmm implements it in pages and Heap in bytes;     *)
(* Heap in turn takes its pages from an allocator of this kind.            *)
(***************************************************************************)
EXTENDS Integers

CONSTANT Pool   \* every unit that may be handed out

VARIABLE held   \* the ranges callers hold, as [addr, size]

Units(r) == r.addr .. (r.addr + r.size - 1)

Init == held = {}

\* A range nobody holds, at an address no other range starts at.
Alloc(r) ==
  /\ Units(r) \subseteq Pool
  /\ \A q \in held : q.addr # r.addr /\ Units(q) \cap Units(r) = {}
  /\ held' = held \cup {r}

Free(r) == held' = held \ {r}

Next == \/ \E r \in held' \ held : Alloc(r)
        \/ \E r \in held : Free(r)

Spec == Init /\ [][Next]_held
==============================================================================
