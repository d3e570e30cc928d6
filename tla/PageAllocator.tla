---------------------------- MODULE PageAllocator ----------------------------
(***************************************************************************)
(* What the physical memory manager promises its callers, with no table,   *)
(* no order and no coalescing: a set of free pages, a set of pages handed  *)
(* out, and the result of the last allocation.  Pmm implements it.         *)
(***************************************************************************)

CONSTANTS Page,    \* the pages that may ever be managed
          NULL     \* the result of an allocation that fails: no page

VARIABLES free,    \* managed pages nobody holds
          held,    \* pages handed out and not given back
          booted,  \* the memory map has been read to its end
          ret      \* what the last allocation returned

vars == <<free, held, booted, ret>>

Init == free = {} /\ held = {} /\ booted = FALSE /\ ret = NULL

\* While the memory map is read, pages only join the free set.
Donate == /\ ~booted
          /\ free \subseteq free' /\ free' \subseteq Page
          /\ UNCHANGED <<held, booted, ret>>

Boot == ~booted /\ booted' = TRUE /\ UNCHANGED <<free, held, ret>>

\* An allocation moves one free page to its caller.
Alloc(p) == /\ booted /\ p \in free
            /\ free' = free \ {p} /\ held' = held \cup {p} /\ ret' = p
            /\ UNCHANGED booted

\* An allocation fails only when no page is free.
AllocFails == /\ booted /\ free = {}
              /\ ret' = NULL /\ UNCHANGED <<free, held, booted>>

\* A page that is given back is free again, and nobody holds it.
Free(p) == /\ booted /\ p \in held
           /\ free' = free \cup {p} /\ held' = held \ {p}
           /\ UNCHANGED <<booted, ret>>

Next == \/ Donate \/ Boot \/ AllocFails
        \/ \E p \in free : Alloc(p)
        \/ \E p \in held : Free(p)

Spec == Init /\ [][Next]_vars
==============================================================================
