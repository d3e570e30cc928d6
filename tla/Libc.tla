--------------------------------- MODULE Libc ---------------------------------
(***************************************************************************)
(* The C library under the kernel: one call at a time, of printf or of a   *)
(* memory function.                                                        *)
(***************************************************************************)
EXTENDS Printf, Mem

vars == <<printfVars, memVars>>

Init == PrintfInit /\ MemInit

Next ==
  \/ call.fn = "none" /\ PrintfNext /\ UNCHANGED memVars
  \/ pc = "idle" /\ MemNext /\ UNCHANGED printfVars

\* The library has no state between calls.
Spec == Init /\ [][Next]_vars
==============================================================================
