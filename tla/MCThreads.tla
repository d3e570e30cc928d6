------------------------------- MODULE MCThreads -------------------------------
(* Firmware leaves the interrupt controllers unmasked, or partly masked. *)
EXTENDS Threads

MCMasks == {{}, {0, 2}}
==============================================================================
