-------------------------- MODULE MCScreenerSession --------------------------
(***************************************************************************)
(* ScreenerSession for TLC.  Objects and workers are interchangeable, and  *)
(* every property of the runs treats them alike, so both are permuted.     *)
(***************************************************************************)
EXTENDS ScreenerSession, TLC

(* An object nothing refers to is gone: its fields do not tell states apart. *)
Reachable ==
  <<states, [o \in Objects \ FreeObjects |-> info[o]], passes, leaves, asked, workerVars>>

Interchangeable == Permutations(Objects) \cup Permutations(Workers)
=============================================================================
