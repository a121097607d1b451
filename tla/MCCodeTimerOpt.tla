---------------------------- MODULE MCCodeTimerOpt ----------------------------
(***************************************************************************)
(* Model-checking instances of CodeTimerOpt.                               *)
(***************************************************************************)
EXTENDS CodeTimerOpt, TLC

Symmetry == Permutations(Procs)
=============================================================================
