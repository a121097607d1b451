------------------------------ MODULE MCFifoProc ------------------------------
(***************************************************************************)
(* Model-checking instances of FifoProc.                                   *)
(***************************************************************************)
EXTENDS FifoProc, TLC

\* Processes of the same role are interchangeable.
Symmetry == Permutations(Producers) \cup Permutations(Consumers)
=============================================================================
