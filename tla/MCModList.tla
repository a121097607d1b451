------------------------------ MODULE MCModList ------------------------------
(***************************************************************************)
(* Model-checking instances of ModList.                                    *)
(***************************************************************************)
EXTENDS ModList, TLC

\* The processes and the addresses are interchangeable.
Symmetry == Permutations(Proc) \cup Permutations(Node)
=============================================================================
