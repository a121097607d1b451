---------------------------- MODULE MCMultipcAdmin ----------------------------
(***************************************************************************)
(* Model-checking instances of MultipcAdmin.                               *)
(***************************************************************************)
EXTENDS MultipcAdmin, TLC

\* The addresses, the users, and the names but TestName are interchangeable.
Symmetry == Permutations(Node) \cup Permutations(User) \cup Permutations(Name \ {TestName})
=============================================================================
