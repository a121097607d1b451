---------------------------- MODULE MCUserThreads ----------------------------
(***************************************************************************)
(* Model-checking instances of UserThreads: process A has the threads r1   *)
(* and w1, process B the thread r2 alone.                                  *)
(***************************************************************************)
EXTENDS UserThreads, TLC

CONSTANTS A, B, r1, r2, w1

ThreadsOfAB == r1 :> A @@ w1 :> A @@ r2 :> B
=============================================================================
