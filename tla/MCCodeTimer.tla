----------------------------- MODULE MCCodeTimer -----------------------------
(***************************************************************************)
(* Model-checking instance of CodeTimer.                                   *)
(***************************************************************************)
EXTENDS CodeTimer
=============================================================================
