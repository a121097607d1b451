---------------------------- MODULE MCMultipcEntry ----------------------------
(***************************************************************************)
(* The model-checking instance of MultipcEntry: its constants are model    *)
(* values and numbers, given in MultipcEntry.cfg.  No symmetry, which TLC  *)
(* cannot combine with liveness.                                           *)
(***************************************************************************)
EXTENDS MultipcEntry
=============================================================================
