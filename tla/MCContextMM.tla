---------------------------- MODULE MCContextMM -----------------------------
(***************************************************************************)
(* Four pages: 0 and 1 share all tables, 2 shares those of level 3 and     *)
(* above, 8 shares none.                                                   *)
(***************************************************************************)
EXTENDS ContextMM, TLC

ContextSymmetry == Permutations(Contexts)
=============================================================================
