----------------------------- MODULE MCScheduler -----------------------------
(***************************************************************************)
(* Scheduler for TLC: the swapper, init and one or two clones.             *)
(***************************************************************************)
EXTENDS Scheduler, TLC

PfnSymmetry == Permutations(Pfns)
=============================================================================
