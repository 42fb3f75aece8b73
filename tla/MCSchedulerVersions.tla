------------------------ MODULE MCSchedulerVersions -------------------------
EXTENDS SchedulerVersions, TLC

PfnSymmetry == Permutations(Pfns)
=============================================================================
