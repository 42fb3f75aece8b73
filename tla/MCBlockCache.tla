---------------------------- MODULE MCBlockCache ----------------------------
EXTENDS BlockCache, TLC

ContentsSymmetry == Permutations(Contents)
=============================================================================
