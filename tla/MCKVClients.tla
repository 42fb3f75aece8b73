----------------------------- MODULE MCKVClients ----------------------------
EXTENDS KVClients, TLC

CONSTANTS x, y

\* A value of half a block and one of a whole block.
MCValues == {<<x>>, <<y, y>>}

MCSymmetry == Permutations(Keys) \cup Permutations(Clients)
=============================================================================
