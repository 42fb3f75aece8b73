----------------------------- MODULE MCObjStore -----------------------------
EXTENDS ObjStore, TLC

DataBlocks == data_block_offset .. data_block_offset + DATA_BITS - 1

MCBlocks == {0} \cup DataBlocks

\* Every block contents the model can produce.
MCContents ==
  {Zeros} \cup {Data(v) : v \in Values} \cup
  {Bitmap(set) : set \in SUBSET Inodes} \cup
  {Table(p) : p \in [0 .. PTRS - 1 -> MCBlocks]}

\* No call depends on the answer to an earlier one, and the properties only look
\* at the answer a step gives: states that differ in call alone need not be told
\* apart.
View == <<mounted, memory, c, kept>>

Symmetry == Permutations(Keys) \cup Permutations(Values)
=============================================================================
