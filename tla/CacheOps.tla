------------------------------ MODULE CacheOps ------------------------------
(***************************************************************************)
(* The direct-mapped write-back block cache of assignment4/objstore.c as   *)
(* operators on a record                                                   *)
(*                                                                         *)
(*   c.disk   block number -> contents of disk.img                         *)
(*   c.ptr    slot -> contents of the slot (cache_ptr)                     *)
(*   c.index  slot -> cache_index: block / cache_blks, -1 for none         *)
(*   c.dirty  slot -> cache_dirty                                          *)
(***************************************************************************)
EXTENDS Integers

CONSTANTS
  cache_blks,   \* number of slots
  Blocks,       \* the block numbers in use
  Contents      \* what a block can hold

ASSUME CacheAssumptions ==
  /\ cache_blks \in Nat \ {0}
  /\ Blocks \subseteq Nat

Slots   == 0 .. cache_blks - 1
Slot(b) == b % cache_blks
Tag(b)  == b \div cache_blks

\* The block whose contents slot s holds.
Held(c, s) == cache_blks * c.index[s] + s

Caches ==
  [disk : [Blocks -> Contents], ptr : [Slots -> Contents],
   index : [Slots -> Nat \cup {-1}], dirty : [Slots -> {0, 1}]]

read_block(c, b) == c.disk[b]

\* Writes outside disk.img fail, and write_block's result is ignored.
write_block(c, b, v) ==
  [c EXCEPT !.disk = [x \in Blocks |-> IF x = b THEN v ELSE c.disk[x]]]

\* Slot Slot(b) holds another block.
Conflict(c, b) == c.index[Slot(b)] \notin {-1, Tag(b)}

\* Before the slot of b is reused, a dirty old block is written to disk.
\* Mutation: the old block is simply dropped.
Evict_Drops(c, b) == c

Evict(c, b) ==
  IF Conflict(c, b) /\ c.dirty[Slot(b)] = 1
  THEN write_block(c, Held(c, Slot(b)), c.ptr[Slot(b)])
  ELSE c

\* Slot s gets contents v, tag t and dirty flag d.
Fill(c, s, v, t, d) ==
  [disk |-> c.disk, ptr |-> [c.ptr EXCEPT ![s] = v],
   index |-> [c.index EXCEPT ![s] = t], dirty |-> [c.dirty EXCEPT ![s] = d]]

\* cache_blk_read: the new cache; the caller gets the contents of Slot(b).
\* An eviction leaves cache_dirty as it was.
cache_blk_read(c, b) ==
  IF c.index[Slot(b)] = Tag(b) THEN c
  ELSE LET e == Evict(c, b)
       IN  Fill(e, Slot(b), read_block(e, b), Tag(b), e.dirty[Slot(b)])

\* Mutation: the slot is not marked dirty.
cache_blk_write_NotDirty(c, b, v) ==
  Fill(Evict(c, b), Slot(b), v, Tag(b), c.dirty[Slot(b)])

\* Mutation: the flag counts the writes, and tests for 1 miss it.
cache_blk_write_Counts(c, b, v) ==
  Fill(Evict(c, b), Slot(b), v, Tag(b), c.dirty[Slot(b)] + 1)

cache_blk_write(c, b, v) ==
  Fill(Evict(c, b), Slot(b), v, Tag(b), 1)

\* destroy_object forgets a block of the object without writing it back.
\* Mutation: the test that the slot holds this block is missing.
invalidate_Unchecked(c, b) == Fill(c, Slot(b), c.ptr[Slot(b)], -1, 0)

invalidate(c, b) ==
  IF c.index[Slot(b)] = Tag(b)
  THEN Fill(c, Slot(b), c.ptr[Slot(b)], -1, 0)
  ELSE c

\* The last loop of objstore_destroy writes every dirty slot to its block.
flush(c) ==
  [c EXCEPT !.disk = [b \in Blocks |->
     IF c.dirty[Slot(b)] = 1 /\ Held(c, Slot(b)) = b
     THEN c.ptr[Slot(b)] ELSE c.disk[b]]]

\* objstore_init: an empty cache over the disk (slot contents do not matter).
empty_cache(c) ==
  [disk |-> c.disk, ptr |-> c.ptr,
   index |-> [s \in Slots |-> -1], dirty |-> [s \in Slots |-> 0]]

-----------------------------------------------------------------------------
\* The current contents of block b: in its slot if it is cached, else on disk.
CurrentContents(c, b) ==
  IF c.index[Slot(b)] = Tag(b) THEN c.ptr[Slot(b)] ELSE c.disk[b]

\* A slot that is not dirty agrees with the disk, and empty slots are clean.
CacheOK(c) ==
  \A s \in Slots :
    IF c.index[s] = -1 THEN c.dirty[s] = 0
    ELSE /\ Held(c, s) \in Blocks
         /\ c.dirty[s] = 0 => c.ptr[s] = c.disk[Held(c, s)]
=============================================================================
