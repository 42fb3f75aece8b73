------------------------------ MODULE ObjStore ------------------------------
(***************************************************************************)
(* The object store of assignment4/objstore.c behind the FUSE handlers of  *)
(* objfs.c: inode table, inode and data bitmaps, direct and indirect       *)
(* blocks, the block cache of CacheOps, and what unmounting writes to      *)
(* disk.img and mounting reads back.  One call runs at a time here.        *)
(*                                                                         *)
(* Offsets and sizes are counted in blocks of 4 KiB, the unit in which     *)
(* FUSE calls write.  objstore_write drops the offset inside a block: one  *)
(* that starts in the middle of a block replaces it like one at its start. *)
(* Shorter writes are not in the model.                                    *)
(*                                                                         *)
(* Block 0 of the disk is the inode bitmap; the data bitmap and the inode  *)
(* blocks, which no pointer reaches, are kept in disk_bitmap and           *)
(* disk_inodes.                                                            *)
(***************************************************************************)
EXTENDS CacheOps, FiniteSets, FiniteSetsExt

CONSTANTS
  Keys, Values,
  NoKey,              \* key of an inode that was never used: all zero
  INODES,             \* number of inodes
  INODES_PER_BLOCK,
  NDIRECT,            \* direct pointers of an inode (4)
  NINDIRECT,          \* indirect pointers of an inode (4)
  PTRS,               \* pointers in an indirect block (1024)
  data_block_offset,  \* block number of data bit 0
  Skew,               \* what destroy_object is off by, see FreedBit
  DATA_BITS,          \* bound: data blocks the disk image is used for
  MAX_SIZE,           \* bound: sizes objects grow to
  CACHE,              \* TRUE for the objfs_cached build
  StartCtr,           \* values the uninitialised ctr of rename_object may have
  Overwrites,         \* users also write blocks they have written before
  Sparse,             \* users also leave holes, among the direct blocks
  PastLimit,          \* users also write past the last indirect range
  RenameOnto,         \* users also rename onto an existing key
  NoObject            \* for KVStore

Inodes  == 0 .. INODES - 1
LIMIT   == NDIRECT + NINDIRECT * PTRS   \* blocks of the largest object
BlockNo == 0 .. LIMIT                   \* the last one is past the limit
BlockOf(s) == s \div INODES_PER_BLOCK

ASSUME ObjStoreAssumptions ==
  /\ INODES \in Nat /\ INODES_PER_BLOCK \in Nat \ {0}
  /\ NDIRECT \in Nat \ {0} /\ NINDIRECT \in Nat /\ PTRS \in Nat \ {0}
  /\ data_block_offset \in Nat \ {0}
  /\ Skew \in Nat /\ DATA_BITS \in Nat
  /\ StartCtr \subseteq Nat

VARIABLES
  mounted,
  a,              \* the inode table in memory
  inode_bitmap,   \* set of inodes whose bit is set
  data_bitmap,    \* set of data bits that are set
  dirty_array,    \* set of inode blocks to write at unmount
  c,              \* cache and data region of the disk, with block 0
  disk_inodes, disk_bitmap,
  damaged,        \* history: destroy_object hit a block of another object
  call            \* the call that completed last, with its result

memory == <<a, inode_bitmap, data_bitmap, dirty_array>>
kept   == <<disk_inodes, disk_bitmap, damaged>>   \* what most calls leave alone
vars == <<mounted, memory, c, kept, call>>

\* Block contents.
Data(v)     == [kind |-> "data", v |-> v]
Table(p)    == [kind |-> "table", p |-> p]
Bitmap(set) == [kind |-> "bitmap", set |-> set]
Zeros       == [kind |-> "zeros"]

ASSUME BlockAssumptions ==
  /\ Blocks = {0} \cup {data_block_offset + bit : bit \in 0 .. DATA_BITS - 1}
  /\ Contents = {Zeros} \cup {Data(v) : v \in Values}
                  \cup {Bitmap(set) : set \in SUBSET Inodes}
                  \cup {Table(p) : p \in [0 .. PTRS - 1 -> Blocks]}

\* Block 0 of the disk read as the inode bitmap.
SavedBitmap ==
  IF read_block(c, 0).kind = "bitmap" THEN read_block(c, 0).set ELSE {}

NoPtrs == [j \in 0 .. PTRS - 1 |-> 0]

\* A block read as an indirect block.  Only tables and blocks that were never
\* written are, unless a block has two owners.
AsTable(x) == IF x.kind = "table" THEN x.p ELSE NoPtrs

FreeInode ==
  [id |-> 0, size |-> 0, key |-> NoKey,
   direct |-> [i \in 0 .. NDIRECT - 1 |-> 0],
   indirect |-> [i \in 0 .. NINDIRECT - 1 |-> 0]]

\* The state after the first mount of a disk image made with dd if=/dev/zero.
Init ==
  /\ mounted = TRUE
  /\ a = [s \in Inodes |-> FreeInode]
  /\ inode_bitmap = {}
  /\ data_bitmap = {}
  /\ dirty_array = {}
  /\ c = [disk |-> [b \in Blocks |-> IF b = 0 THEN Bitmap({}) ELSE Zeros],
          ptr |-> [q \in Slots |-> Zeros],
          index |-> [q \in Slots |-> -1], dirty |-> [q \in Slots |-> 0]]
  /\ disk_inodes = a
  /\ disk_bitmap = {}
  /\ damaged = FALSE
  /\ call = <<"mount">>

-----------------------------------------------------------------------------
\* The #ifdef CACHE of cache_blk_read and cache_blk_write.
blk_read(k, b)     == IF CACHE THEN cache_blk_read(k, b) ELSE k
blk_write(k, b, v) == IF CACHE THEN cache_blk_write(k, b, v)
                      ELSE write_block(k, b, v)

\* free_data_block: the first clear bit.
\* Mutation: the scan takes the first bit whether it is set or not.
free_data_block_Stale(bm) == Min(0 .. DATA_BITS - 1)

free_data_block(bm) == Min((0 .. DATA_BITS - 1) \ bm)

BlockAt(bit) == data_block_offset + bit

\* The inode table, its bitmap and the blocks: in memory while mounted, as the
\* next mount will read them otherwise.
table == IF mounted THEN a ELSE disk_inodes
live  == IF mounted THEN inode_bitmap ELSE SavedBitmap
block(b) == IF mounted THEN CurrentContents(c, b) ELSE read_block(c, b)

\* The inodes find_object_id, destroy_object and rename_object match.
Matches(key) == {s \in live : table[s].id # 0 /\ table[s].key = key}

\* The first inode in table order, the one the scans return.
find_object_id(key) == Min(Matches(key))

\* find_target.
Targets(id) == {s \in inode_bitmap : a[s].id = id}
find_target(id) == Min(Targets(id))

Group(n) == (n - NDIRECT) \div PTRS
Pos(n)   == (n - NDIRECT) % PTRS

\* The block that block n of an object is in: 0 if it has no pointer.
Lookup(s, n) ==
  IF n < NDIRECT THEN table[s].direct[n]
  ELSE IF Group(n) >= NINDIRECT \/ table[s].indirect[Group(n)] = 0 THEN 0
  ELSE AsTable(block(table[s].indirect[Group(n)]))[Pos(n)]

Written(s) == {n \in BlockNo : Lookup(s, n) # 0}

-----------------------------------------------------------------------------
\* Identifiers 0 and 1 are reserved.
\* Mutation: only 0 is.
new_id_One(s) == s + 1

new_id(s) == s + 2

\* objfs_create.  The kernel calls it only after a lookup found no such key.
create_object(key) ==
  /\ mounted /\ Matches(key) = {}
  /\ IF Inodes \subseteq inode_bitmap
     THEN /\ call' = <<"create", key, "full">>
          /\ UNCHANGED memory
     ELSE LET s == Min(Inodes \ inode_bitmap) IN
          /\ inode_bitmap' = inode_bitmap \cup {s}
          /\ dirty_array' = dirty_array \cup {BlockOf(s)}
          /\ a' = [a EXCEPT ![s].id = new_id(s), ![s].key = key]
          /\ call' = <<"create", key, "ok">>
          /\ UNCHANGED data_bitmap
  /\ UNCHANGED <<mounted, c, kept>>

(***************************************************************************)
(* destroy_object.  data_block_offset is the macro 22528+287 without       *)
(* parentheses, so x - data_block_offset is x - 22528 + 287: the bit that  *)
(* is toggled is 2 * 287 = Skew above the block's own bit.  A toggle for   *)
(* an indirect pointer that is 0 falls outside the bitmap.  The indirect   *)
(* block is read from the disk, past the cache.                            *)
(***************************************************************************)
FreedBit(b) == b - data_block_offset + Skew

TableOnDisk(s, i) ==
  LET b == a[s].indirect[i]
  IN  IF b = 0 THEN NoPtrs ELSE AsTable(read_block(c, b))

\* Every pointer of the object that is not 0, by its place.
Pointers(s) ==
  {<<"direct", i, 0, a[s].direct[i]>> : i \in 0 .. NDIRECT - 1} \cup
  {<<"indirect", i, 0, a[s].indirect[i]>> : i \in 0 .. NINDIRECT - 1} \cup
  {<<"entry", i, j, TableOnDisk(s, i)[j]>> :
      i \in 0 .. NINDIRECT - 1, j \in 0 .. PTRS - 1}

\* Each bit is toggled once per pointer.  Bits from DATA_BITS up are never looked
\* at and left out.
Toggled(ptrs) ==
  {bit \in 0 .. DATA_BITS - 1 :
     Cardinality({p \in ptrs : FreedBit(p[4]) = bit}) % 2 = 1}

InvalidateAll(k, bs) ==
  LET hit(q) == \E b \in bs : Slot(b) = q /\ k.index[q] = Tag(b)
  IN  [k EXCEPT !.index = [q \in Slots |-> IF hit(q) THEN -1 ELSE @[q]],
                !.dirty = [q \in Slots |-> IF hit(q) THEN 0 ELSE @[q]]]

\* The blocks an inode reaches.
Reached(s) ==
  ({Lookup(s, n) : n \in BlockNo} \cup
   {table[s].indirect[i] : i \in 0 .. NINDIRECT - 1}) \ {0}

\* Destroying s toggles the bit of a block that another inode reaches, or drops
\* the slot such a block is cached in.
Hits(s, gone, bits) ==
  \E r \in Inodes \ {s} : \E b \in Reached(r) :
    b \in gone \/ b - data_block_offset \in bits

\* Mutation: the inode block is not marked dirty.
DirtyAfterDestroy_Not(s) == dirty_array

DirtyAfterDestroy(s) == dirty_array \cup {BlockOf(s)}

destroy_object(key) ==
  /\ mounted /\ Matches(key) # {}
  /\ LET s    == find_object_id(key)
         ptrs == {p \in Pointers(s) : p[4] # 0}
         \* for the four indirect pointers the cache is also cleared if 0
         gone == {p[4] : p \in ptrs} \cup
                 {a[s].indirect[i] : i \in 0 .. NINDIRECT - 1}
         bits == Toggled(ptrs)
     IN  /\ inode_bitmap' = inode_bitmap \ {s}
         /\ dirty_array' = DirtyAfterDestroy(s)
         /\ a' = [a EXCEPT ![s] = [FreeInode EXCEPT !.key = a[s].key]]
         /\ data_bitmap' = (data_bitmap \ bits) \cup (bits \ data_bitmap)
         /\ c' = InvalidateAll(c, gone)
         /\ damaged' = (damaged \/ Hits(s, gone, bits))
  /\ call' = <<"delete", key>>
  /\ UNCHANGED <<mounted, disk_inodes, disk_bitmap>>

(***************************************************************************)
(* rename_object.  ctr is not initialised: after the first inode the scan  *)
(* looks at inode ctr + i for bit i.  There is no test for an existing     *)
(* object called newname.                                                  *)
(***************************************************************************)
rename_object(key, newname, ctr) ==
  LET obj(i)  == IF i = 0 THEN 0 ELSE ctr + i
      matches == {i \in inode_bitmap : obj(i) \in Inodes /\ a[obj(i)].key = key}
      i       == Min(matches)
  IN
  /\ mounted /\ Matches(key) # {} /\ key # newname
  /\ RenameOnto \/ Matches(newname) = {}
  /\ IF matches = {}
     THEN /\ UNCHANGED memory
          /\ call' = <<"rename", key, newname, "undefined">>
     ELSE /\ a' = [a EXCEPT ![obj(i)].key = newname]
          /\ dirty_array' = dirty_array \cup {(ctr + i) \div INODES_PER_BLOCK}
          /\ call' = <<"rename", key, newname,
                       IF Cardinality(matches) > 1 THEN "einval" ELSE "ok">>
          /\ UNCHANGED <<inode_bitmap, data_bitmap>>
  /\ UNCHANGED <<mounted, c, kept>>

\* objfs_open: the handle, fi->fh, that reads and writes come with.
objfs_open(key) == a[find_object_id(key)].id

(***************************************************************************)
(* objstore_write of one block.  A new block is always taken; the size     *)
(* grows by what is written; the first block of each indirect range makes  *)
(* a new indirect block.                                                   *)
(***************************************************************************)
\* Which block numbers users write next.  They leave no hole at the first block of
\* an indirect range: a later block of that range would then be written through an
\* indirect pointer that is 0, and its table would go to block 0.
Writable(s, n) ==
  \/ n = Cardinality(Written(s)) /\ n < LIMIT
  \/ PastLimit /\ n = LIMIT
  \/ Overwrites /\ n \in Written(s)
  \/ Sparse /\ n < NDIRECT

WriteDirect(s, n, v, d1) ==
  /\ n < NDIRECT
  /\ c' = blk_write(c, BlockAt(d1), Data(v))
  /\ a' = [a EXCEPT ![s].size = @ + 1, ![s].direct[n] = BlockAt(d1)]
  /\ data_bitmap' = data_bitmap \cup {d1}


WriteFirst(s, n, v, d1) ==
  LET d2 == free_data_block(data_bitmap \cup {d1})
      t  == Table([NoPtrs EXCEPT ![0] = BlockAt(d2)])
  IN
  /\ n >= NDIRECT /\ Group(n) < NINDIRECT /\ Pos(n) = 0
  /\ c' = blk_write(blk_write(c, BlockAt(d1), t), BlockAt(d2), Data(v))
  /\ a' = [a EXCEPT ![s].size = @ + 1, ![s].indirect[Group(n)] = BlockAt(d1)]
  /\ data_bitmap' = data_bitmap \cup {d1, d2}

WriteEntry(s, n, v, d1) ==
  LET b  == a[s].indirect[Group(n)]
      k1 == blk_read(c, b)
      t  == [AsTable(CurrentContents(k1, b)) EXCEPT ![Pos(n)] = BlockAt(d1)]
  IN
  /\ n >= NDIRECT /\ Group(n) < NINDIRECT /\ Pos(n) # 0
  /\ c' = blk_write(blk_write(k1, b, Table(t)), BlockAt(d1), Data(v))
  /\ a' = [a EXCEPT ![s].size = @ + 1]
  /\ data_bitmap' = data_bitmap \cup {d1}

\* Past the last indirect range the block is taken and the data dropped.
WriteTooFar(s, n, v, d1) ==
  /\ n >= NDIRECT /\ Group(n) >= NINDIRECT
  /\ a' = [a EXCEPT ![s].size = @ + 1]
  /\ data_bitmap' = data_bitmap \cup {d1}
  /\ UNCHANGED c

\* Blocks that writing block n takes: the disk never fills in this model.
Needed(n) == IF n >= NDIRECT /\ Pos(n) = 0 THEN 2 ELSE 1

\* Mutation: find_target is called without set_dirty.
DirtyAfterWrite_Not(s) == dirty_array

DirtyAfterWrite(s) == dirty_array \cup {BlockOf(s)}

objstore_write(key, n, v) ==
  /\ mounted /\ Matches(key) # {}
  /\ Cardinality((0 .. DATA_BITS - 1) \ data_bitmap) >= Needed(n)   \* bound
  /\ LET s  == find_target(objfs_open(key))
         d1 == free_data_block(data_bitmap)
     IN  /\ Writable(s, n)
         /\ a[s].size < MAX_SIZE                                      \* bound
         /\ dirty_array' = DirtyAfterWrite(s)
         /\ \/ WriteDirect(s, n, v, d1)
            \/ WriteFirst(s, n, v, d1)
            \/ WriteEntry(s, n, v, d1)
            \/ WriteTooFar(s, n, v, d1)
  /\ call' = <<"write", key, n, Data(v)>>
  /\ UNCHANGED <<mounted, inode_bitmap, kept>>

\* objstore_read of one block; a hole reads block 0.
objstore_read(key, n) ==
  /\ mounted /\ Matches(key) # {}
  /\ LET s  == find_target(objfs_open(key))
         b  == IF n < NDIRECT THEN 0 ELSE a[s].indirect[Group(n)]
         k1 == IF n < NDIRECT THEN c ELSE blk_read(c, b)
         p  == IF n < NDIRECT THEN a[s].direct[n]
               ELSE AsTable(CurrentContents(k1, b))[Pos(n)]
     IN  /\ n < a[s].size     \* the kernel reads no further than st_size
         /\ n \in Written(s) \/ (Sparse /\ n < NDIRECT)
         /\ c' = blk_read(k1, p)
         /\ call' = <<"read", key, n, CurrentContents(c', p)>>
  /\ UNCHANGED <<mounted, memory, kept>>

\* objfs_getattr: find_object_id, then fillup_size_details.
objfs_getattr(key) ==
  /\ mounted
  /\ call' = IF Matches(key) = {} THEN <<"enoent", key>>
             ELSE <<"stat", key, a[find_object_id(key)].size>>
  /\ UNCHANGED <<mounted, memory, c, kept>>

(***************************************************************************)
(* objstore_destroy writes the bitmaps, the dirty inode blocks and last    *)
(* the dirty slots of the cache; objstore_init reads everything back.      *)
(***************************************************************************)
\* Mutation: the dirty slots are not written.
FlushOrder_MetadataOnly(k) == write_block(k, 0, Bitmap(inode_bitmap))

FlushOrder(k) == flush(write_block(k, 0, Bitmap(inode_bitmap)))

objstore_destroy ==
  /\ mounted
  /\ mounted' = FALSE
  /\ c' = FlushOrder(c)
  /\ disk_bitmap' = data_bitmap
  /\ disk_inodes' = [s \in Inodes |-> IF BlockOf(s) \in dirty_array THEN a[s]
                                      ELSE disk_inodes[s]]
  /\ call' = <<"unmount">>
  /\ UNCHANGED <<memory, damaged>>

objstore_init ==
  /\ ~mounted
  /\ mounted' = TRUE
  /\ a' = disk_inodes
  /\ inode_bitmap' = SavedBitmap
  /\ data_bitmap' = disk_bitmap
  /\ dirty_array' = {}
  /\ c' = empty_cache(c)
  /\ call' = <<"mount">>
  /\ UNCHANGED kept

-----------------------------------------------------------------------------
\* The FUSE handlers of objfs.c.
objfs_create(key)   == create_object(key)
objfs_unlink(key)   == destroy_object(key)
objfs_read(key, n)  == objstore_read(key, n)
objfs_write(key, n) == \E v \in Values : objstore_write(key, n, v)
objfs_rename_key(oldkey, newkey) ==
  \E ctr \in StartCtr : rename_object(oldkey, newkey, ctr)
objfs_init    == objstore_init
objfs_destroy == objstore_destroy

Next ==
  \/ \E key \in Keys :
       \/ objfs_create(key) \/ objfs_unlink(key) \/ objfs_getattr(key)
       \/ \E newkey \in Keys : objfs_rename_key(key, newkey)
       \/ \E n \in BlockNo : objfs_read(key, n) \/ objfs_write(key, n)
  \/ objfs_init
  \/ objfs_destroy

Spec == Init /\ [][Next]_vars

-----------------------------------------------------------------------------
Inode ==
  [id : {0} \cup 2 .. INODES + 1, size : Nat, key : Keys \cup {NoKey},
   direct : [0 .. NDIRECT - 1 -> Blocks], indirect : [0 .. NINDIRECT - 1 -> Blocks]]

TypeOK ==
  /\ mounted \in BOOLEAN
  /\ a \in [Inodes -> Inode] /\ disk_inodes \in [Inodes -> Inode]
  /\ inode_bitmap \subseteq Inodes
  /\ data_bitmap \subseteq Nat /\ disk_bitmap \subseteq Nat
  /\ dirty_array \subseteq Nat
  /\ c \in Caches
  /\ damaged \in BOOLEAN

\* What a user sees under a key.
Object(s) ==
  [size |-> table[s].size, data |-> [n \in Written(s) |-> block(Lookup(s, n))]]

Visible ==
  [k \in Keys |-> LET m == Matches(k)
                  IN  IF m = {} THEN NoObject ELSE Object(Min(m))]

(***************************************************************************)
(* The store behaves as a persistent map from keys to objects, with its    *)
(* table, bitmaps, indirect blocks, cache and reuse of blocks, across      *)
(* unmount and mount, as long as no object was destroyed at the expense of *)
(* another and no two objects have one key.  rename_object tests neither   *)
(* for an existing newname nor, ctr being what it is, the inode it ought   *)
(* to.                                                                     *)
(***************************************************************************)
OneKeyEach == \A k \in Keys : Cardinality(Matches(k)) <= 1

KV == INSTANCE KVStore
        WITH kv <- Visible, sound <- ~damaged /\ OneKeyEach,
             Capacity <- INODES, Limit <- LIMIT,
             RenameMayMiss <- StartCtr # {0}

ImplementsKV == KV!KVSpec

\* Every inode that differs from its copy on disk is in a block that unmounting
\* writes: dirty_array is set by every call that changes an inode.
DirtyCovers ==
  mounted => \A s \in Inodes : a[s] # disk_inodes[s] => BlockOf(s) \in dirty_array

\* Every place of a live object that holds a pointer, with the pointer.
Places ==
  {<<s, "data", n, Lookup(s, n)>> : s \in live, n \in BlockNo} \cup
  {<<s, "table", i, table[s].indirect[i]>> : s \in live, i \in 0 .. NINDIRECT - 1}

\* No block is reachable from two places, and the bit of every block that is
\* reachable is set, so that free_data_block does not hand it out again.
BlocksOwnedOnce ==
  LET used == {p \in Places : p[4] # 0}
      bits == IF mounted THEN data_bitmap ELSE disk_bitmap
  IN  /\ \A p, q \in used : p[4] = q[4] => p = q
      /\ \A p \in used : p[4] - data_block_offset \in bits

\* Blocks are owned once until destroy_object, which is off by Skew bits and
\* reads indirect blocks past the cache, hits a block of another object:
\* allocation, reuse of released blocks, holes, overwrites, renames, evictions
\* and remounts never give one block to two objects by themselves.
OwnedUnlessDamaged == ~damaged => BlocksOwnedOnce

\* Unmounting and mounting change no object: what was written is read back
\* after a remount.
RemountKeepsObjects == [][mounted' # mounted => Visible' = Visible]_vars
=============================================================================
