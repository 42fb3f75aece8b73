---------------------------- MODULE ExampleStore ----------------------------
(***************************************************************************)
(* The sample store of assignment4/example: objstore.c behind the FUSE     *)
(* handlers of objfs.c.  A table of MAX_OBJS objects is kept in block 0;   *)
(* the object in slot s has the identifier s + 2 and one block, of that    *)
(* number.  Compiled with -DCACHE the blocks are kept in memory and dirty  *)
(* ones are written at unmount; the README tells users to add and remove   *)
(* the flag and rebuild, so each mount of a disk may be by either build.   *)
(*                                                                         *)
(* The module has the state and an action per handler; KVClients adds the  *)
(* programs that call them.  objstore.c says that it has no concurrency:   *)
(* one handler runs at a time, as under the mount option -s.               *)
(***************************************************************************)
EXTENDS Integers, Sequences, FiniteSets, FiniteSetsExt

CONSTANTS
  Keys, NoKey,    \* NoKey is the key of a slot that was never used
  MAX_OBJS,
  BLOCK_SIZE,     \* bytes of a block
  Bytes, Zero     \* what a byte may be, Zero in blocks never written

ASSUME ExampleAssumptions ==
  /\ MAX_OBJS \in Nat \ {0} /\ BLOCK_SIZE \in Nat \ {0}
  /\ NoKey \notin Keys
  /\ Zero \notin Bytes

Slots  == 0 .. MAX_OBJS - 1
Ids    == 2 .. MAX_OBJS + 1
Slot(id) == id - 2
Block  == [1 .. BLOCK_SIZE -> Bytes \cup {Zero}]
ZeroBlock == [i \in 1 .. BLOCK_SIZE |-> Zero]

\* struct object
Object ==
  [id : {0} \cup Ids, size : 0 .. BLOCK_SIZE, cache_index : {-1, 0} \cup Ids,
   dirty : {0, 1}, key : Keys \cup {NoKey}]

VARIABLES
  mounted,
  CACHE,     \* whether the program that has the disk mounted has the cache
  objs,      \* the table in memory
  cache,     \* objfs->cache, one block per identifier
  table,     \* block 0 of the disk
  disk       \* its other blocks

storevars == <<mounted, CACHE, objs, cache, table, disk>>

\* A disk image made with dd if=/dev/zero, mounted for the first time.
StoreInit ==
  /\ mounted = TRUE
  /\ CACHE \in BOOLEAN
  /\ objs = [s \in Slots |-> [id |-> 0, size |-> 0, cache_index |-> 0,
                              dirty |-> 0, key |-> NoKey]]
  /\ table = objs
  /\ cache = [id \in Ids |-> ZeroBlock]
  /\ disk = [id \in Ids |-> ZeroBlock]

StoreTypeOK ==
  /\ mounted \in BOOLEAN /\ CACHE \in BOOLEAN
  /\ objs \in [Slots -> Object] /\ table \in [Slots -> Object]
  /\ cache \in [Ids -> Block] /\ disk \in [Ids -> Block]
  /\ \A s \in Slots : objs[s].id \in {0, s + 2}

-----------------------------------------------------------------------------
\* The slots with an object of that key, in the table t.
Matches(t, key) == {s \in Slots : t[s].id # 0 /\ t[s].key = key}

find_object_id(key) ==
  IF Matches(objs, key) = {} THEN -1 ELSE objs[Min(Matches(objs, key))].id

\* memcpy of the value v to the beginning of block b.
Overlay(b, v) == [i \in 1 .. BLOCK_SIZE |-> IF i <= Len(v) THEN v[i] ELSE b[i]]

(***************************************************************************)
(* The two builds.  With the cache, a block that is not marked as cached   *)
(* is read first; without it, the rest of a block is written as zeros.     *)
(***************************************************************************)
InCache(s) == objs[s].cache_index >= 0

LoadedCache(id) ==
  IF InCache(Slot(id)) THEN cache ELSE [cache EXCEPT ![id] = disk[id]]

LoadedIndex(id) == IF InCache(Slot(id)) THEN objs[Slot(id)].cache_index ELSE id

find_read_cached(id) ==
  /\ IF CACHE
     THEN /\ cache' = LoadedCache(id)
          /\ objs' = [objs EXCEPT ![Slot(id)].cache_index = LoadedIndex(id)]
     ELSE UNCHANGED <<cache, objs>>
  /\ UNCHANGED disk

\* What a read of the object copies to the user.
ReadBlock(id) == IF CACHE THEN LoadedCache(id)[id] ELSE disk[id]

\* Mutation: the object is not marked dirty.
DirtyMark_Not(dirty) == dirty

DirtyMark(dirty) == 1

find_write_cached(id, v) ==
  IF CACHE
  THEN /\ cache' = [LoadedCache(id) EXCEPT ![id] = Overlay(@, v)]
       /\ objs' = [objs EXCEPT ![Slot(id)].cache_index = LoadedIndex(id),
                               ![Slot(id)].dirty = DirtyMark(@),
                               ![Slot(id)].size = Len(v)]
       /\ UNCHANGED disk
  ELSE /\ disk' = [disk EXCEPT ![id] = Overlay(ZeroBlock, v)]
       /\ objs' = [objs EXCEPT ![Slot(id)].size = Len(v)]
       /\ UNCHANGED cache

\* remove_object_cached and init_object_cached.
uncached(o) == IF CACHE THEN [o EXCEPT !.cache_index = -1, !.dirty = 0] ELSE o

-----------------------------------------------------------------------------
(***************************************************************************)
(* create_object.  The kernel calls it only when a lookup found no object  *)
(* with this key, so the search for a duplicate finds none.  The slot      *)
(* keeps cache_index, dirty and size as they were: init_object_cached is   *)
(* called with the pointer behind the table.                               *)
(***************************************************************************)
\* Mutation: the first slot is taken whether it is free or not.
FreeSlots_All == Slots

FreeSlots == {s \in Slots : objs[s].id = 0}

\* Identifiers 0 and 1 are reserved.
\* Mutation: only 0 is.
new_id_One(s) == s + 1

new_id(s) == s + 2

create_object(key) ==
  LET s == Min(FreeSlots) IN
  /\ FreeSlots # {}
  /\ objs' = [objs EXCEPT ![s].id = new_id(s), ![s].key = key]
  /\ UNCHANGED <<mounted, CACHE, cache, table, disk>>

\* Mutation: the size is kept for the next object of the slot.
Destroyed_KeepsSize(o) == [uncached(o) EXCEPT !.id = 0]

Destroyed(o) == [uncached(o) EXCEPT !.id = 0, !.size = 0]

destroy_object(key) ==
  /\ objs' = [objs EXCEPT ![Min(Matches(objs, key))] = Destroyed(@)]
  /\ UNCHANGED <<mounted, CACHE, cache, table, disk>>

\* objstore_write and objstore_read through the handle fh; a handle whose slot
\* has another identifier, or none, is refused.
HandleOK(fh) == fh \in Ids /\ objs[Slot(fh)].id = fh

objstore_write(fh, v) ==
  /\ Len(v) <= BLOCK_SIZE
  /\ find_write_cached(fh, v)
  /\ UNCHANGED <<mounted, CACHE, table>>

objstore_read(fh) ==
  /\ find_read_cached(fh)
  /\ UNCHANGED <<mounted, CACHE, table>>

\* fillup_size_details
SizeOf(id) == objs[Slot(id)].size

(***************************************************************************)
(* objstore_destroy writes the dirty blocks of the live objects and then   *)
(* the table; objstore_init reads the table and marks the live objects     *)
(* uncached.  The memory of the cache is new, hence zero, at each mount.   *)
(***************************************************************************)
ToSync == {s \in Slots : CACHE /\ objs[s].id # 0 /\ objs[s].dirty = 1}

\* Mutation: the table is written, the blocks are not.
Synced_TableOnly == disk

Synced == [id \in Ids |-> IF Slot(id) \in ToSync THEN cache[id] ELSE disk[id]]

objstore_destroy ==
  /\ mounted
  /\ mounted' = FALSE
  /\ disk' = Synced
  /\ table' = [s \in Slots |-> IF s \in ToSync THEN [objs[s] EXCEPT !.dirty = 0]
                               ELSE objs[s]]
  /\ objs' = table'
  /\ UNCHANGED <<CACHE, cache>>

objstore_init ==
  /\ ~mounted
  /\ mounted' = TRUE
  /\ CACHE' \in BOOLEAN
  /\ objs' = [s \in Slots |->
                IF table[s].id # 0 /\ CACHE'
                THEN [table[s] EXCEPT !.cache_index = -1, !.dirty = 0]
                ELSE table[s]]
  /\ cache' = [id \in Ids |-> ZeroBlock]
  /\ UNCHANGED <<table, disk>>

-----------------------------------------------------------------------------
\* What a user finds under a key: the bytes below the size, wherever the
\* current copy of the block is.
BlockNow(t, s) ==
  IF mounted /\ CACHE /\ t[s].cache_index >= 0 THEN cache[s + 2] ELSE disk[s + 2]

ValueOf(s) ==
  LET t == IF mounted THEN objs ELSE table
  IN  SubSeq(BlockNow(t, s), 1, t[s].size)

\* With the cache, an object that is not dirty has its value on the disk, so
\* that the unmount, which skips it, loses nothing.
CleanOnDisk ==
  mounted /\ CACHE =>
    \A s \in Slots : objs[s].id # 0 /\ objs[s].dirty = 0 =>
      ValueOf(s) = SubSeq(disk[s + 2], 1, objs[s].size)
=============================================================================
