-------------------------- MODULE KVClientsProofs --------------------------
(***************************************************************************)
(* Proofs about the example store and its clients, for every number of     *)
(* slots, size of a block, set of keys, values and clients.                *)
(***************************************************************************)
EXTENDS KVClients, FiniteSetTheorems, SequenceTheorems,
        WellFoundedInduction, TLAPS

\* The slot of an identifier, and back.
LEMMA SlotIds ==
  /\ \A id \in Ids : Slot(id) \in Slots /\ Slot(id) + 2 = id
  /\ \A s \in Slots : s + 2 \in Ids /\ Slot(s + 2) = s /\ s + 2 # 0
  /\ \A s \in Slots : s \in Nat
  /\ 0 \notin Ids
BY ExampleAssumptions DEF Slots, Ids, Slot

\* A search for the first slot that has some property ends in such a slot.
LEMMA FirstSlot ==
  ASSUME NEW S \in SUBSET Slots, S # {}
  PROVE  Min(S) \in S
<1>1. PICK Less : Less = {ss \in Nat \X Nat : ss[1] < ss[2]}
  OBVIOUS
<1>2. IsWellFoundedOn(Less, Nat)
  BY <1>1, NatLessThanWellFounded DEF OpToRel
<1>3. \A x, y \in Nat : y < x => <<y, x>> \in Less
  BY <1>1
<1>4. S \subseteq Nat
  BY SlotIds
<1>5. PICK x \in S : \A y \in S : ~(<<y, x>> \in Less)
  BY <1>2, <1>4, WFMin
<1>6. \A y \in S : x <= y
  <2>1. \A y \in S : y \in Nat /\ x \in Nat /\ ~(y < x)
    BY <1>3, <1>4, <1>5
  <2> QED
    BY <2>1
<1> QED
  BY <1>6 DEF Min

\* Of a single slot it is that slot.
LEMMA OnlySlot ==
  ASSUME NEW S \in SUBSET Slots, NEW s \in S, \A r \in S : r = s
  PROVE  S # {} /\ Min(S) = s
BY FirstSlot

\* A block's bytes below a size are a value of that size.
LEMMA BytesBelow ==
  ASSUME NEW b \in Block, NEW n \in 0 .. BLOCK_SIZE
  PROVE  /\ SubSeq(b, 1, n) \in Seq(Bytes \cup {Zero})
         /\ Len(SubSeq(b, 1, n)) = n
         /\ n = 0 => SubSeq(b, 1, n) = <<>>
<1>1. \A i \in 1 .. n : b[i] \in Bytes \cup {Zero}
  BY ExampleAssumptions DEF Block
<1>2. n \in Int /\ n >= 0
  BY ExampleAssumptions
<1>3. /\ SubSeq(b, 1, n) \in Seq(Bytes \cup {Zero})
      /\ Len(SubSeq(b, 1, n)) = IF 1 <= n THEN n - 1 + 1 ELSE 0
  BY <1>1, <1>2, SubSeqProperties
<1>4. n = 0 => SubSeq(b, 1, n) = <<>>
  BY <1>2, SubSeqEmpty
<1> QED
  BY <1>2, <1>3, <1>4

\* memcpy of a value that fits, read back with its length, is the value.
LEMMA OverlayReads ==
  ASSUME NEW b \in Block, NEW v \in Seq(Bytes), Len(v) <= BLOCK_SIZE
  PROVE  /\ Overlay(b, v) \in Block
         /\ Len(v) \in 0 .. BLOCK_SIZE
         /\ SubSeq(Overlay(b, v), 1, Len(v)) = v
<1>1. Len(v) \in Nat /\ Len(v) \in 0 .. BLOCK_SIZE
  BY ExampleAssumptions
<1>2. \A i \in 1 .. Len(v) : v[i] \in Bytes
  OBVIOUS
<1>3. Overlay(b, v) \in Block
  BY <1>1, <1>2, ExampleAssumptions DEF Overlay, Block
<1>4. \A i \in 1 .. Len(v) : Overlay(b, v)[i] = v[i]
  BY <1>1, ExampleAssumptions DEF Overlay
<1>5. PICK w : w = SubSeq(Overlay(b, v), 1, Len(v))
  OBVIOUS
<1>6. w \in Seq(Bytes \cup {Zero}) /\ Len(w) = Len(v)
  BY <1>1, <1>3, <1>5, BytesBelow
<1>7. \A i \in 1 .. Len(v) : w[i] = Overlay(b, v)[i]
  <2>1. \A i \in 1 .. Len(v) : Overlay(b, v)[i] \in Bytes
    BY <1>2, <1>4
  <2> QED
    BY <1>1, <1>5, <2>1, SubSeqProperties
<1>8. w = v
  BY <1>4, <1>6, <1>7, SeqEqual
<1> QED
  BY <1>1, <1>3, <1>5, <1>8

-----------------------------------------------------------------------------
(***************************************************************************)
(* The store.  Free slots are empty and clean; a dirty block is in the     *)
(* cache; no two objects have the same key.                                *)
(***************************************************************************)
Used == {s \in Slots : objs[s].id # 0}

\* The value of the object in slot s.
Contents(s) == SubSeq(BlockNow(objs, s), 1, objs[s].size)

TableInv ==
  /\ \A s \in Slots : objs[s].id = 0 => objs[s].size = 0 /\ objs[s].dirty = 0
  /\ \A s \in Slots : objs[s].dirty = 1 => CACHE /\ mounted /\ InCache(s)
  /\ ~mounted => objs = table
  /\ \A s \in Used : objs[s].key \in Keys
  /\ \A r, s \in Used : objs[r].key = objs[s].key => r = s

StoreInv == StoreTypeOK /\ TableInv /\ CleanOnDisk

\* What a step on another slot leaves alone.
Kept(s) ==
  /\ objs'[s].id = objs[s].id /\ objs'[s].key = objs[s].key
  /\ Contents(s)' = Contents(s)

(***************************************************************************)
(* The clients.  A client has a handle exactly while it is inside a call,  *)
(* of the object with its key; what it is about to write is the value of   *)
(* the put_key that created the object.                                    *)
(***************************************************************************)
ClientInv ==
  /\ \A c \in Clients :
       /\ pc[c] = "idle" <=> fh[c] = 0
       /\ pc[c] # "idle" => mounted /\ key[c] \in Keys
       /\ pc[c] = "put_write" => val[c] \in Values /\ val[c] = putval[key[c]]
  /\ \A s \in Used : Contents(s) \in {<<>>, putval[objs[s].key]}

Inv == TypeOK /\ StoreInv /\ ClientInv /\ HandlesValid

-----------------------------------------------------------------------------
\* Objects have their fields, and their values the length the table says.
LEMMA StoreFields ==
  ASSUME StoreInv, NEW s \in Slots
  PROVE  /\ objs[s] \in Object /\ table[s] \in Object
         /\ objs[s].id \in {0, s + 2}
         /\ objs[s].size \in 0 .. BLOCK_SIZE
         /\ objs[s].cache_index \in {-1, 0} \cup Ids
         /\ objs[s].dirty \in {0, 1}
         /\ objs[s].key \in Keys \cup {NoKey}
         /\ BlockNow(objs, s) \in Block /\ cache[s + 2] \in Block
         /\ disk[s + 2] \in Block
         /\ Contents(s) \in Seq(Bytes \cup {Zero})
         /\ Len(Contents(s)) = objs[s].size
         /\ objs[s].size = 0 => Contents(s) = <<>>
<1>1. objs[s] \in Object /\ table[s] \in Object /\ objs[s].id \in {0, s + 2}
  BY DEF StoreInv, StoreTypeOK
<1>2. /\ objs[s].size \in 0 .. BLOCK_SIZE
      /\ objs[s].cache_index \in {-1, 0} \cup Ids
      /\ objs[s].dirty \in {0, 1}
      /\ objs[s].key \in Keys \cup {NoKey}
  BY <1>1 DEF Object
<1>3. cache[s + 2] \in Block /\ disk[s + 2] \in Block
  BY SlotIds DEF StoreInv, StoreTypeOK
<1>4. BlockNow(objs, s) \in Block
  BY <1>3 DEF BlockNow
<1> QED
  BY <1>1, <1>2, <1>3, <1>4, BytesBelow DEF Contents

\* create_object takes a free slot and makes an empty object there, whatever
\* cache_index the slot has from an earlier object.
LEMMA CreateEffect ==
  ASSUME StoreInv, mounted, NEW k \in Keys, Matches(objs, k) = {},
         create_object(k), NEW s, s = Min(FreeSlots)
  PROVE  /\ StoreInv'
         /\ s \in Slots /\ s \notin Used /\ Used' = Used \cup {s}
         /\ objs'[s].id = s + 2 /\ objs'[s].key = k /\ Contents(s)' = <<>>
         /\ \A r \in Slots \ {s} : Kept(r)
<1>1. s \in Slots /\ objs[s].id = 0
  <2>1. FreeSlots # {} /\ FreeSlots \in SUBSET Slots
    BY DEF create_object, FreeSlots
  <2> QED
    BY <2>1, FirstSlot DEF FreeSlots
<1>2. /\ objs' = [objs EXCEPT ![s].id = s + 2, ![s].key = k]
      /\ mounted' = mounted /\ CACHE' = CACHE /\ cache' = cache
      /\ table' = table /\ disk' = disk
  BY DEF create_object, new_id
<1>3. objs \in [Slots -> Object] /\ objs[s] \in Object
  BY <1>1 DEF StoreInv, StoreTypeOK
<1>4. objs' \in [Slots -> Object] /\ \A r \in Slots \ {s} : objs'[r] = objs[r]
  BY <1>1, <1>2, <1>3, SlotIds DEF Object
<1>5. /\ objs'[s].id = s + 2 /\ objs'[s].key = k
      /\ objs'[s].size = 0 /\ objs'[s].dirty = 0
      /\ objs'[s].cache_index = objs[s].cache_index
  BY <1>1, <1>2, <1>3 DEF Object, StoreInv, TableInv
<1>6. Used' = Used \cup {s}
  BY <1>1, <1>4, <1>5, SlotIds DEF Used
<1>7. StoreTypeOK'
  BY <1>2, <1>4, <1>5 DEF StoreInv, StoreTypeOK
<1>8. \A r \in Slots : BlockNow(objs, r)' = BlockNow(objs, r)
  BY <1>2, <1>4, <1>5 DEF BlockNow
<1>9. Contents(s)' = <<>> /\ SubSeq(disk'[s + 2], 1, objs'[s].size) = <<>>
  BY <1>5, SubSeqEmpty DEF Contents
<1>10. \A r \in Slots \ {s} : Kept(r)
  BY <1>4, <1>8 DEF Contents, Kept
<1>11. TableInv'
  <2>1. \A r \in Used : objs[r].key # k
    BY DEF Used, Matches
  <2>2. \A r \in Used : r \in Slots /\ r # s /\ objs[r].key \in Keys
    BY <1>1 DEF Used, StoreInv, TableInv
  <2>3. \A r \in Used' : objs'[r].key \in Keys
    BY <1>4, <1>5, <1>6, <2>2
  <2>4. \A r, q \in Used' : objs'[r].key = objs'[q].key => r = q
    BY <1>4, <1>5, <1>6, <2>1, <2>2 DEF StoreInv, TableInv
  <2>5. \A r \in Slots : objs'[r].id = 0 => objs'[r].size = 0 /\ objs'[r].dirty = 0
    BY <1>4, <1>5 DEF StoreInv, TableInv
  <2>6. \A r \in Slots : objs'[r].dirty = 1 => CACHE' /\ mounted' /\ InCache(r)'
    BY <1>2, <1>4, <1>5 DEF StoreInv, TableInv, InCache
  <2> QED
    BY <1>2, <2>3, <2>4, <2>5, <2>6 DEF TableInv
<1>12. CleanOnDisk'
  <2>1. \A r \in Slots : ValueOf(r)' = Contents(r)' /\ ValueOf(r) = Contents(r)
    BY <1>2 DEF ValueOf, Contents
  <2>2. \A r \in Slots \ {s} : Contents(r)' = Contents(r)
    BY <1>10 DEF Kept
  <2> QED
    BY <1>2, <1>4, <1>9, <2>1, <2>2 DEF StoreInv, CleanOnDisk
<1> QED
  BY <1>1, <1>5, <1>6, <1>7, <1>9, <1>10, <1>11, <1>12 DEF StoreInv, Used

\* A step that changes one slot in use, and neither its identifier nor its key,
\* preserves what relates the slots.
LEMMA SlotStep ==
  ASSUME StoreInv, NEW s \in Used,
         \A r \in Slots \ {s} : objs'[r] = objs[r],
         objs'[s].id = objs[s].id, objs'[s].key = objs[s].key,
         mounted, mounted' = mounted, CACHE' = CACHE,
         objs'[s].dirty = 1 => CACHE /\ InCache(s)'
  PROVE  Used' = Used /\ TableInv'
<1>1. Used' = Used /\ s \in Slots
  BY DEF Used
<1>2. \A r \in Slots : objs'[r].id = objs[r].id /\ objs'[r].key = objs[r].key
  OBVIOUS
<1>3. /\ \A r \in Used' : objs'[r].key \in Keys
      /\ \A r, q \in Used' : objs'[r].key = objs'[q].key => r = q
  BY <1>1, <1>2 DEF Used, StoreInv, TableInv
<1>4. \A r \in Slots : objs'[r].id = 0 => objs'[r].size = 0 /\ objs'[r].dirty = 0
  BY DEF Used, StoreInv, TableInv
<1>5. \A r \in Slots : objs'[r].dirty = 1 => CACHE' /\ mounted' /\ InCache(r)'
  BY DEF StoreInv, TableInv, InCache
<1> QED
  BY <1>1, <1>3, <1>4, <1>5 DEF TableInv

\* After find_read_cached or find_write_cached the object counts as cached.
LEMMA IndexLoaded ==
  ASSUME StoreInv, NEW s \in Slots
  PROVE  /\ LoadedIndex(s + 2) \in Int /\ LoadedIndex(s + 2) >= 0
         /\ LoadedIndex(s + 2) \in {-1, 0} \cup Ids
<1>1. \A q \in Ids : q \in Int /\ q >= 0
  BY ExampleAssumptions DEF Ids
<1>2. s + 2 \in Ids /\ Slot(s + 2) = s
  BY SlotIds
<1>3. PICK x : x = objs[s].cache_index
  OBVIOUS
<1>4. x \in {-1, 0} \cup Ids
  BY <1>3, StoreFields
<1>5. LoadedIndex(s + 2) = IF x >= 0 THEN x ELSE s + 2
  BY <1>2, <1>3 DEF LoadedIndex, InCache
<1> QED
  BY <1>1, <1>2, <1>4, <1>5

\* objstore_write: the object has the value, whether it was in the cache or not
\* and whatever was in its block.
LEMMA WriteEffect ==
  ASSUME StoreInv, mounted, NEW s \in Used, NEW v \in Seq(Bytes),
         objstore_write(s + 2, v)
  PROVE  /\ StoreInv' /\ Used' = Used
         /\ objs'[s].id = objs[s].id /\ objs'[s].key = objs[s].key
         /\ Contents(s)' = v
         /\ \A r \in Slots \ {s} : Kept(r)
<1>1. s \in Slots /\ s + 2 \in Ids /\ Slot(s + 2) = s
  BY SlotIds DEF Used
<1>2. /\ mounted' = mounted /\ CACHE' = CACHE /\ table' = table
      /\ Len(v) <= BLOCK_SIZE /\ find_write_cached(s + 2, v)
  BY DEF objstore_write
<1>3. /\ objs \in [Slots -> Object] /\ objs[s] \in Object
      /\ cache \in [Ids -> Block] /\ disk \in [Ids -> Block]
      /\ table \in [Slots -> Object]
  BY <1>1 DEF StoreInv, StoreTypeOK
<1>4. Len(v) \in 0 .. BLOCK_SIZE
  BY <1>2, ExampleAssumptions
<1>5. CASE CACHE
  <2> DEFINE i == LoadedIndex(s + 2)
  <2>1. /\ objs' = [objs EXCEPT ![s].cache_index = i, ![s].dirty = 1,
                                ![s].size = Len(v)]
        /\ cache' = [LoadedCache(s + 2) EXCEPT ![s + 2] = Overlay(@, v)]
        /\ disk' = disk
    BY <1>1, <1>2, <1>5 DEF find_write_cached, DirtyMark
  <2>2. i \in Int /\ i >= 0 /\ i \in {-1, 0} \cup Ids
    BY <1>1, IndexLoaded
  <2> HIDE DEF i
  <2>3. /\ objs' \in [Slots -> Object]
        /\ \A r \in Slots \ {s} : objs'[r] = objs[r]
    BY <1>1, <1>3, <1>4, <2>1, <2>2 DEF Object
  <2>4. /\ objs'[s].id = objs[s].id /\ objs'[s].key = objs[s].key
        /\ objs'[s].dirty = 1 /\ objs'[s].size = Len(v)
        /\ objs'[s].cache_index = i
    BY <1>1, <1>3, <2>1 DEF Object
  <2>5. PICK b \in Block : b = LoadedCache(s + 2)[s + 2]
    BY <1>1, <1>3 DEF LoadedCache
  <2>6. /\ LoadedCache(s + 2) \in [Ids -> Block]
        /\ \A q \in Ids \ {s + 2} : LoadedCache(s + 2)[q] = cache[q]
    BY <1>1, <1>3 DEF LoadedCache
  <2>7. Overlay(b, v) \in Block /\ SubSeq(Overlay(b, v), 1, Len(v)) = v
    BY <1>2, OverlayReads
  <2>8. /\ cache' \in [Ids -> Block] /\ cache'[s + 2] = Overlay(b, v)
        /\ \A q \in Ids \ {s + 2} : cache'[q] = cache[q]
    BY <1>1, <2>1, <2>5, <2>6, <2>7
  <2>9. Contents(s)' = v
    BY <1>2, <1>5, <2>2, <2>4, <2>7, <2>8 DEF Contents, BlockNow
  <2>10. \A r \in Slots \ {s} : Kept(r)
    <3>1. \A r \in Slots \ {s} : r + 2 \in Ids \ {s + 2}
      BY <1>1, SlotIds
    <3> QED
      BY <1>2, <2>1, <2>3, <2>8, <3>1 DEF Kept, Contents, BlockNow
  <2>11. Used' = Used /\ TableInv'
    BY <1>2, <1>5, <2>2, <2>3, <2>4, SlotStep DEF InCache
  <2>12. StoreTypeOK'
    BY <1>2, <1>3, <2>1, <2>3, <2>4, <2>8 DEF StoreInv, StoreTypeOK
  <2>13. CleanOnDisk'
    <3>1. \A r \in Slots : ValueOf(r)' = Contents(r)' /\ ValueOf(r) = Contents(r)
      BY <1>2 DEF ValueOf, Contents
    <3>2. \A r \in Slots \ {s} : Contents(r)' = Contents(r)
      BY <2>10 DEF Kept
    <3> QED
      BY <1>2, <2>1, <2>3, <2>4, <3>1, <3>2 DEF StoreInv, CleanOnDisk
  <2> QED
    BY <2>4, <2>9, <2>10, <2>11, <2>12, <2>13 DEF StoreInv
<1>6. CASE ~CACHE
  <2>1. /\ objs' = [objs EXCEPT ![s].size = Len(v)]
        /\ disk' = [disk EXCEPT ![s + 2] = Overlay(ZeroBlock, v)]
        /\ cache' = cache
    BY <1>1, <1>2, <1>6 DEF find_write_cached
  <2>2. /\ objs' \in [Slots -> Object]
        /\ \A r \in Slots \ {s} : objs'[r] = objs[r]
    BY <1>1, <1>3, <1>4, <2>1 DEF Object
  <2>3. /\ objs'[s].id = objs[s].id /\ objs'[s].key = objs[s].key
        /\ objs'[s].dirty = objs[s].dirty /\ objs'[s].size = Len(v)
    BY <1>1, <1>3, <2>1 DEF Object
  <2>4. ZeroBlock \in Block
    BY DEF ZeroBlock, Block
  <2>5. /\ Overlay(ZeroBlock, v) \in Block
        /\ SubSeq(Overlay(ZeroBlock, v), 1, Len(v)) = v
    BY <1>2, <2>4, OverlayReads
  <2>6. /\ disk' \in [Ids -> Block] /\ disk'[s + 2] = Overlay(ZeroBlock, v)
        /\ \A q \in Ids \ {s + 2} : disk'[q] = disk[q]
    BY <1>1, <1>3, <2>1, <2>5
  <2>7. Contents(s)' = v
    BY <1>2, <1>6, <2>3, <2>5, <2>6 DEF Contents, BlockNow
  <2>8. \A r \in Slots \ {s} : Kept(r)
    <3>1. \A r \in Slots \ {s} : r + 2 \in Ids \ {s + 2}
      BY <1>1, SlotIds
    <3> QED
      BY <1>2, <1>6, <2>2, <2>6, <3>1 DEF Kept, Contents, BlockNow
  <2>9. Used' = Used /\ TableInv'
    <3>1. objs[s].dirty # 1
      BY <1>1, <1>6 DEF StoreInv, TableInv
    <3> QED
      BY <1>2, <2>2, <2>3, <3>1, SlotStep
  <2>10. StoreTypeOK'
    BY <1>2, <1>3, <2>1, <2>2, <2>3, <2>6 DEF StoreInv, StoreTypeOK
  <2>11. CleanOnDisk'
    BY <1>2, <1>6 DEF CleanOnDisk
  <2> QED
    BY <2>3, <2>7, <2>8, <2>9, <2>10, <2>11 DEF StoreInv
<1> QED
  BY <1>5, <1>6

\* objstore_read copies the object's value and changes no object, also when it
\* loads the block into the cache.
LEMMA ReadEffect ==
  ASSUME StoreInv, mounted, NEW s \in Used, objstore_read(s + 2)
  PROVE  /\ StoreInv' /\ Used' = Used
         /\ \A r \in Slots : Kept(r)
         /\ SubSeq(ReadBlock(s + 2), 1, SizeOf(s + 2)) = Contents(s)
<1>1. s \in Slots /\ s + 2 \in Ids /\ Slot(s + 2) = s
  BY SlotIds DEF Used
<1>2. /\ mounted' = mounted /\ CACHE' = CACHE /\ table' = table
      /\ find_read_cached(s + 2) /\ disk' = disk
  BY DEF objstore_read, find_read_cached
<1>3. /\ objs \in [Slots -> Object] /\ objs[s] \in Object
      /\ cache \in [Ids -> Block] /\ disk \in [Ids -> Block]
  BY <1>1 DEF StoreInv, StoreTypeOK
<1>4. ReadBlock(s + 2) = BlockNow(objs, s) /\ SizeOf(s + 2) = objs[s].size
  BY <1>1, <1>3 DEF ReadBlock, LoadedCache, InCache, BlockNow, SizeOf
<1>5. CASE CACHE
  <2> DEFINE i == LoadedIndex(s + 2)
  <2>1. /\ objs' = [objs EXCEPT ![s].cache_index = i]
        /\ cache' = LoadedCache(s + 2)
    BY <1>1, <1>2, <1>5 DEF find_read_cached
  <2>2. i \in Int /\ i >= 0 /\ i \in {-1, 0} \cup Ids
    BY <1>1, IndexLoaded
  <2>3. InCache(s) => i = objs[s].cache_index
    BY <1>1 DEF LoadedIndex
  <2> HIDE DEF i
  <2>4. /\ objs' \in [Slots -> Object]
        /\ \A r \in Slots \ {s} : objs'[r] = objs[r]
    BY <1>1, <1>3, <2>1, <2>2 DEF Object
  <2>5. /\ objs'[s].id = objs[s].id /\ objs'[s].key = objs[s].key
        /\ objs'[s].dirty = objs[s].dirty /\ objs'[s].size = objs[s].size
        /\ objs'[s].cache_index = i
    BY <1>1, <1>3, <2>1 DEF Object
  <2>6. /\ cache' \in [Ids -> Block]
        /\ cache'[s + 2] = BlockNow(objs, s)
        /\ \A q \in Ids \ {s + 2} : cache'[q] = cache[q]
    BY <1>1, <1>3, <1>5, <2>1 DEF LoadedCache, InCache, BlockNow
  <2>7. \A r \in Slots : BlockNow(objs, r)' = BlockNow(objs, r)
    <3>1. \A r \in Slots \ {s} : r + 2 \in Ids \ {s + 2}
      BY <1>1, SlotIds
    <3> QED
      BY <1>2, <1>5, <2>2, <2>4, <2>5, <2>6, <3>1 DEF BlockNow
  <2>8. \A r \in Slots : Kept(r) /\ objs'[r].size = objs[r].size
    <3>1. \A r \in Slots : objs'[r].size = objs[r].size
      BY <2>4, <2>5
    <3> QED
      BY <2>4, <2>5, <2>7, <3>1 DEF Kept, Contents
  <2>9. Used' = Used /\ TableInv'
    <3>1. objs'[s].dirty = 1 => CACHE /\ InCache(s)'
      BY <1>5, <2>2, <2>5 DEF InCache
    <3> QED
      BY <1>2, <2>4, <2>5, <3>1, SlotStep
  <2>10. StoreTypeOK'
    BY <1>2, <1>3, <2>4, <2>5, <2>6 DEF StoreInv, StoreTypeOK
  <2>11. CleanOnDisk'
    <3>1. \A r \in Slots : ValueOf(r)' = Contents(r)' /\ ValueOf(r) = Contents(r)
      BY <1>2 DEF ValueOf, Contents
    <3>2. \A r \in Slots : Contents(r)' = Contents(r)
      BY <2>8 DEF Kept
    <3>3. \A r \in Slots : objs'[r].id = objs[r].id /\ objs'[r].dirty = objs[r].dirty
      BY <2>4, <2>5
    <3> QED
      BY <1>2, <2>8, <3>1, <3>2, <3>3 DEF StoreInv, CleanOnDisk
  <2> QED
    BY <1>4, <2>8, <2>9, <2>10, <2>11 DEF StoreInv, Contents
<1>6. CASE ~CACHE
  <2>1. objs' = objs /\ cache' = cache
    BY <1>2, <1>6 DEF find_read_cached
  <2>2. StoreTypeOK' /\ Used' = Used
    BY <1>2, <2>1 DEF StoreInv, StoreTypeOK, Used
  <2>3. TableInv'
    BY <1>2, <2>1, <2>2 DEF StoreInv, TableInv, InCache
  <2>4. CleanOnDisk'
    BY <1>2, <1>6 DEF CleanOnDisk
  <2>5. \A r \in Slots : Kept(r)
    BY <1>2, <2>1 DEF Kept, Contents, BlockNow
  <2> QED
    BY <1>4, <2>2, <2>3, <2>4, <2>5 DEF StoreInv, Contents
<1> QED
  BY <1>5, <1>6

\* destroy_object frees the slot of the object with that key, and leaves it
\* empty for the next one.
LEMMA DestroyEffect ==
  ASSUME StoreInv, mounted, NEW s \in Used, destroy_object(objs[s].key)
  PROVE  /\ StoreInv' /\ Used' = Used \ {s}
         /\ \A r \in Slots \ {s} : Kept(r)
<1>1. s \in Slots
  BY DEF Used
<1>2. Min(Matches(objs, objs[s].key)) = s
  <2>1. /\ Matches(objs, objs[s].key) \in SUBSET Slots
        /\ s \in Matches(objs, objs[s].key)
        /\ \A r \in Matches(objs, objs[s].key) : r = s
    BY DEF Matches, Used, StoreInv, TableInv
  <2> QED
    BY <2>1, OnlySlot
<1>3. /\ objs' = [objs EXCEPT ![s] = Destroyed(@)]
      /\ mounted' = mounted /\ CACHE' = CACHE /\ cache' = cache
      /\ table' = table /\ disk' = disk
  BY <1>2 DEF destroy_object
<1>4. objs \in [Slots -> Object] /\ objs[s] \in Object
  BY <1>1 DEF StoreInv, StoreTypeOK
<1>5. /\ Destroyed(objs[s]) \in Object
      /\ Destroyed(objs[s]).id = 0 /\ Destroyed(objs[s]).size = 0
      /\ Destroyed(objs[s]).dirty = IF CACHE THEN 0 ELSE objs[s].dirty
  <2>1. PICK o \in Object : o = objs[s]
    BY <1>4
  <2>2. 0 \in 0 .. BLOCK_SIZE
    BY ExampleAssumptions
  <2>3. PICK u : u = uncached(o)
    OBVIOUS
  <2>4. u \in Object /\ u.dirty = IF CACHE THEN 0 ELSE o.dirty
    <3>1. CASE CACHE
      <4>1. u = [o EXCEPT !.cache_index = -1, !.dirty = 0]
        BY <2>3, <3>1 DEF uncached
      <4> QED
        BY <3>1, <4>1 DEF Object
    <3>2. CASE ~CACHE
      BY <2>3, <3>2 DEF uncached
    <3> QED
      BY <3>1, <3>2
  <2>5. Destroyed(o) = [u EXCEPT !.id = 0, !.size = 0]
    BY <2>3 DEF Destroyed
  <2>6. /\ Destroyed(o) \in Object /\ Destroyed(o).id = 0
        /\ Destroyed(o).size = 0 /\ Destroyed(o).dirty = u.dirty
    BY <2>2, <2>4, <2>5 DEF Object
  <2> QED
    BY <2>1, <2>4, <2>6
<1>6. /\ objs' \in [Slots -> Object] /\ objs'[s] = Destroyed(objs[s])
      /\ \A r \in Slots \ {s} : objs'[r] = objs[r]
  BY <1>1, <1>3, <1>4, <1>5
<1>7. objs'[s].id = 0 /\ objs'[s].size = 0 /\ objs'[s].dirty = 0
  BY <1>1, <1>5, <1>6, StoreFields DEF StoreInv, TableInv
<1>8. Used' = Used \ {s}
  BY <1>6, <1>7 DEF Used
<1>9. StoreTypeOK'
  BY <1>3, <1>6, <1>7 DEF StoreInv, StoreTypeOK
<1>10. \A r \in Slots \ {s} : Kept(r)
  BY <1>3, <1>6 DEF Kept, Contents, BlockNow
<1>11. TableInv'
  <2>1. \A r \in Used' : r \in Used /\ r \in Slots /\ objs'[r] = objs[r]
    BY <1>6, <1>8 DEF Used
  <2>2. /\ \A r \in Used' : objs'[r].key \in Keys
        /\ \A r, q \in Used' : objs'[r].key = objs'[q].key => r = q
    BY <2>1 DEF StoreInv, TableInv
  <2>3. \A r \in Slots : objs'[r].id = 0 => objs'[r].size = 0 /\ objs'[r].dirty = 0
    BY <1>6, <1>7 DEF StoreInv, TableInv
  <2>4. \A r \in Slots : objs'[r].dirty = 1 => CACHE' /\ mounted' /\ InCache(r)'
    BY <1>3, <1>6, <1>7 DEF StoreInv, TableInv, InCache
  <2> QED
    BY <1>3, <2>2, <2>3, <2>4 DEF TableInv
<1>12. CleanOnDisk'
  <2>1. \A r \in Slots : ValueOf(r)' = Contents(r)' /\ ValueOf(r) = Contents(r)
    BY <1>3 DEF ValueOf, Contents
  <2>2. \A r \in Slots \ {s} : Contents(r)' = Contents(r)
    BY <1>10 DEF Kept
  <2> QED
    BY <1>3, <1>6, <1>7, <2>1, <2>2 DEF StoreInv, CleanOnDisk
<1> QED
  BY <1>8, <1>9, <1>10, <1>11, <1>12 DEF StoreInv

\* objstore_destroy writes the blocks that are only in the cache: every object
\* keeps its value.
LEMMA UnmountEffect ==
  ASSUME StoreInv, objstore_destroy
  PROVE  /\ StoreInv' /\ ~mounted' /\ Used' = Used
         /\ \A s \in Slots : Kept(s)
<1>1. /\ mounted /\ ~mounted' /\ mounted' = FALSE
      /\ disk' = Synced /\ objs' = table'
      /\ CACHE' = CACHE /\ cache' = cache
      /\ table' = [s \in Slots |-> IF s \in ToSync THEN [objs[s] EXCEPT !.dirty = 0]
                                   ELSE objs[s]]
  BY DEF objstore_destroy
<1>2. /\ objs \in [Slots -> Object] /\ cache \in [Ids -> Block]
      /\ disk \in [Ids -> Block] /\ CACHE \in BOOLEAN
  BY DEF StoreInv, StoreTypeOK
<1>3. \A s \in Slots : /\ objs'[s] \in Object
                       /\ objs'[s].id = objs[s].id /\ objs'[s].key = objs[s].key
                       /\ objs'[s].size = objs[s].size
                       /\ objs'[s].dirty = 0
  <2> SUFFICES ASSUME NEW s \in Slots
               PROVE  /\ objs'[s] \in Object
                      /\ objs'[s].id = objs[s].id /\ objs'[s].key = objs[s].key
                      /\ objs'[s].size = objs[s].size
                      /\ objs'[s].dirty = 0
    OBVIOUS
  <2>1. objs[s] \in Object
    BY <1>2
  <2>2. CASE s \in ToSync
    <3>1. objs'[s] = [objs[s] EXCEPT !.dirty = 0]
      BY <1>1, <2>2
    <3> QED
      BY <2>1, <3>1 DEF Object
  <2>3. CASE s \notin ToSync
    <3>1. objs'[s] = objs[s]
      BY <1>1, <2>3
    <3>2. objs[s].dirty = 0
      BY <2>3, StoreFields DEF ToSync, StoreInv, TableInv
    <3> QED
      BY <2>1, <3>1, <3>2
  <2> QED
    BY <2>2, <2>3
<1>4. objs' \in [Slots -> Object] /\ Used' = Used
  BY <1>1, <1>3 DEF Used
<1>5. disk' \in [Ids -> Block]
  BY <1>1, <1>2 DEF Synced
<1>6. \A s \in Slots : Kept(s)
  <2> SUFFICES ASSUME NEW s \in Slots
               PROVE  Contents(s)' = Contents(s)
    BY <1>3 DEF Kept
  <2>1. /\ s + 2 \in Ids /\ Slot(s + 2) = s
        /\ disk'[s + 2] = IF s \in ToSync THEN cache[s + 2] ELSE disk[s + 2]
        /\ Contents(s)' = SubSeq(disk'[s + 2], 1, objs[s].size)
    BY <1>1, <1>3, SlotIds DEF Synced, Contents, BlockNow
  <2>2. CASE s \in ToSync
    <3>1. CACHE /\ objs[s].cache_index >= 0
      BY <2>2 DEF ToSync, StoreInv, TableInv, InCache
    <3> QED
      BY <1>1, <2>1, <2>2, <3>1 DEF Contents, BlockNow
  <2>3. CASE s \notin ToSync /\ s \in Used /\ CACHE
    <3>1. objs[s].dirty = 0
      BY <2>3, StoreFields DEF ToSync, Used
    <3>2. ValueOf(s) = Contents(s)
      BY <1>1 DEF ValueOf, Contents
    <3>3. Contents(s) = SubSeq(disk[s + 2], 1, objs[s].size)
      BY <1>1, <2>3, <3>1, <3>2 DEF StoreInv, CleanOnDisk, Used
    <3> QED
      BY <2>1, <2>3, <3>3
  <2>4. CASE s \notin ToSync /\ ~CACHE
    BY <2>1, <2>4 DEF Contents, BlockNow
  <2>5. CASE s \notin Used
    <3>1. objs[s].size = 0
      BY <2>5 DEF Used, StoreInv, TableInv
    <3> QED
      BY <2>1, <3>1, SubSeqEmpty DEF Contents
  <2> QED
    BY <2>2, <2>3, <2>4, <2>5
<1>7. StoreTypeOK'
  BY <1>1, <1>2, <1>3, <1>4, <1>5 DEF StoreInv, StoreTypeOK
<1>8. TableInv'
  <2>1. /\ \A s \in Used' : objs'[s].key \in Keys
        /\ \A r, s \in Used' : objs'[r].key = objs'[s].key => r = s
    BY <1>3, <1>4 DEF Used, StoreInv, TableInv
  <2>2. \A s \in Slots : objs'[s].id = 0 => objs'[s].size = 0 /\ objs'[s].dirty = 0
    BY <1>3 DEF StoreInv, TableInv
  <2>3. \A s \in Slots : objs'[s].dirty # 1
    BY <1>3
  <2>4. ~mounted' => objs' = table'
    BY <1>1
  <2> QED
    BY <2>1, <2>2, <2>3, <2>4 DEF TableInv
<1> QED
  BY <1>1, <1>4, <1>6, <1>7, <1>8 DEF StoreInv, CleanOnDisk

\* objstore_init by either build shows every object with the value it had when
\* the disk was unmounted by either build.
LEMMA MountEffect ==
  ASSUME StoreInv, objstore_init
  PROVE  /\ StoreInv' /\ mounted' /\ Used' = Used
         /\ \A s \in Slots : Kept(s)
<1>1. /\ ~mounted /\ mounted' = TRUE /\ mounted' /\ CACHE' \in BOOLEAN
      /\ objs = table /\ table' = table /\ disk' = disk
      /\ cache' = [id \in Ids |-> ZeroBlock]
      /\ objs' = [s \in Slots |->
                    IF table[s].id # 0 /\ CACHE'
                    THEN [table[s] EXCEPT !.cache_index = -1, !.dirty = 0]
                    ELSE table[s]]
  BY DEF objstore_init, StoreInv, TableInv
<1>2. /\ objs \in [Slots -> Object] /\ disk \in [Ids -> Block]
      /\ table \in [Slots -> Object]
  BY DEF StoreInv, StoreTypeOK
<1>3. cache' \in [Ids -> Block]
  BY <1>1 DEF ZeroBlock, Block
<1>4. \A s \in Slots :
        /\ objs'[s] \in Object
        /\ objs'[s].id = objs[s].id /\ objs'[s].key = objs[s].key
        /\ objs'[s].size = objs[s].size
        /\ objs'[s].dirty = 0
        /\ s \in Used /\ CACHE' => objs'[s].cache_index = -1
  <2> SUFFICES ASSUME NEW s \in Slots
               PROVE  /\ objs'[s] \in Object
                      /\ objs'[s].id = objs[s].id /\ objs'[s].key = objs[s].key
                      /\ objs'[s].size = objs[s].size
                      /\ objs'[s].dirty = 0
                      /\ s \in Used /\ CACHE' => objs'[s].cache_index = -1
    OBVIOUS
  <2>1. objs[s] \in Object /\ objs[s].dirty = 0
    BY <1>1, <1>2, StoreFields DEF StoreInv, TableInv
  <2>2. CASE objs[s].id # 0 /\ CACHE'
    <3>1. objs'[s] = [objs[s] EXCEPT !.cache_index = -1, !.dirty = 0]
      BY <1>1, <2>2
    <3> QED
      BY <2>1, <3>1 DEF Object
  <2>3. CASE ~(objs[s].id # 0 /\ CACHE')
    <3>1. objs'[s] = objs[s]
      BY <1>1, <2>3
    <3> QED
      BY <2>1, <2>3, <3>1 DEF Used
  <2> QED
    BY <2>2, <2>3
<1>5. objs' \in [Slots -> Object] /\ Used' = Used
  BY <1>1, <1>4 DEF Used
<1>6. \A s \in Slots : /\ Contents(s)' = SubSeq(disk[s + 2], 1, objs[s].size)
                       /\ Contents(s) = SubSeq(disk[s + 2], 1, objs[s].size)
  <2> SUFFICES ASSUME NEW s \in Slots
               PROVE  /\ Contents(s)' = SubSeq(disk[s + 2], 1, objs[s].size)
                      /\ Contents(s) = SubSeq(disk[s + 2], 1, objs[s].size)
    OBVIOUS
  <2>1. Contents(s) = SubSeq(disk[s + 2], 1, objs[s].size)
    BY <1>1 DEF Contents, BlockNow
  <2>2. CASE s \in Used
    <3>1. CACHE' => ~(objs'[s].cache_index >= 0)
      BY <1>4, <2>2
    <3>2. BlockNow(objs, s)' = disk[s + 2]
      BY <1>1, <3>1 DEF BlockNow
    <3> QED
      BY <1>4, <2>1, <3>2 DEF Contents
  <2>3. CASE s \notin Used
    <3>1. objs[s].size = 0
      BY <2>3 DEF Used, StoreInv, TableInv
    <3> QED
      BY <1>4, <2>1, <3>1, SubSeqEmpty DEF Contents
  <2> QED
    BY <2>2, <2>3
<1>7. \A s \in Slots : Kept(s)
  BY <1>4, <1>6 DEF Kept
<1>8. StoreTypeOK'
  BY <1>1, <1>2, <1>3, <1>4, <1>5 DEF StoreInv, StoreTypeOK
<1>9. TableInv'
  <2>1. /\ \A s \in Used' : objs'[s].key \in Keys
        /\ \A r, s \in Used' : objs'[r].key = objs'[s].key => r = s
    BY <1>4, <1>5 DEF Used, StoreInv, TableInv
  <2>2. \A s \in Slots : objs'[s].id = 0 => objs'[s].size = 0 /\ objs'[s].dirty = 0
    BY <1>4 DEF StoreInv, TableInv
  <2>3. \A s \in Slots : objs'[s].dirty # 1
    BY <1>4
  <2>4. ~mounted' => objs' = table'
    BY <1>1
  <2> QED
    BY <2>1, <2>2, <2>3, <2>4 DEF TableInv
<1>10. CleanOnDisk'
  <2>1. \A s \in Slots : ValueOf(s)' = Contents(s)'
    BY <1>1 DEF ValueOf, Contents
  <2>2. \A s \in Slots : ValueOf(s)' = SubSeq(disk'[s + 2], 1, objs'[s].size)
    BY <1>1, <1>4, <1>6, <2>1
  <2> QED
    BY <2>2 DEF CleanOnDisk
<1> QED
  BY <1>1, <1>5, <1>7, <1>8, <1>9, <1>10 DEF StoreInv

\* Calls that leave the store alone.
LEMMA NoEffect ==
  ASSUME StoreInv, UNCHANGED storevars
  PROVE  StoreInv' /\ Used' = Used /\ \A s \in Slots : Kept(s)
<1>1. StoreTypeOK' /\ Used' = Used
  BY DEF storevars, StoreInv, StoreTypeOK, Used
<1>2. TableInv'
  BY <1>1 DEF storevars, StoreInv, TableInv, InCache
<1>3. CleanOnDisk'
  BY DEF storevars, StoreInv, CleanOnDisk, ValueOf, BlockNow
<1>4. \A s \in Slots : Kept(s)
  BY DEF storevars, Kept, Contents, BlockNow
<1> QED
  BY <1>1, <1>2, <1>3, <1>4 DEF StoreInv

\* find_object_id finds the object with the key, if there is one.
LEMMA FindKey ==
  ASSUME StoreInv, NEW k
  PROVE  /\ \A s \in Used : objs[s].key = k =>
                Matches(objs, k) # {} /\ Min(Matches(objs, k)) = s
                  /\ find_object_id(k) = s + 2
         /\ (\A s \in Used : objs[s].key # k) =>
                Matches(objs, k) = {} /\ find_object_id(k) = -1
         /\ find_object_id(k) >= 0 <=> \E s \in Used : objs[s].key = k
<1>1. ASSUME NEW s \in Used, objs[s].key = k
      PROVE  Matches(objs, k) # {} /\ Min(Matches(objs, k)) = s
  <2>1. /\ Matches(objs, k) \in SUBSET Slots
        /\ s \in Matches(objs, k)
        /\ \A r \in Matches(objs, k) : r = s
    BY <1>1 DEF Matches, Used, StoreInv, TableInv
  <2> QED
    BY <2>1, OnlySlot
<1>2. \A s \in Used : objs[s].id = s + 2 /\ s + 2 >= 0
  BY StoreFields, SlotIds DEF Used
<1>3. (\A s \in Used : objs[s].key # k) => Matches(objs, k) = {}
  BY DEF Matches, Used
<1>4. \A s \in Used : objs[s].key = k => find_object_id(k) = s + 2
  BY <1>1, <1>2 DEF find_object_id
<1>5. Matches(objs, k) = {} => find_object_id(k) = -1 /\ ~(find_object_id(k) >= 0)
  BY DEF find_object_id
<1> QED
  BY <1>1, <1>2, <1>3, <1>4, <1>5

\* A client's handle is that of the object it opened.
LEMMA HandleSlot ==
  ASSUME Inv, NEW c \in Clients, pc[c] # "idle"
  PROVE  /\ mounted /\ key[c] \in Keys /\ fh[c] # 0
         /\ fh[c] \in Ids /\ Slot(fh[c]) \in Used /\ Slot(fh[c]) + 2 = fh[c]
         /\ objs[Slot(fh[c])].key = key[c] /\ HandleOK(fh[c])
BY SlotIds DEF Inv, ClientInv, HandlesValid, HandleOK, Used

\* An empty disk without clients.
LEMMA KVInit == Init => Inv
<1> SUFFICES ASSUME Init PROVE Inv
  OBVIOUS
<1> USE ExampleAssumptions
<1>1. PICK o : o = [id |-> 0, size |-> 0, cache_index |-> 0, dirty |-> 0, key |-> NoKey]
  OBVIOUS
<1>2. o \in Object /\ o.id = 0 /\ o.size = 0 /\ o.dirty = 0
  BY <1>1 DEF Object
<1>3. /\ mounted /\ mounted = TRUE /\ CACHE \in BOOLEAN
      /\ objs = [s \in Slots |-> o] /\ table = objs
      /\ cache = [id \in Ids |-> ZeroBlock] /\ disk = [id \in Ids |-> ZeroBlock]
  BY <1>1 DEF Init, StoreInit
<1>4. ZeroBlock \in Block
  BY DEF ZeroBlock, Block
<1>5. StoreTypeOK /\ Used = {}
  BY <1>2, <1>3, <1>4 DEF StoreTypeOK, Used
<1>6. TableInv
  BY <1>2, <1>3, <1>5 DEF TableInv
<1>7. CleanOnDisk
  BY <1>2, <1>3 DEF CleanOnDisk
<1>8. /\ pc = [c \in Clients |-> "idle"] /\ key = [c \in Clients |-> NoKey]
      /\ val = [c \in Clients |-> <<>>] /\ fh = [c \in Clients |-> 0]
      /\ putval = [k \in Keys |-> <<>>]
  BY DEF Init
<1>9. TypeOK
  BY <1>5, <1>8 DEF TypeOK, Steps
<1>10. ClientInv /\ HandlesValid
  BY <1>5, <1>8 DEF ClientInv, HandlesValid
<1> QED
  BY <1>5, <1>6, <1>7, <1>9, <1>10 DEF Inv, StoreInv

-----------------------------------------------------------------------------
\* The types of the clients' variables.
ClientTypes ==
  /\ pc \in [Clients -> Steps]
  /\ key \in [Clients -> Keys \cup {NoKey}]
  /\ val \in [Clients -> Values \cup {<<>>}]
  /\ fh \in [Clients -> {0} \cup Ids]
  /\ putval \in [Keys -> Values \cup {<<>>}]

\* A step that changes no object, and nothing of the clients but that one of
\* them goes on with the handle it has.
LEMMA QuietStep ==
  ASSUME Inv, StoreInv', Used' = Used, \A s \in Slots : Kept(s),
         mounted' = mounted,
         UNCHANGED <<key, val, fh, putval>>, ClientTypes',
         \A c \in Clients : \/ pc'[c] = pc[c]
                            \/ pc[c] # "idle" /\ pc'[c] \notin {"idle", "put_write"}
  PROVE  Inv'
<1>1. TypeOK'
  BY DEF TypeOK, ClientTypes, StoreInv
<1>2. HandlesValid'
  BY SlotIds DEF Inv, HandlesValid, HandleOK, Kept
<1>3. ClientInv'
  <2>1. \A c \in Clients :
          /\ pc'[c] = "idle" <=> fh'[c] = 0
          /\ pc'[c] # "idle" => mounted' /\ key'[c] \in Keys
          /\ pc'[c] = "put_write" => val'[c] \in Values /\ val'[c] = putval'[key'[c]]
    BY DEF Inv, ClientInv
  <2>2. \A s \in Used' : Contents(s)' \in {<<>>, putval'[objs'[s].key]}
    BY DEF Inv, ClientInv, Kept, Used
  <2> QED
    BY <2>1, <2>2 DEF ClientInv
<1> QED
  BY <1>1, <1>2, <1>3 DEF Inv

\* Every step of a client, an unmount and a mount preserve the invariant.
LEMMA KVNext == Inv /\ [Next]_vars => Inv'
<1> SUFFICES ASSUME Inv, [Next]_vars PROVE Inv'
  OBVIOUS
<1>a. ClientTypes /\ StoreInv
  BY DEF Inv, TypeOK, ClientTypes
<1>1. ASSUME UNCHANGED <<storevars, pc, key, val, fh, putval>> PROVE Inv'
  <2>1. ClientTypes' /\ mounted' = mounted
    BY <1>1, <1>a DEF ClientTypes, storevars
  <2> QED
    BY <1>1, <1>a, <2>1, NoEffect, QuietStep
<1>2. ASSUME NEW c \in Clients, put_write(c) PROVE Inv'
  <2>1. PICK s \in Used : s = Slot(fh[c]) /\ fh[c] = s + 2
    BY <1>2, HandleSlot DEF put_write
  <2>2. /\ mounted /\ HandleOK(fh[c]) /\ key[c] \in Keys /\ objs[s].key = key[c]
        /\ val[c] \in Values /\ val[c] \in Seq(Bytes) /\ val[c] = putval[key[c]]
    BY <1>2, <2>1, HandleSlot, ClientsAssumptions DEF put_write, Inv, ClientInv
  <2>3. /\ objstore_write(s + 2, val[c])
        /\ val' = [val EXCEPT ![c] = <<>>] /\ pc' = [pc EXCEPT ![c] = "close"]
        /\ UNCHANGED <<key, fh, putval>>
    BY <1>2, <2>1, <2>2 DEF put_write, Goto
  <2>4. /\ StoreInv' /\ Used' = Used
        /\ objs'[s].id = objs[s].id /\ objs'[s].key = objs[s].key
        /\ Contents(s)' = val[c]
        /\ \A r \in Slots \ {s} : Kept(r)
    BY <1>a, <2>2, <2>3, WriteEffect
  <2>5. mounted' = mounted
    BY <2>3 DEF objstore_write
  <2>6. TypeOK'
    BY <1>a, <2>3, <2>4 DEF TypeOK, ClientTypes, StoreInv, Steps
  <2>7. HandlesValid'
    BY <2>3, <2>4, SlotIds DEF Inv, HandlesValid, HandleOK, Kept
  <2>8. \A d \in Clients :
          /\ pc'[d] = "idle" <=> fh'[d] = 0
          /\ pc'[d] # "idle" => mounted' /\ key'[d] \in Keys
          /\ pc'[d] = "put_write" => val'[d] \in Values /\ val'[d] = putval'[key'[d]]
    <3>1. pc[c] # "idle" /\ pc'[c] = "close"
      BY <1>2, <1>a, <2>3 DEF put_write, ClientTypes
    <3>2. \A d \in Clients \ {c} : pc'[d] = pc[d] /\ val'[d] = val[d]
      BY <1>a, <2>3 DEF ClientTypes
    <3> QED
      BY <2>3, <2>5, <3>1, <3>2 DEF Inv, ClientInv
  <2>9. \A r \in Used' : Contents(r)' \in {<<>>, putval'[objs'[r].key]}
    BY <2>2, <2>3, <2>4 DEF Inv, ClientInv, Kept, Used
  <2> QED
    BY <2>4, <2>6, <2>7, <2>8, <2>9 DEF Inv, ClientInv
<1>3. ASSUME NEW c \in Clients, get_stat(c) PROVE Inv'
  <2>1. /\ UNCHANGED <<storevars, key, val, fh, putval>>
        /\ pc[c] = "get_stat" /\ pc' = [pc EXCEPT ![c] = "get_read"]
    BY <1>3 DEF get_stat, Goto
  <2>2. ClientTypes' /\ mounted' = mounted
    BY <1>a, <2>1 DEF ClientTypes, Steps, storevars
  <2>3. \A d \in Clients : \/ pc'[d] = pc[d]
                           \/ pc[d] # "idle" /\ pc'[d] \notin {"idle", "put_write"}
    BY <1>a, <2>1 DEF ClientTypes
  <2> QED
    BY <1>a, <2>1, <2>2, <2>3, NoEffect, QuietStep
<1>4. ASSUME NEW c \in Clients, get_read(c) PROVE Inv'
  <2>1. PICK s \in Used : s = Slot(fh[c]) /\ fh[c] = s + 2
    BY <1>4, HandleSlot DEF get_read
  <2>2. mounted /\ HandleOK(fh[c])
    BY <1>4, HandleSlot DEF get_read
  <2>3. /\ objstore_read(s + 2)
        /\ UNCHANGED <<key, val, fh, putval>>
        /\ pc[c] = "get_read" /\ pc' = [pc EXCEPT ![c] = "close"]
    BY <1>4, <2>1, <2>2 DEF get_read, Goto
  <2>4. StoreInv' /\ Used' = Used /\ \A r \in Slots : Kept(r)
    BY <1>a, <2>2, <2>3, ReadEffect
  <2>5. ClientTypes' /\ mounted' = mounted
    BY <1>a, <2>3 DEF ClientTypes, Steps, objstore_read
  <2>6. \A d \in Clients : \/ pc'[d] = pc[d]
                           \/ pc[d] # "idle" /\ pc'[d] \notin {"idle", "put_write"}
    BY <1>a, <2>3 DEF ClientTypes
  <2> QED
    BY <2>3, <2>4, <2>5, <2>6, QuietStep
<1>5. ASSUME NEW c \in Clients, close(c) PROVE Inv'
  <2>1. /\ UNCHANGED <<storevars, val, putval>>
        /\ pc' = [pc EXCEPT ![c] = "idle"] /\ fh' = [fh EXCEPT ![c] = 0]
        /\ key' = [key EXCEPT ![c] = NoKey]
    BY <1>5 DEF close, Goto
  <2>2. StoreInv' /\ Used' = Used /\ mounted' = mounted /\ \A s \in Slots : Kept(s)
    BY <1>a, <2>1, NoEffect DEF storevars
  <2>3. ClientTypes'
    BY <1>a, <2>1 DEF ClientTypes, Steps
  <2>4. /\ pc'[c] = "idle" /\ fh'[c] = 0
        /\ \A d \in Clients \ {c} : pc'[d] = pc[d] /\ fh'[d] = fh[d] /\ key'[d] = key[d]
    BY <1>a, <2>1 DEF ClientTypes
  <2>5. TypeOK' /\ HandlesValid'
    <3>1. TypeOK'
      BY <2>2, <2>3 DEF TypeOK, ClientTypes, StoreInv
    <3> QED
      BY <2>2, <2>4, <3>1, SlotIds DEF Inv, HandlesValid, HandleOK, Kept
  <2>6. \A d \in Clients :
          /\ pc'[d] = "idle" <=> fh'[d] = 0
          /\ pc'[d] # "idle" => mounted' /\ key'[d] \in Keys
          /\ pc'[d] = "put_write" => val'[d] \in Values /\ val'[d] = putval'[key'[d]]
    BY <2>1, <2>2, <2>4 DEF Inv, ClientInv
  <2>7. \A s \in Used' : Contents(s)' \in {<<>>, putval'[objs'[s].key]}
    BY <2>1, <2>2 DEF Inv, ClientInv, Kept, Used
  <2> QED
    BY <2>2, <2>5, <2>6, <2>7 DEF Inv, ClientInv
<1>6. ASSUME NEW c \in Clients, NEW k \in Keys, get_open(c, k) PROVE Inv'
  <2>1. /\ UNCHANGED <<storevars, val, putval>> /\ mounted /\ pc[c] = "idle"
        /\ find_object_id(k) >= 0
        /\ pc' = [pc EXCEPT ![c] = "get_stat"] /\ key' = [key EXCEPT ![c] = k]
        /\ fh' = [fh EXCEPT ![c] = find_object_id(k)]
    BY <1>6 DEF get_open, Goto, Idle
  <2>2. StoreInv' /\ Used' = Used /\ mounted' = mounted /\ \A s \in Slots : Kept(s)
    BY <1>a, <2>1, NoEffect DEF storevars
  <2>3. PICK s \in Used : objs[s].key = k /\ find_object_id(k) = s + 2
    BY <1>a, <2>1, FindKey
  <2>4. s \in Slots /\ s + 2 \in Ids /\ Slot(s + 2) = s /\ s + 2 # 0 /\ objs[s].id = s + 2
    BY <1>a, SlotIds, StoreFields DEF Used
  <2>5. TypeOK'
    BY <1>a, <2>1, <2>2, <2>3, <2>4 DEF TypeOK, ClientTypes, StoreInv, Steps
  <2>6. /\ pc'[c] = "get_stat" /\ fh'[c] = s + 2 /\ key'[c] = k
        /\ \A d \in Clients \ {c} : pc'[d] = pc[d] /\ fh'[d] = fh[d] /\ key'[d] = key[d]
    BY <1>a, <2>1, <2>3 DEF ClientTypes
  <2>7. HandlesValid'
    BY <2>2, <2>3, <2>4, <2>6, SlotIds DEF Inv, HandlesValid, HandleOK, Kept
  <2>8. \A d \in Clients :
          /\ pc'[d] = "idle" <=> fh'[d] = 0
          /\ pc'[d] # "idle" => mounted' /\ key'[d] \in Keys
          /\ pc'[d] = "put_write" => val'[d] \in Values /\ val'[d] = putval'[key'[d]]
    BY <2>1, <2>2, <2>4, <2>6 DEF Inv, ClientInv
  <2>9. \A r \in Used' : Contents(r)' \in {<<>>, putval'[objs'[r].key]}
    BY <2>1, <2>2 DEF Inv, ClientInv, Kept, Used
  <2> QED
    BY <2>2, <2>5, <2>7, <2>8, <2>9 DEF Inv, ClientInv
<1>7. ASSUME NEW c \in Clients, NEW k \in Keys, NEW v \in Values, put_open(c, k, v)
      PROVE  Inv'
  <2>1. PICK s : s = Min(FreeSlots)
    OBVIOUS
  <2>2. /\ mounted /\ pc[c] = "idle" /\ Matches(objs, k) = {} /\ create_object(k)
        /\ fh' = [fh EXCEPT ![c] = s + 2] /\ key' = [key EXCEPT ![c] = k]
        /\ val' = [val EXCEPT ![c] = v] /\ putval' = [putval EXCEPT ![k] = v]
        /\ pc' = [pc EXCEPT ![c] = "put_write"]
    BY <1>7, <2>1 DEF put_open, Goto, Idle, new_id
  <2>3. /\ StoreInv'
        /\ s \in Slots /\ s \notin Used /\ Used' = Used \cup {s}
        /\ objs'[s].id = s + 2 /\ objs'[s].key = k /\ Contents(s)' = <<>>
        /\ \A r \in Slots \ {s} : Kept(r)
    BY <1>a, <2>1, <2>2, CreateEffect
  <2>4. s + 2 \in Ids /\ Slot(s + 2) = s /\ s + 2 # 0 /\ mounted' = mounted
    BY <2>2, <2>3, SlotIds DEF create_object
  <2>5. TypeOK'
    BY <1>a, <2>2, <2>3, <2>4 DEF TypeOK, ClientTypes, StoreInv, Steps
  <2>6. /\ pc'[c] = "put_write" /\ fh'[c] = s + 2 /\ key'[c] = k /\ val'[c] = v
        /\ putval'[k] = v
        /\ \A d \in Clients \ {c} : /\ pc'[d] = pc[d] /\ fh'[d] = fh[d]
                                     /\ key'[d] = key[d] /\ val'[d] = val[d]
        /\ \A q \in Keys \ {k} : putval'[q] = putval[q]
    BY <1>a, <2>2 DEF ClientTypes
  <2>7. \A r \in Used : objs[r].key # k /\ r \in Slots \ {s} /\ objs[r].key \in Keys
    BY <1>a, <2>2, <2>3, FindKey DEF Used, StoreInv, TableInv
  <2>8. \A d \in Clients \ {c} : pc[d] # "idle" =>
          /\ key[d] \in Keys \ {k} /\ Slot(fh[d]) \in Slots \ {s} /\ fh[d] \in Ids
          /\ objs[Slot(fh[d])].id = fh[d] /\ objs[Slot(fh[d])].key = key[d]
    BY <2>7, HandleSlot DEF HandleOK
  <2>9. \A d \in Clients : pc[d] = "idle" <=> fh[d] = 0
    BY DEF Inv, ClientInv
  <2>10. HandlesValid'
    BY <2>3, <2>4, <2>6, <2>8, <2>9 DEF HandlesValid, HandleOK, Kept
  <2>11. \A d \in Clients :
          /\ pc'[d] = "idle" <=> fh'[d] = 0
          /\ pc'[d] # "idle" => mounted' /\ key'[d] \in Keys
          /\ pc'[d] = "put_write" => val'[d] \in Values /\ val'[d] = putval'[key'[d]]
    BY <2>2, <2>4, <2>6, <2>8, <2>9 DEF Inv, ClientInv
  <2>12. \A r \in Used' : Contents(r)' \in {<<>>, putval'[objs'[r].key]}
    BY <2>3, <2>6, <2>7 DEF Inv, ClientInv, Kept
  <2> QED
    BY <2>3, <2>5, <2>10, <2>11, <2>12 DEF Inv, ClientInv
<1>8. ASSUME NEW c \in Clients, NEW k \in Keys, delete_key(c, k) PROVE Inv'
  <2>1. /\ mounted /\ Unlinkable(k) /\ destroy_object(k)
        /\ putval' = [putval EXCEPT ![k] = <<>>]
        /\ UNCHANGED <<pc, key, val, fh>>
    BY <1>8 DEF delete_key, Idle
  <2>2. PICK s \in Used : objs[s].key = k
    BY <1>a, <2>1, FindKey DEF Unlinkable
  <2>3. StoreInv' /\ Used' = Used \ {s} /\ \A r \in Slots \ {s} : Kept(r)
    BY <1>a, <2>1, <2>2, DestroyEffect
  <2>4. mounted' = mounted
    BY <2>1 DEF destroy_object
  <2>5. \A q \in Keys \ {k} : putval'[q] = putval[q]
    BY <1>a, <2>1 DEF ClientTypes
  <2>6. TypeOK'
    BY <1>a, <2>1, <2>3 DEF TypeOK, ClientTypes, StoreInv
  <2>7. \A d \in Clients : pc[d] = "idle" <=> fh[d] = 0
    BY DEF Inv, ClientInv
  <2>8. \A d \in Clients : pc[d] # "idle" =>
          /\ key[d] \in Keys \ {k} /\ Slot(fh[d]) \in Slots \ {s} /\ fh[d] \in Ids
          /\ objs[Slot(fh[d])].id = fh[d] /\ objs[Slot(fh[d])].key = key[d]
    BY <2>1, <2>2, HandleSlot DEF Unlinkable, InUse, HandleOK, Used
  <2>9. HandlesValid'
    BY <2>1, <2>3, <2>7, <2>8 DEF HandlesValid, HandleOK, Kept
  <2>10. \A d \in Clients :
          /\ pc'[d] = "idle" <=> fh'[d] = 0
          /\ pc'[d] # "idle" => mounted' /\ key'[d] \in Keys
          /\ pc'[d] = "put_write" => val'[d] \in Values /\ val'[d] = putval'[key'[d]]
    BY <2>1, <2>4, <2>5, <2>8 DEF Inv, ClientInv
  <2>11. \A r \in Used' : Contents(r)' \in {<<>>, putval'[objs'[r].key]}
    <3>1. \A r \in Used' : r \in Used /\ r \in Slots \ {s} /\ objs[r].key \in Keys \ {k}
      BY <1>a, <2>2, <2>3 DEF Used, StoreInv, TableInv
    <3> QED
      BY <2>3, <2>5, <3>1 DEF Inv, ClientInv, Kept
  <2> QED
    BY <2>3, <2>6, <2>9, <2>10, <2>11 DEF Inv, ClientInv
<1>9. ASSUME objfs_destroy \/ objfs_init PROVE Inv'
  <2>1. /\ StoreInv' /\ Used' = Used /\ \A s \in Slots : Kept(s)
        /\ UNCHANGED <<pc, key, val, fh, putval>>
    BY <1>9, <1>a, UnmountEffect, MountEffect DEF objfs_destroy, objfs_init
  <2>2. \A d \in Clients : pc[d] = "idle" /\ fh[d] = 0
    BY <1>9 DEF objfs_destroy, objfs_init, objstore_init, Inv, ClientInv
  <2>3. TypeOK'
    BY <1>a, <2>1 DEF TypeOK, ClientTypes, StoreInv
  <2>4. HandlesValid'
    BY <2>1, <2>2 DEF HandlesValid
  <2>5. ClientInv'
    BY <2>1, <2>2 DEF Inv, ClientInv, Kept, Used
  <2> QED
    BY <2>1, <2>3, <2>4, <2>5 DEF Inv
<1>10. ASSUME NEW c \in Clients, NEW k \in Keys,
              lookup_key(c, k) \/ rename_key(c, k) \/ put_refused(c, k)
                \/ get_refused(c, k) \/ delete_refused(c, k)
       PROVE  Inv'
  BY <1>1, <1>10
  DEF lookup_key, rename_key, put_refused, get_refused, delete_refused, Answer
<1>11. ASSUME UNCHANGED vars PROVE Inv'
  BY <1>1, <1>11 DEF vars
<1> QED
  BY <1>2, <1>3, <1>4, <1>5, <1>6, <1>7, <1>8, <1>9, <1>10, <1>11 DEF Next

\* The store and its clients keep the invariant: an object's slot, key and value
\* agree, in memory and on the disk, and handles name live objects.
THEOREM KVInvariance == Spec => []Inv
BY KVInit, KVNext, PTL DEF Spec

\* Every variable keeps its type.
THEOREM KVTypeCorrect == Spec => []TypeOK
<1>1. Inv => TypeOK
  BY DEF Inv
<1> QED
  BY <1>1, KVInvariance, PTL

\* The unmount, which skips objects that are not dirty, loses nothing.
THEOREM KVCleanOnDisk == Spec => []CleanOnDisk
<1>1. Inv => CleanOnDisk
  BY DEF Inv, StoreInv
<1> QED
  BY <1>1, KVInvariance, PTL

\* Identifiers are used again, and a handle still never reaches an object other
\* than the one it was opened for.
THEOREM KVHandlesValid == Spec => []HandlesValid
<1>1. Inv => HandlesValid
  BY DEF Inv
<1> QED
  BY <1>1, KVInvariance, PTL

-----------------------------------------------------------------------------
\* What clients see under a key is the value of the object with that key.
LEMMA VisibleIs ==
  ASSUME StoreInv, NEW k \in Keys
  PROVE  /\ \A s \in Used : objs[s].key = k => Visible[k] = Contents(s)
         /\ (\A s \in Used : objs[s].key # k) => Visible[k] = NoValue
<1>1. PICK t : t = IF mounted THEN objs ELSE table
  OBVIOUS
<1>2. t = objs
  BY <1>1 DEF StoreInv, TableInv
<1>3. Visible[k] = IF Matches(objs, k) = {} THEN NoValue
                   ELSE ValueOf(Min(Matches(objs, k)))
  BY <1>1, <1>2 DEF Visible
<1>4. \A s : ValueOf(s) = Contents(s)
  BY <1>1, <1>2 DEF ValueOf, Contents
<1> QED
  BY <1>3, <1>4, FindKey

\* A client finds nothing, an object not yet written, or what the put_key that
\* created the object wrote.
THEOREM KVOnlyPutValues == Spec => []OnlyPutValues
<1>1. Inv => OnlyPutValues
  <2> SUFFICES ASSUME Inv, NEW k \in Keys
               PROVE  Visible[k] \in {NoValue, <<>>, putval[k]}
    BY DEF OnlyPutValues
  <2>1. CASE \A s \in Used : objs[s].key # k
    BY <2>1, VisibleIs DEF Inv
  <2>2. ASSUME NEW s \in Used, objs[s].key = k
        PROVE  Visible[k] \in {<<>>, putval[k]}
    BY <2>2, VisibleIs DEF Inv, ClientInv
  <2> QED
    BY <2>1, <2>2
<1> QED
  BY <1>1, KVInvariance, PTL

-----------------------------------------------------------------------------
(***************************************************************************)
(* KVClients implements ValueMap: the map is what clients see, and every   *)
(* system call maps to the action of ValueMap that gives its answer.       *)
(***************************************************************************)
SeesObjects ==
  /\ DOMAIN Visible = Keys
  /\ Visible = [k \in Keys |-> Visible[k]]
  /\ \A s \in Used : objs[s].key \in Keys /\ Visible[objs[s].key] = Contents(s)
                       /\ Contents(s) # NoValue
  /\ \A k \in Keys : (\A s \in Used : objs[s].key # k) => Visible[k] = NoValue

\* Clients see every object in use, and no value under the other keys.
LEMMA VisibleObjects == StoreInv => SeesObjects
<1> SUFFICES ASSUME StoreInv PROVE SeesObjects
  OBVIOUS
<1>1. \A s \in Used : objs[s].key \in Keys /\ s \in Slots
  BY DEF StoreInv, TableInv, Used
<1>2. \A s \in Used : Contents(s) # NoValue
  BY <1>1, StoreFields, ClientsAssumptions
<1>3. DOMAIN Visible = Keys /\ Visible = [k \in Keys |-> Visible[k]]
  BY DEF Visible
<1> QED
  BY <1>1, <1>2, <1>3, VisibleIs DEF SeesObjects

\* The keys present are those of the objects, and there is room for another
\* exactly when the table has a free slot.
LEMMA PresentKeys ==
  ASSUME StoreInv
  PROVE  /\ Map!Present = {objs[s].key : s \in Used}
         /\ Cardinality(Map!Present) \in Nat
         /\ Cardinality(Map!Present) < MAX_OBJS <=> FreeSlots # {}
<1>1. SeesObjects
  BY VisibleObjects
<1>2. Map!Present = {objs[s].key : s \in Used}
  BY <1>1 DEF SeesObjects, Map!Present
<1>3. IsFiniteSet(Slots) /\ Cardinality(Slots) = MAX_OBJS
  <2>1. 0 \in Int /\ MAX_OBJS - 1 \in Int /\ ~(0 > MAX_OBJS - 1)
    BY ExampleAssumptions
  <2> QED
    BY <2>1, FS_Interval, ExampleAssumptions DEF Slots
<1>4. Used \in SUBSET Slots
  BY DEF Used
<1>5. /\ IsFiniteSet(Used) /\ Cardinality(Used) \in Nat
      /\ Cardinality(Used) <= MAX_OBJS
      /\ Cardinality(Used) = MAX_OBJS <=> Used = Slots
  BY <1>3, <1>4, FS_Subset, FS_CardinalityType
<1>6. Cardinality(Map!Present) = Cardinality(Used)
  <2> DEFINE f == [s \in Used |-> objs[s].key]
             P == {objs[s].key : s \in Used}
  <2>1. f \in Surjection(Used, P)
    BY DEF Surjection
  <2>2. f \in Injection(Used, P)
    BY DEF Injection, IsInjective, StoreInv, TableInv
  <2> HIDE DEF f, P
  <2>3. Cardinality(P) = Cardinality(Used)
    BY <1>5, <2>1, <2>2, FS_Surjection
  <2> QED
    BY <1>2, <2>3 DEF P
<1>7. FreeSlots # {} <=> Used # Slots
  BY DEF FreeSlots, Used
<1> QED
  BY <1>2, <1>5, <1>6, <1>7, ExampleAssumptions

\* If no object changes, neither does what clients see.
LEMMA VisibleSame ==
  ASSUME SeesObjects, SeesObjects', Used' = Used, \A s \in Used : Kept(s)
  PROVE  Visible' = Visible
<1>1. \A k \in Keys : Visible'[k] = Visible[k]
  <2> SUFFICES ASSUME NEW k \in Keys PROVE Visible'[k] = Visible[k]
    OBVIOUS
  <2>1. CASE \A s \in Used : objs[s].key # k
    BY <2>1 DEF SeesObjects, Kept
  <2>2. ASSUME NEW s \in Used, objs[s].key = k PROVE Visible'[k] = Visible[k]
    BY <2>2 DEF SeesObjects, Kept
  <2> QED
    BY <2>1, <2>2
<1> QED
  BY <1>1 DEF SeesObjects

\* If only the object with key k changes, only that key's value does.
LEMMA VisibleChanged ==
  ASSUME SeesObjects, SeesObjects', NEW k \in Keys, NEW x,
         \A s \in Used : objs[s].key # k => s \in Used' /\ Kept(s),
         \A s \in Used' : objs'[s].key # k => s \in Used /\ Kept(s),
         Visible'[k] = x
  PROVE  Visible' = [Visible EXCEPT ![k] = x]
<1>1. \A q \in Keys \ {k} : Visible'[q] = Visible[q]
  <2> SUFFICES ASSUME NEW q \in Keys \ {k} PROVE Visible'[q] = Visible[q]
    OBVIOUS
  <2>1. CASE \A s \in Used : objs[s].key # q
    <3>1. \A s \in Used' : objs'[s].key # q
      BY <2>1 DEF Kept
    <3> QED
      BY <2>1, <3>1 DEF SeesObjects
  <2>2. ASSUME NEW s \in Used, objs[s].key = q PROVE Visible'[q] = Visible[q]
    BY <2>2 DEF SeesObjects, Kept
  <2> QED
    BY <2>1, <2>2
<1> QED
  BY <1>1 DEF SeesObjects

\* On an empty disk the map is empty.
LEMMA MapInitially == Init => Map!MapInit
<1> SUFFICES ASSUME Init PROVE Map!MapInit
  OBVIOUS
<1>1. SeesObjects
  BY KVInit, VisibleObjects DEF Inv
<1>2. Used = {}
  BY DEF Init, StoreInit, Used
<1>3. \A k \in Keys : Visible[k] = NoValue
  BY <1>1, <1>2 DEF SeesObjects
<1>4. Visible = [k \in Keys |-> NoValue]
  BY <1>1, <1>3 DEF SeesObjects
<1>5. Busy = {}
  BY DEF Busy, InUse, Init
<1> QED
  BY <1>4, <1>5 DEF Init, Map!MapInit

\* A call that opens a key makes it busy; a call that ends may free its key.
LEMMA BusyChanges ==
  ASSUME Inv, NEW c \in Clients
  PROVE  /\ UNCHANGED <<fh, key>> => Busy' = Busy
         /\ \A k \in Keys : \A h :
              /\ pc[c] = "idle" /\ h # 0
              /\ fh' = [fh EXCEPT ![c] = h] /\ key' = [key EXCEPT ![c] = k]
              => Busy' = Busy \cup {k}
         /\ /\ pc[c] # "idle"
            /\ fh' = [fh EXCEPT ![c] = 0] /\ key' = [key EXCEPT ![c] = NoKey]
            => key[c] \in Busy /\ Busy' \in {Busy, Busy \ {key[c]}}
<1>1. /\ fh \in [Clients -> {0} \cup Ids] /\ key \in [Clients -> Keys \cup {NoKey}]
      /\ \A d \in Clients : pc[d] = "idle" <=> fh[d] = 0
  BY DEF Inv, TypeOK, ClientInv
<1>2. UNCHANGED <<fh, key>> => Busy' = Busy
  BY DEF Busy, InUse
<1>3. ASSUME NEW k \in Keys, NEW h, pc[c] = "idle", h # 0,
             fh' = [fh EXCEPT ![c] = h], key' = [key EXCEPT ![c] = k]
      PROVE  Busy' = Busy \cup {k}
  <2>1. fh[c] = 0 /\ fh'[c] # 0 /\ key'[c] = k
    BY <1>1, <1>3
  <2>2. \A d \in Clients \ {c} : fh'[d] = fh[d] /\ key'[d] = key[d]
    BY <1>1, <1>3
  <2> QED
    BY <2>1, <2>2 DEF Busy, InUse
<1>4. ASSUME pc[c] # "idle", fh' = [fh EXCEPT ![c] = 0], key' = [key EXCEPT ![c] = NoKey]
      PROVE  key[c] \in Busy /\ Busy' \in {Busy, Busy \ {key[c]}}
  <2>1. fh[c] # 0 /\ key[c] \in Keys /\ fh'[c] = 0
    BY <1>1, <1>4, HandleSlot
  <2>2. \A d \in Clients \ {c} : fh'[d] = fh[d] /\ key'[d] = key[d]
    BY <1>1, <1>4
  <2>3. key[c] \in Busy
    BY <2>1 DEF Busy, InUse
  <2>4. \A k \in Keys : k # key[c] => (k \in Busy' <=> k \in Busy)
    BY <2>1, <2>2 DEF Busy, InUse
  <2>5. Busy' \subseteq Keys /\ Busy \subseteq Keys
    BY DEF Busy
  <2> QED
    BY <2>3, <2>4, <2>5
<1> QED
  BY <1>2, <1>3, <1>4

\* The cardinality that ValueMap counts with.
LEMMA MapCardinality == Map!Cardinality(Map!Present) = Cardinality(Map!Present)
BY DEF Map!Cardinality, Cardinality

\* A key is found exactly if it is present, and getattr answers with the length
\* of its value.
LEMMA Lookup ==
  ASSUME StoreInv, NEW k \in Keys
  PROVE  /\ find_object_id(k) >= 0 <=> k \in Map!Present
         /\ find_object_id(k) < 0 <=> k \notin Map!Present
         /\ objfs_getattr(k) = IF k \in Map!Present THEN Len(Visible[k]) ELSE "failed"
<1>1. find_object_id(k) >= 0 <=> k \in Map!Present
  BY FindKey, PresentKeys
<1>2. CASE \A s \in Used : objs[s].key # k
  <2>1. find_object_id(k) = -1
    BY <1>2, FindKey
  <2> QED
    BY <1>1, <2>1 DEF objfs_getattr
<1>3. ASSUME NEW s \in Used, objs[s].key = k
      PROVE  /\ find_object_id(k) < 0 <=> k \notin Map!Present
             /\ objfs_getattr(k) = IF k \in Map!Present THEN Len(Visible[k])
                                   ELSE "failed"
  <2>1. find_object_id(k) = s + 2 /\ s \in Slots /\ Slot(s + 2) = s /\ s + 2 >= 0
    BY <1>3, FindKey, SlotIds DEF Used
  <2>2. Len(Visible[k]) = objs[s].size
    BY <1>3, <2>1, VisibleIs, StoreFields
  <2>3. k \in Map!Present /\ ~(find_object_id(k) < 0)
    BY <1>1, <2>1, SlotIds
  <2> QED
    BY <2>1, <2>2, <2>3 DEF objfs_getattr, SizeOf
<1> QED
  BY <1>1, <1>2, <1>3

\* Every step maps to a step of ValueMap with the same answer.
LEMMA MapStep == Inv /\ Inv' /\ [Next]_vars => [Map!MapNext]_<<Visible, Busy, reply>>
<1> SUFFICES ASSUME Inv, Inv', [Next]_vars
             PROVE  Map!MapNext \/ UNCHANGED <<Visible, Busy, reply>>
  OBVIOUS
<1>a. StoreInv /\ StoreInv'
  BY DEF Inv
<1>b. SeesObjects
  BY <1>a, VisibleObjects
<1>c. SeesObjects'
  <2>1. (StoreInv => SeesObjects)'
    BY VisibleObjects, PTL
  <2> QED
    BY <1>a, <2>1
<1>d. UNCHANGED storevars => Visible' = Visible
  BY <1>a, <1>b, <1>c, NoEffect, VisibleSame DEF Used
<1>e. \A c \in Clients : UNCHANGED <<fh, key>> => Busy' = Busy
  BY BusyChanges
<1>1. ASSUME NEW c \in Clients, NEW k \in Keys, lookup_key(c, k) PROVE Map!MapNext
  <2>1. /\ reply' = <<"stat", k, objfs_getattr(k)>> /\ UNCHANGED storevars
        /\ Busy' = Busy
    BY <1>1, <1>e DEF lookup_key, Answer
  <2>2. Map!Stat(k)
    BY <1>a, <1>d, <2>1, Lookup DEF Map!Stat
  <2> QED
    BY <2>2 DEF Map!MapNext
<1>2. ASSUME NEW c \in Clients, NEW k \in Keys, rename_key(c, k) \/ delete_refused(c, k)
      PROVE  Map!MapNext
  <2>1. UNCHANGED storevars /\ Busy' = Busy
    BY <1>2, <1>e DEF rename_key, delete_refused, Answer
  <2>2. CASE rename_key(c, k)
    <3>1. reply' = <<"rename", k, "failed">>
      BY <2>2 DEF rename_key, Answer
    <3> QED
      BY <1>d, <2>1, <3>1 DEF Map!RenameFails, Map!MapNext
  <2>3. CASE delete_refused(c, k)
    <3>1. reply' = <<"unlink", k, "failed">> /\ ~Unlinkable(k)
      BY <2>3 DEF delete_refused, Answer
    <3>2. k \notin Map!Present \/ k \in Busy
      BY <1>a, <3>1, Lookup DEF Unlinkable, Busy
    <3> QED
      BY <1>d, <2>1, <3>1, <3>2 DEF Map!DeleteFails, Map!MapNext
  <2> QED
    BY <1>2, <2>2, <2>3
<1>3. ASSUME NEW c \in Clients, NEW k \in Keys, put_refused(c, k) PROVE Map!MapNext
  <2>1. /\ reply' = <<"create", k, "failed">> /\ UNCHANGED storevars
        /\ (find_object_id(k) >= 0 \/ FreeSlots = {}) /\ Busy' = Busy
    BY <1>3, <1>e DEF put_refused, Answer
  <2>2. k \in Map!Present \/ Cardinality(Map!Present) >= MAX_OBJS
    <3>1. CASE find_object_id(k) >= 0
      BY <1>a, <3>1, Lookup
    <3>2. CASE FreeSlots = {}
      BY <1>a, <3>2, PresentKeys, ExampleAssumptions
    <3> QED
      BY <2>1, <3>1, <3>2
  <2>3. Map!CreateFails(k)
    BY <1>d, <2>1, <2>2, MapCardinality DEF Map!CreateFails
  <2> QED
    BY <2>3 DEF Map!MapNext
<1>4. ASSUME NEW c \in Clients, NEW k \in Keys, get_open(c, k) \/ get_refused(c, k)
      PROVE  Map!MapNext
  <2>1. CASE get_open(c, k)
    <3>1. reply' = <<"open", k, "ok">> /\ UNCHANGED storevars /\ k \in Map!Present
      BY <1>a, <2>1, Lookup DEF get_open
    <3>2. PICK s \in Used : objs[s].key = k
      BY <1>a, <2>1, FindKey DEF get_open
    <3>3. find_object_id(k) # 0
      BY <1>a, <3>2, FindKey, SlotIds DEF Used
    <3>4. Busy' = Busy \cup {k}
      BY <2>1, <3>3, BusyChanges DEF get_open, Idle
    <3> QED
      BY <1>d, <3>1, <3>4 DEF Map!Open, Map!MapNext
  <2>2. CASE get_refused(c, k)
    <3>1. /\ reply' = <<"open", k, "failed">> /\ UNCHANGED storevars
          /\ k \notin Map!Present /\ Busy' = Busy
      BY <1>a, <1>e, <2>2, Lookup DEF get_refused, Answer
    <3> QED
      BY <1>d, <3>1 DEF Map!OpenFails, Map!MapNext
  <2> QED
    BY <1>4, <2>1, <2>2
<1>5. ASSUME NEW c \in Clients, get_stat(c) PROVE Map!MapNext
  <2>1. /\ reply' = <<"stat", key[c], objfs_getattr(key[c])>>
        /\ UNCHANGED storevars /\ key[c] \in Keys /\ Busy' = Busy
    BY <1>5, <1>e, HandleSlot DEF get_stat
  <2>2. Map!Stat(key[c])
    BY <1>a, <1>d, <2>1, Lookup DEF Map!Stat
  <2> QED
    BY <2>1, <2>2 DEF Map!MapNext
<1>6. ASSUME NEW c \in Clients, close(c) PROVE Map!MapNext
  <2>1. /\ reply' = <<"close">> /\ UNCHANGED storevars /\ pc[c] # "idle"
        /\ fh' = [fh EXCEPT ![c] = 0] /\ key' = [key EXCEPT ![c] = NoKey]
    BY <1>6 DEF close
  <2>2. key[c] \in Keys /\ key[c] \in Busy /\ Busy' \in {Busy, Busy \ {key[c]}}
    BY <2>1, BusyChanges, HandleSlot
  <2>3. Map!Close(key[c])
    BY <1>d, <2>1, <2>2 DEF Map!Close
  <2> QED
    BY <2>2, <2>3 DEF Map!MapNext
<1>7. ASSUME NEW c \in Clients, get_read(c) PROVE Map!MapNext
  <2>1. PICK s \in Used : s = Slot(fh[c]) /\ fh[c] = s + 2
    BY <1>7, HandleSlot DEF get_read
  <2>2. mounted /\ HandleOK(fh[c]) /\ objs[s].key = key[c] /\ key[c] \in Keys
    BY <1>7, <2>1, HandleSlot DEF get_read
  <2>3. /\ objstore_read(s + 2)
        /\ reply' = <<"read", key[c], SubSeq(ReadBlock(s + 2), 1, SizeOf(s + 2))>>
    BY <1>7, <2>1, <2>2 DEF get_read
  <2>4. /\ Used' = Used /\ \A r \in Slots : Kept(r)
        /\ SubSeq(ReadBlock(s + 2), 1, SizeOf(s + 2)) = Contents(s)
    BY <1>a, <2>2, <2>3, ReadEffect
  <2>5. Visible' = Visible
    BY <1>b, <1>c, <2>4, VisibleSame DEF Used
  <2>6. Visible[key[c]] = Contents(s) /\ key[c] \in Map!Present
    BY <1>a, <1>b, <2>2, PresentKeys DEF SeesObjects
  <2>7. reply' = <<"read", key[c], Visible[key[c]]>>
    BY <2>3, <2>4, <2>6
  <2>8. Busy' = Busy
    BY <1>7, <1>e DEF get_read
  <2>9. Map!Get(key[c])
    BY <2>5, <2>6, <2>7, <2>8 DEF Map!Get
  <2> QED
    BY <2>2, <2>9 DEF Map!MapNext
<1>8. ASSUME NEW c \in Clients, put_write(c) PROVE Map!MapNext
  <2>1. PICK s \in Used : s = Slot(fh[c]) /\ fh[c] = s + 2
    BY <1>8, HandleSlot DEF put_write
  <2>2. /\ mounted /\ HandleOK(fh[c]) /\ objs[s].key = key[c] /\ key[c] \in Keys
        /\ val[c] \in Values /\ val[c] \in Seq(Bytes)
    BY <1>8, <2>1, HandleSlot, ClientsAssumptions DEF put_write, Inv, ClientInv
  <2>3. objstore_write(s + 2, val[c]) /\ reply' = <<"write", key[c], "ok">>
    BY <1>8, <2>1, <2>2 DEF put_write
  <2>4. /\ Used' = Used /\ objs'[s].key = objs[s].key /\ Contents(s)' = val[c]
        /\ \A r \in Slots \ {s} : Kept(r)
    BY <1>a, <2>2, <2>3, WriteEffect
  <2>5. Visible'[key[c]] = val[c]
    BY <1>c, <2>2, <2>4 DEF SeesObjects
  <2>6. Visible' = [Visible EXCEPT ![key[c]] = val[c]]
    <3>1. /\ \A r \in Used : objs[r].key # key[c] => r \in Used' /\ Kept(r)
          /\ \A r \in Used' : objs'[r].key # key[c] => r \in Used /\ Kept(r)
      BY <2>2, <2>4 DEF Used
    <3> QED
      BY <1>b, <1>c, <2>2, <2>5, <3>1, VisibleChanged
  <2>7. key[c] \in Map!Present
    BY <1>a, <2>2, PresentKeys
  <2>8. Busy' = Busy
    BY <1>8, <1>e DEF put_write
  <2>9. Map!Set(key[c], val[c])
    BY <2>3, <2>6, <2>7, <2>8 DEF Map!Set
  <2> QED
    BY <2>2, <2>9 DEF Map!MapNext
<1>9. ASSUME NEW c \in Clients, NEW k \in Keys, NEW v \in Values, put_open(c, k, v)
      PROVE  Map!MapNext
  <2>1. PICK s : s = Min(FreeSlots)
    OBVIOUS
  <2>2. /\ mounted /\ Matches(objs, k) = {} /\ create_object(k) /\ FreeSlots # {}
        /\ reply' = <<"create", k, "ok">>
    BY <1>9 DEF put_open, Idle, create_object
  <2>3. /\ s \in Slots /\ s \notin Used /\ Used' = Used \cup {s}
        /\ objs'[s].key = k /\ Contents(s)' = <<>>
        /\ \A r \in Slots \ {s} : Kept(r)
    BY <1>a, <2>1, <2>2, CreateEffect
  <2>4. k \notin Map!Present /\ Cardinality(Map!Present) < MAX_OBJS
    <3>1. \A r \in Used : objs[r].key # k
      BY <1>a, <2>2, FindKey
    <3> QED
      BY <1>a, <2>2, <3>1, PresentKeys
  <2>5. Visible'[k] = <<>>
    BY <1>c, <2>3 DEF SeesObjects
  <2>6. Visible' = [Visible EXCEPT ![k] = <<>>]
    <3>1. /\ \A r \in Used : objs[r].key # k => r \in Used' /\ Kept(r)
          /\ \A r \in Used' : objs'[r].key # k => r \in Used /\ Kept(r)
      BY <2>3 DEF Used
    <3> QED
      BY <1>b, <1>c, <2>5, <3>1, VisibleChanged
  <2>7. Busy' = Busy \cup {k}
    <3>1. new_id(s) # 0
      BY <2>3, SlotIds DEF new_id
    <3> QED
      BY <1>9, <2>1, <3>1, BusyChanges DEF put_open, Idle
  <2>8. Map!Create(k)
    BY <2>2, <2>4, <2>6, <2>7, MapCardinality DEF Map!Create
  <2> QED
    BY <2>8 DEF Map!MapNext
<1>10. ASSUME NEW c \in Clients, NEW k \in Keys, delete_key(c, k) PROVE Map!MapNext
  <2>1. /\ mounted /\ find_object_id(k) >= 0 /\ destroy_object(k)
        /\ reply' = <<"unlink", k, "ok">> /\ k \notin Busy /\ Busy' = Busy
    BY <1>10, <1>e DEF delete_key, Idle, Unlinkable, Busy
  <2>2. PICK s \in Used : objs[s].key = k
    BY <1>a, <2>1, FindKey
  <2>3. Used' = Used \ {s} /\ \A r \in Slots \ {s} : Kept(r)
    BY <1>a, <2>1, <2>2, DestroyEffect
  <2>4. k \in Map!Present
    BY <1>a, <2>1, Lookup
  <2>5. \A r \in Used' : r \in Used /\ Kept(r) /\ objs'[r].key # k
    <3>1. \A r \in Used' : r \in Used /\ Kept(r) /\ r # s
      BY <2>3 DEF Used
    <3> QED
      BY <1>a, <2>2, <3>1 DEF Kept, StoreInv, TableInv
  <2>6. Visible'[k] = NoValue
    BY <1>c, <2>5 DEF SeesObjects
  <2>7. Visible' = [Visible EXCEPT ![k] = NoValue]
    <3>1. \A r \in Used : objs[r].key # k => r \in Used' /\ Kept(r)
      BY <2>2, <2>3 DEF Used
    <3> QED
      BY <1>b, <1>c, <2>5, <2>6, <3>1, VisibleChanged
  <2>8. Map!Delete(k)
    BY <2>1, <2>4, <2>7 DEF Map!Delete
  <2> QED
    BY <2>8 DEF Map!MapNext
<1>11. ASSUME objfs_destroy \/ objfs_init PROVE Map!MapNext
  <2>1. Used' = Used /\ \A s \in Slots : Kept(s)
    BY <1>11, <1>a, UnmountEffect, MountEffect DEF objfs_destroy, objfs_init
  <2>2. Visible' = Visible
    BY <1>b, <1>c, <2>1, VisibleSame DEF Used
  <2>3. Busy' = Busy
    BY <1>11 DEF objfs_destroy, objfs_init, Busy, InUse
  <2>4. CASE objfs_destroy
    <3>1. Busy = {} /\ reply' = <<"unmount">>
      BY <2>4 DEF objfs_destroy, Busy, InUse
    <3> QED
      BY <2>2, <2>3, <3>1 DEF Map!Unmount, Map!MapNext
  <2>5. CASE objfs_init
    <3>1. reply' = <<"mount">>
      BY <2>5 DEF objfs_init
    <3> QED
      BY <2>2, <2>3, <3>1 DEF Map!Mount, Map!MapNext
  <2> QED
    BY <1>11, <2>4, <2>5
<1>12. ASSUME UNCHANGED vars PROVE UNCHANGED <<Visible, Busy, reply>>
  <2>1. Busy' = Busy
    BY <1>12 DEF vars, Busy, InUse
  <2> QED
    BY <1>12, <1>d, <2>1 DEF vars
<1> QED
  BY <1>1, <1>2, <1>3, <1>4, <1>5, <1>6, <1>7, <1>8, <1>9, <1>10, <1>11, <1>12
  DEF Next

\* To its clients the example store is a persistent map of whole values, across
\* unmounts and whichever build mounts the disk.
THEOREM KVImplementsMap == Spec => ImplementsMap
BY MapInitially, MapStep, KVInvariance, PTL DEF Spec, ImplementsMap, Map!MapSpec
=============================================================================
