--------------------------- MODULE ObjStoreProofs ---------------------------
(***************************************************************************)
(* Proofs about the object store, for every number of inodes, pointers,    *)
(* blocks and slots, with and without the cache.                           *)
(***************************************************************************)
EXTENDS ObjStore, FiniteSetTheorems, NaturalsInduction, TLAPS

\* The lemmas about CacheOps.  They mention no variable, so it does not matter
\* what stands for those of BlockCache.
BC == INSTANCE BlockCacheProofs
        WITH last <- call, victim <- c, step <- c, NoBlock <- NoKey

Direct   == 0 .. NDIRECT - 1
Indirect == 0 .. NINDIRECT - 1
Entries  == 0 .. PTRS - 1

\* Without the cache every slot stays empty.
Unused(k) == CACHE \/ \A q \in Slots : k.index[q] = -1

Coherent(k) == k \in Caches /\ CacheOK(k) /\ Unused(k)

\* The inode on disk has the pointers of the one in memory, or is written at
\* unmount.
PointersCovered ==
  \A s \in Inodes :
    \/ BlockOf(s) \in dirty_array
    \/ /\ a[s].direct = disk_inodes[s].direct
       /\ a[s].indirect = disk_inodes[s].indirect

\* The part of the invariant that holds whatever users do.
BaseInv ==
  /\ TypeOK
  /\ Unused(c)
  /\ mounted => CacheOK(c) /\ PointersCovered

-----------------------------------------------------------------------------
\* Every pointer of every inode, by its place: direct and indirect pointers,
\* and the entries of indirect blocks.
PointerPlaces ==
  (Inodes \X {"direct"} \X Direct \X {0}) \cup
  (Inodes \X {"table"} \X Indirect \X {0}) \cup
  (Inodes \X {"entry"} \X Indirect \X Entries)

Entry(T, f, s, i, j) ==
  IF T[s].indirect[i] = 0 THEN 0 ELSE AsTable(f[T[s].indirect[i]])[j]

\* T is an inode table and f gives every block its contents.
Refs(T, f) ==
  [p \in PointerPlaces |->
     IF p[2] = "direct" THEN T[p[1]].direct[p[3]]
     ELSE IF p[2] = "table" THEN T[p[1]].indirect[p[3]]
     ELSE Entry(T, f, p[1], p[3], p[4])]

\* No block is in two places, and its bit is set.
OwnedOnce(g, bits) ==
  /\ \A p \in PointerPlaces : g[p] # 0 => g[p] - data_block_offset \in bits
  /\ \A p, q \in PointerPlaces : g[p] # 0 /\ g[p] = g[q] => p = q

View == [b \in Blocks |-> block(b)]
Bits == IF mounted THEN data_bitmap ELSE disk_bitmap

\* T the inodes, f the contents of the blocks, bits the bitmap.
Own(T, f, bits) == OwnedOnce(Refs(T, f), bits)

OwnInv == ~damaged => Own(table, View, Bits)

\* Indirect blocks are made in the order of their ranges.
InOrder ==
  \A s \in Inodes, i, k \in Indirect :
    i < k /\ table[s].indirect[k] # 0 => table[s].indirect[i] # 0

\* Block 0 is in no slot.
BitmapUncached == c.index[Slot(0)] # Tag(0)

BitmapInv == CACHE /\ ~Sparse /\ mounted => BitmapUncached

-----------------------------------------------------------------------------
\* A scan in table or bitmap order ends at the first match.
LEMMA FirstOf ==
  ASSUME NEW S \in SUBSET Nat, S # {}
  PROVE  Min(S) \in S /\ \A y \in S : Min(S) <= y
<1>1. PICK Less : Less = {ss \in Nat \X Nat : ss[1] < ss[2]}
  OBVIOUS
<1>2. IsWellFoundedOn(Less, Nat)
  BY <1>1, NatLessThanWellFounded DEF OpToRel
<1>3. \A x, y \in Nat : y < x => <<y, x>> \in Less
  BY <1>1
<1>4. PICK x \in S : \A y \in S : ~(<<y, x>> \in Less)
  BY <1>2, WFMin
<1>5. \A y \in S : x <= y
  <2>1. \A y \in S : y \in Nat /\ x \in Nat /\ ~(y < x)
    BY <1>3, <1>4
  <2> QED
    BY <2>1
<1> QED
  BY <1>5 DEF Min

-----------------------------------------------------------------------------
\* The operators of CacheOps as BlockCacheProofs sees them.
LEMMA SameOps ==
  /\ BC!Caches = Caches
  /\ BC!Slots = Slots
  /\ \A b : BC!Slot(b) = Slot(b) /\ BC!Tag(b) = Tag(b)
  /\ \A k, b : BC!CurrentContents(k, b) = CurrentContents(k, b)
  /\ \A k : BC!CacheOK(k) <=> CacheOK(k)
BY DEF BC!Caches, Caches, BC!Slots, Slots, BC!Slot, Slot, BC!Tag, Tag,
       BC!CurrentContents, CurrentContents, BC!CacheOK, CacheOK, BC!Held, Held

\* The same for the cache functions.
LEMMA SameCalls ==
  ASSUME NEW k, NEW b, NEW v
  PROVE  /\ BC!Evict(k, b) = Evict(k, b)
         /\ BC!cache_blk_read(k, b) = cache_blk_read(k, b)
         /\ BC!cache_blk_write(k, b, v) = cache_blk_write(k, b, v)
         /\ BC!empty_cache(BC!flush(k)) = empty_cache(flush(k))
<1>1. BC!Evict(k, b) = Evict(k, b)
  BY SameOps DEF BC!Evict, Evict, BC!Conflict, Conflict, BC!write_block,
                 write_block, BC!Held, Held
<1>2. BC!cache_blk_read(k, b) = cache_blk_read(k, b)
  BY <1>1, SameOps DEF BC!cache_blk_read, cache_blk_read, BC!Fill, Fill,
                       BC!read_block, read_block
<1>3. BC!cache_blk_write(k, b, v) = cache_blk_write(k, b, v)
  BY <1>1, SameOps DEF BC!cache_blk_write, cache_blk_write, BC!Fill, Fill
<1>4. BC!empty_cache(BC!flush(k)) = empty_cache(flush(k))
  BY SameOps DEF BC!flush, flush, BC!empty_cache, empty_cache, BC!Held, Held
<1> QED
  BY <1>1, <1>2, <1>3, <1>4

\* Block numbers split into slot and tag.
LEMMA SlotTag ==
  ASSUME NEW b \in Blocks
  PROVE  /\ Slot(b) \in Slots
         /\ Tag(b) \in Nat
         /\ \A x \in Blocks : Slot(x) = Slot(b) /\ Tag(x) = Tag(b) => x = b
<1>1. /\ Slot(b) \in Slots /\ Tag(b) \in Nat
      /\ \A x \in Blocks : cache_blks * Tag(x) + Slot(x) = x
  BY BC!SlotTag, SameOps, CacheAssumptions DEF BC!CacheAssumptions
<1> QED
  BY <1>1

\* The fields of a cache.
LEMMA Fields ==
  ASSUME NEW k \in Caches
  PROVE  /\ k.disk \in [Blocks -> Contents]
         /\ k.ptr \in [Slots -> Contents]
         /\ k.index \in [Slots -> Nat \cup {-1}]
         /\ k.dirty \in [Slots -> {0, 1}]
BY DEF Caches

\* What a block holds are contents.
LEMMA ViewType ==
  ASSUME NEW k \in Caches, NEW b \in Blocks
  PROVE  /\ CurrentContents(k, b) \in Contents
         /\ read_block(k, b) \in Contents
BY SlotTag, Fields DEF CurrentContents, read_block

\* r is k after block b got contents v.
Updated(r, k, b, v) ==
  /\ Coherent(r)
  /\ \A x \in Blocks : CurrentContents(r, x) =
                         IF x = b THEN v ELSE CurrentContents(k, x)
  /\ \A x \in Blocks : r.index[Slot(x)] = Tag(x) => x = b \/ k.index[Slot(x)] = Tag(x)

\* An eviction changes nothing but the disk.
LEMMA EvictFields ==
  ASSUME NEW k \in Caches, NEW b \in Blocks
  PROVE  /\ Evict(k, b) \in Caches
         /\ Evict(k, b).ptr = k.ptr
         /\ Evict(k, b).index = k.index
         /\ Evict(k, b).dirty = k.dirty
<1> DEFINE e == Evict(k, b)
           D == [x \in Blocks |-> IF x = Held(k, Slot(b)) THEN k.ptr[Slot(b)]
                                  ELSE k.disk[x]]
<1>s. Slot(b) \in Slots
  BY SlotTag
<1>f. /\ k.disk \in [Blocks -> Contents]
      /\ k.ptr \in [Slots -> Contents]
      /\ k.index \in [Slots -> Nat \cup {-1}]
      /\ k.dirty \in [Slots -> {0, 1}]
  BY Fields
<1>1. CASE e = k
  BY <1>1
<1>2. CASE e # k
  <2>1. e = [k EXCEPT !.disk = D]
    BY <1>2 DEF Evict, write_block
  <2>2. D \in [Blocks -> Contents]
    BY <1>s, <1>f
  <2> HIDE DEF D
  <2>4. /\ e.disk = D /\ e.ptr = k.ptr /\ e.index = k.index /\ e.dirty = k.dirty
        /\ e \in Caches
    BY <2>1, <2>2, <1>f DEF Caches
  <2> QED
    BY <2>4
<1> QED
  BY <1>1, <1>2

\* Filling a slot makes one block cached.
LEMMA FillCached ==
  ASSUME NEW k \in Caches, NEW b \in Blocks, NEW v \in Contents, NEW d
  PROVE  LET r == Fill(k, Slot(b), v, Tag(b), d) IN
         \A x \in Blocks : r.index[Slot(x)] = Tag(x)
                             => x = b \/ k.index[Slot(x)] = Tag(x)
<1> DEFINE r == Fill(k, Slot(b), v, Tag(b), d)
<1>1. r.index = [k.index EXCEPT ![Slot(b)] = Tag(b)]
  BY DEF Fill
<1>2. Slot(b) \in Slots /\ k.index \in [Slots -> Nat \cup {-1}]
  BY SlotTag, Fields
<1> HIDE DEF r
<1>5. ASSUME NEW x \in Blocks, r.index[Slot(x)] = Tag(x)
      PROVE  x = b \/ k.index[Slot(x)] = Tag(x)
  <2>1. Slot(x) \in Slots
    BY SlotTag
  <2>2. CASE Slot(x) = Slot(b)
    BY <1>1, <1>2, <1>5, <2>2, SlotTag
  <2>3. CASE Slot(x) # Slot(b)
    BY <1>1, <1>2, <1>5, <2>1, <2>3
  <2> QED
    BY <2>2, <2>3
<1> QED
  BY <1>5 DEF r

\* Writing a block changes the contents of that block and of no other, with the
\* cache and without.
LEMMA BlkWrite ==
  ASSUME NEW k, Coherent(k), NEW b \in Blocks, NEW v \in Contents
  PROVE  Updated(blk_write(k, b, v), k, b, v)
<1>k. k \in Caches /\ CacheOK(k) /\ Unused(k)
  BY DEF Coherent
<1>1. CASE CACHE
  <2> DEFINE r == cache_blk_write(k, b, v)
  <2>1. blk_write(k, b, v) = r
    BY <1>1 DEF blk_write
  <2>2. /\ r \in Caches
        /\ CacheOK(r)
        /\ \A x \in Blocks : CurrentContents(r, x) =
                              IF x = b THEN v ELSE CurrentContents(k, x)
    <3>1. r = BC!cache_blk_write(k, b, v)
      BY SameCalls
    <3>2. BC!CacheOK(k) /\ k \in BC!Caches
      BY <1>k, SameOps
    <3>3. LET z == BC!cache_blk_write(k, b, v) IN
          /\ z \in BC!Caches
          /\ BC!CacheOK(z)
          /\ \A x \in Blocks : BC!CurrentContents(z, x) =
                                IF x = b THEN v ELSE BC!CurrentContents(k, x)
      BY <3>2, BC!WriteLemma, CacheAssumptions DEF BC!CacheAssumptions
    <3> QED
      BY <3>1, <3>3, SameOps
  <2>3. /\ Evict(k, b) \in Caches
        /\ Evict(k, b).index = k.index
    BY <1>k, EvictFields
  <2>4. \A x \in Blocks : r.index[Slot(x)] = Tag(x)
          => x = b \/ Evict(k, b).index[Slot(x)] = Tag(x)
    BY <2>3, FillCached DEF cache_blk_write
  <2> HIDE DEF r
  <2> QED
    BY <1>1, <2>1, <2>2, <2>3, <2>4 DEF Updated, Coherent, Unused
<1>2. CASE ~CACHE
  <2> DEFINE D == [x \in Blocks |-> IF x = b THEN v ELSE k.disk[x]]
             r == [k EXCEPT !.disk = D]
  <2>1. blk_write(k, b, v) = r
    BY <1>2 DEF blk_write, write_block
  <2>f. /\ k.disk \in [Blocks -> Contents]
        /\ k.ptr \in [Slots -> Contents]
        /\ k.index \in [Slots -> Nat \cup {-1}]
        /\ k.dirty \in [Slots -> {0, 1}]
    BY <1>k, Fields
  <2>2. /\ D \in [Blocks -> Contents]
        /\ \A x \in Blocks : D[x] = IF x = b THEN v ELSE k.disk[x]
    BY <2>f
  <2> HIDE DEF D
  <2>3. /\ r.disk = D /\ r.ptr = k.ptr /\ r.index = k.index /\ r.dirty = k.dirty
        /\ r \in Caches
    BY <1>k, <2>2, <2>f DEF Caches
  <2> HIDE DEF r
  <2>4. \A q \in Slots : k.index[q] = -1
    BY <1>2, <1>k DEF Unused
  <2>5. CacheOK(r) /\ Unused(r)
    BY <1>k, <2>3, <2>4 DEF CacheOK, Unused
  <2>6. \A x \in Blocks : /\ CurrentContents(r, x) = D[x]
                           /\ CurrentContents(k, x) = k.disk[x]
    BY <2>3, <2>4, SlotTag DEF CurrentContents
  <2> QED
    BY <2>1, <2>2, <2>3, <2>5, <2>6 DEF Updated, Coherent
<1> QED
  BY <1>1, <1>2

\* Reading a block changes the contents of none.
LEMMA BlkRead ==
  ASSUME NEW k, Coherent(k), NEW b \in Blocks
  PROVE  Updated(blk_read(k, b), k, b, CurrentContents(k, b))
<1>k. k \in Caches /\ CacheOK(k) /\ Unused(k)
  BY DEF Coherent
<1>v. CurrentContents(k, b) \in Contents
  BY <1>k, ViewType
<1>1. CASE blk_read(k, b) = k
  BY <1>1, <1>k, <1>v DEF Updated, Coherent
<1>2. CASE blk_read(k, b) # k
  <2> DEFINE r == cache_blk_read(k, b)
             e == Evict(k, b)
  <2>1. CACHE /\ blk_read(k, b) = r /\ k.index[Slot(b)] # Tag(b)
    BY <1>2 DEF blk_read, cache_blk_read
  <2>2. /\ r \in Caches
        /\ CacheOK(r)
        /\ r.ptr[Slot(b)] = CurrentContents(k, b)
        /\ \A x \in Blocks : CurrentContents(r, x) = CurrentContents(k, x)
    <3>1. r = BC!cache_blk_read(k, b)
      BY SameCalls
    <3>2. BC!CacheOK(k) /\ k \in BC!Caches
      BY <1>k, SameOps
    <3>3. LET z == BC!cache_blk_read(k, b) IN
          /\ z \in BC!Caches
          /\ BC!CacheOK(z)
          /\ z.ptr[BC!Slot(b)] = BC!CurrentContents(k, b)
          /\ \A x \in Blocks : BC!CurrentContents(z, x) = BC!CurrentContents(k, x)
      BY <3>2, BC!ReadLemma, CacheAssumptions DEF BC!CacheAssumptions
    <3> QED
      BY <3>1, <3>3, SameOps
  <2>3. /\ e \in Caches
        /\ e.index = k.index
    BY <1>k, EvictFields
  <2>4. r = Fill(e, Slot(b), e.disk[b], Tag(b), e.dirty[Slot(b)])
    BY <2>1 DEF cache_blk_read, read_block
  <2>5. e.disk[b] \in Contents
    BY <2>3, Fields
  <2> HIDE DEF e
  <2>6. \A x \in Blocks : r.index[Slot(x)] = Tag(x)
                             => x = b \/ e.index[Slot(x)] = Tag(x)
    BY <2>3, <2>4, <2>5, FillCached
  <2> HIDE DEF r
  <2> QED
    BY <2>1, <2>2, <2>3, <2>6 DEF Updated, Coherent, Unused
<1> QED
  BY <1>1, <1>2

\* Forgetting blocks changes the contents of no other block.
LEMMA Forget ==
  ASSUME NEW k, Coherent(k), NEW bs \in SUBSET Blocks
  PROVE  LET r == InvalidateAll(k, bs) IN
         /\ Coherent(r)
         /\ \A x \in Blocks \ bs : CurrentContents(r, x) = CurrentContents(k, x)
         /\ \A x \in Blocks : r.index[Slot(x)] = Tag(x) => k.index[Slot(x)] = Tag(x)
<1>k. k \in Caches /\ CacheOK(k) /\ Unused(k)
  BY DEF Coherent
<1> DEFINE r == InvalidateAll(k, bs)
           hit(q) == \E b \in bs : Slot(b) = q /\ k.index[q] = Tag(b)
           I == [q \in Slots |-> IF hit(q) THEN -1 ELSE k.index[q]]
           Z == [q \in Slots |-> IF hit(q) THEN 0 ELSE k.dirty[q]]
<1>f. /\ k.disk \in [Blocks -> Contents]
      /\ k.ptr \in [Slots -> Contents]
      /\ k.index \in [Slots -> Nat \cup {-1}]
      /\ k.dirty \in [Slots -> {0, 1}]
  BY <1>k, Fields
<1>1. r = [k EXCEPT !.index = I, !.dirty = Z]
  BY <1>k DEF InvalidateAll, Caches
<1>2. /\ I \in [Slots -> Nat \cup {-1}]
      /\ Z \in [Slots -> {0, 1}]
  BY <1>f
<1>3. \A q \in Slots : /\ I[q] = IF hit(q) THEN -1 ELSE k.index[q]
                       /\ Z[q] = IF hit(q) THEN 0 ELSE k.dirty[q]
  OBVIOUS
<1> HIDE DEF I, Z
<1>4. /\ r.disk = k.disk /\ r.ptr = k.ptr /\ r.index = I /\ r.dirty = Z
      /\ r \in Caches
  BY <1>k, <1>1, <1>2, <1>f DEF Caches
<1> HIDE DEF r
<1>5. CacheOK(r)
  <2> SUFFICES ASSUME NEW q \in Slots
               PROVE  IF r.index[q] = -1 THEN r.dirty[q] = 0
                      ELSE /\ Held(r, q) \in Blocks
                           /\ r.dirty[q] = 0 => r.ptr[q] = r.disk[Held(r, q)]
    BY DEF CacheOK
  <2>1. CASE hit(q)
    BY <1>3, <1>4, <2>1
  <2>2. CASE ~hit(q)
    <3>1. r.index[q] = k.index[q] /\ r.dirty[q] = k.dirty[q] /\ Held(r, q) = Held(k, q)
      BY <1>3, <1>4, <2>2 DEF Held
    <3> QED
      BY <1>k, <1>4, <3>1 DEF CacheOK
  <2> QED
    BY <2>1, <2>2
<1>6. ASSUME NEW x \in Blocks, x \notin bs
      PROVE  CurrentContents(r, x) = CurrentContents(k, x)
  <2>1. Slot(x) \in Slots /\ Tag(x) # -1
    BY SlotTag
  <2>2. r.index[Slot(x)] = Tag(x) <=> k.index[Slot(x)] = Tag(x)
    BY <1>3, <1>4, <1>6, <2>1, SlotTag
  <2> QED
    BY <1>4, <2>2 DEF CurrentContents
<1>8. ASSUME NEW x \in Blocks, r.index[Slot(x)] = Tag(x)
      PROVE  k.index[Slot(x)] = Tag(x)
  BY <1>3, <1>4, <1>8, SlotTag
<1>9. Unused(r)
  BY <1>k, <1>3, <1>4 DEF Unused
<1> QED
  BY <1>4, <1>5, <1>6, <1>8, <1>9 DEF r, Coherent

\* A slot that is in use holds the block its tag says.
LEMMA HeldIs ==
  ASSUME NEW k \in Caches, NEW x \in Blocks, k.index[Slot(x)] # -1
  PROVE  Held(k, Slot(x)) = x <=> k.index[Slot(x)] = Tag(x)
<1>1. BC!Held(k, Slot(x)) = Held(k, Slot(x))
  BY DEF BC!Held, Held
<1>2. k \in BC!Caches /\ Slot(x) \in BC!Slots
  BY SlotTag, SameOps
<1>3. BC!Held(k, Slot(x)) = x <=> BC!Slot(x) = Slot(x) /\ k.index[Slot(x)] = BC!Tag(x)
  BY <1>2, BC!HeldBlock, CacheAssumptions DEF BC!CacheAssumptions
<1> QED
  BY <1>1, <1>3, SameOps

\* Unmounting writes the contents of every block but block 0 to the disk, and
\* the inode bitmap to block 0 unless that is cached.
LEMMA Unmount ==
  ASSUME NEW k, Coherent(k), 0 \in Blocks, Bitmap(inode_bitmap) \in Contents
  PROVE  LET r == FlushOrder(k) IN
         /\ r \in Caches /\ Unused(r)
         /\ \A x \in Blocks \ {0} : r.disk[x] = CurrentContents(k, x)
         /\ k.index[Slot(0)] # Tag(0) => r.disk[0] = Bitmap(inode_bitmap)
<1>k. k \in Caches /\ CacheOK(k) /\ Unused(k)
  BY DEF Coherent
<1>f. /\ k.disk \in [Blocks -> Contents]
      /\ k.ptr \in [Slots -> Contents]
      /\ k.index \in [Slots -> Nat \cup {-1}]
      /\ k.dirty \in [Slots -> {0, 1}]
  BY <1>k, Fields
<1> DEFINE v == Bitmap(inode_bitmap)
           W == [x \in Blocks |-> IF x = 0 THEN v ELSE k.disk[x]]
           w == write_block(k, 0, v)
           F == [b \in Blocks |-> IF k.dirty[Slot(b)] = 1 /\ Held(k, Slot(b)) = b
                                  THEN k.ptr[Slot(b)] ELSE W[b]]
           r == FlushOrder(k)
<1> HIDE DEF v
<1>1. /\ w.disk = W /\ w.ptr = k.ptr /\ w.index = k.index /\ w.dirty = k.dirty
      /\ w = [k EXCEPT !.disk = W]
  BY <1>k DEF write_block, Caches
<1>2. r = flush(w)
  BY DEF FlushOrder, v
<1>3. r = [w EXCEPT !.disk = F]
  BY <1>1, <1>2 DEF flush, Held
<1>4. /\ W \in [Blocks -> Contents]
      /\ \A x \in Blocks : W[x] = IF x = 0 THEN v ELSE k.disk[x]
  BY <1>f DEF v
<1> HIDE DEF W, w
<1>5. /\ F \in [Blocks -> Contents]
      /\ \A x \in Blocks : F[x] = IF k.dirty[Slot(x)] = 1 /\ Held(k, Slot(x)) = x
                                  THEN k.ptr[Slot(x)] ELSE W[x]
  BY <1>f, <1>4, SlotTag
<1> HIDE DEF F
<1>6. /\ r.disk = F /\ r.ptr = k.ptr /\ r.index = k.index /\ r.dirty = k.dirty
      /\ r \in Caches
  BY <1>k, <1>1, <1>3, <1>4, <1>5, <1>f DEF Caches
<1> HIDE DEF r
<1>7. Unused(r)
  BY <1>k, <1>6 DEF Unused
<1>8. ASSUME NEW x \in Blocks
      PROVE  /\ x # 0 => F[x] = CurrentContents(k, x)
             /\ x = 0 /\ k.index[Slot(0)] # Tag(0) => F[0] = v
  <2>1. Slot(x) \in Slots /\ Tag(x) \in Nat
    BY SlotTag
  <2>2. CASE k.index[Slot(x)] = -1
    <3>1. k.dirty[Slot(x)] = 0
      BY <1>k, <2>1, <2>2 DEF CacheOK
    <3> QED
      BY <1>4, <1>5, <2>1, <2>2, <3>1 DEF CurrentContents
  <2>3. CASE k.index[Slot(x)] # -1
    <3>1. Held(k, Slot(x)) = x <=> k.index[Slot(x)] = Tag(x)
      BY <1>k, <2>3, HeldIs
    <3>2. k.dirty[Slot(x)] = 0 => k.ptr[Slot(x)] = k.disk[Held(k, Slot(x))]
      BY <1>k, <2>1, <2>3 DEF CacheOK
    <3>3. k.dirty[Slot(x)] \in {0, 1}
      BY <1>f, <2>1
    <3> QED
      BY <1>4, <1>5, <3>1, <3>2, <3>3 DEF CurrentContents
  <2> QED
    BY <2>2, <2>3
<1> QED
  BY <1>6, <1>7, <1>8 DEF r, v

\* Mounting starts with an empty cache over the disk.
LEMMA Mount ==
  ASSUME NEW k \in Caches
  PROVE  LET r == empty_cache(k) IN
         /\ Coherent(r)
         /\ \A x \in Blocks : CurrentContents(r, x) = read_block(k, x)
         /\ \A x \in Blocks : r.index[Slot(x)] # Tag(x)
<1> DEFINE r == empty_cache(k)
<1>f. /\ k.disk \in [Blocks -> Contents]
      /\ k.ptr \in [Slots -> Contents]
  BY Fields
<1>1. r = [disk |-> k.disk, ptr |-> k.ptr,
           index |-> [s \in Slots |-> -1], dirty |-> [s \in Slots |-> 0]]
  BY DEF empty_cache
<1>2. r \in Caches
  BY <1>f, <1>1 DEF Caches
<1>3. /\ r.disk = k.disk /\ r.ptr = k.ptr
      /\ \A q \in Slots : r.index[q] = -1 /\ r.dirty[q] = 0
  BY <1>1
<1> HIDE DEF r
<1>4. CacheOK(r) /\ Unused(r)
  BY <1>3 DEF CacheOK, Unused
<1>5. \A x \in Blocks : /\ r.index[Slot(x)] # Tag(x)
                         /\ CurrentContents(r, x) = read_block(k, x)
  BY <1>3, SlotTag DEF CurrentContents, read_block
<1> QED
  BY <1>2, <1>4, <1>5 DEF r, Coherent

-----------------------------------------------------------------------------
\* Block 0 and the blocks of the data bits.
LEMMA BlockFacts ==
  /\ 0 \in Blocks
  /\ \A d \in 0 .. DATA_BITS - 1 :
       BlockAt(d) \in Blocks /\ BlockAt(d) # 0 /\ BlockAt(d) - data_block_offset = d
  /\ \A b \in Blocks \ {0} : b - data_block_offset \in 0 .. DATA_BITS - 1
BY BlockAssumptions, ObjStoreAssumptions DEF BlockAt

\* What a block can hold.
LEMMA ContentsFacts ==
  /\ Zeros \in Contents
  /\ \A v \in Values : Data(v) \in Contents
  /\ \A set \in SUBSET Inodes : Bitmap(set) \in Contents
  /\ \A p \in [Entries -> Blocks] : Table(p) \in Contents
BY BlockAssumptions DEF Entries

\* What a block read as bitmap or table gives.
LEMMA ContentsRead ==
  ASSUME NEW x \in Contents
  PROVE  /\ x.kind = "bitmap" => x.set \subseteq Inodes
         /\ AsTable(x) \in [Entries -> Blocks]
<1>1. NoPtrs \in [Entries -> Blocks]
  BY BlockFacts DEF NoPtrs, Entries
<1>2. CASE x = Zeros
  BY <1>1, <1>2 DEF Zeros, AsTable
<1>3. ASSUME NEW v \in Values, x = Data(v)
      PROVE  x.kind # "bitmap" /\ AsTable(x) \in [Entries -> Blocks]
  BY <1>1, <1>3 DEF Data, AsTable
<1>4. ASSUME NEW set \in SUBSET Inodes, x = Bitmap(set)
      PROVE  x.set \subseteq Inodes /\ AsTable(x) \in [Entries -> Blocks]
  BY <1>1, <1>4 DEF Bitmap, AsTable
<1>5. ASSUME NEW p \in [Entries -> Blocks], x = Table(p)
      PROVE  x.kind # "bitmap" /\ AsTable(x) \in [Entries -> Blocks]
  BY <1>5 DEF Table, AsTable
<1> QED
  BY <1>2, <1>3, <1>4, <1>5, BlockAssumptions DEF Entries

\* The fields of an inode.
LEMMA InodeFields ==
  ASSUME NEW T \in [Inodes -> Inode], NEW s \in Inodes
  PROVE  /\ T[s].id \in {0} \cup 2 .. INODES + 1
         /\ T[s].size \in Nat
         /\ T[s].key \in Keys \cup {NoKey}
         /\ T[s].direct \in [Direct -> Blocks]
         /\ T[s].indirect \in [Indirect -> Blocks]
BY DEF Inode, Direct, Indirect

\* The inode that was never used or was destroyed.
LEMMA FreeInodeType ==
  /\ FreeInode \in Inode
  /\ \A key \in Keys \cup {NoKey} : [FreeInode EXCEPT !.key = key] \in Inode
BY BlockFacts DEF FreeInode, Inode

\* The free bit that is taken.
LEMMA FreeBlock ==
  ASSUME NEW bm, (0 .. DATA_BITS - 1) \ bm # {}
  PROVE  free_data_block(bm) \in (0 .. DATA_BITS - 1) \ bm
<1>1. (0 .. DATA_BITS - 1) \ bm \in SUBSET Nat
  BY ObjStoreAssumptions
<1> QED
  BY <1>1, FirstOf DEF free_data_block

\* Where there is room for two blocks there is room for a second.
LEMMA TwoFree ==
  ASSUME NEW bm, NEW d \in (0 .. DATA_BITS - 1) \ bm,
         Cardinality((0 .. DATA_BITS - 1) \ bm) >= 2
  PROVE  (0 .. DATA_BITS - 1) \ (bm \cup {d}) # {}
<1> DEFINE S == (0 .. DATA_BITS - 1) \ bm
<1>1. IsFiniteSet(0 .. DATA_BITS - 1)
  BY FS_Interval, ObjStoreAssumptions
<1>2. IsFiniteSet(S)
  BY <1>1, FS_Subset
<1>3. Cardinality(S \ {d}) = Cardinality(S) - 1 /\ Cardinality(S) \in Nat
  BY <1>2, FS_RemoveElement, FS_CardinalityType
<1>4. S \ {d} # {}
  BY <1>3, FS_EmptySet
<1> QED
  BY <1>4

\* A bit is free where a write may start.
LEMMA OneFree ==
  ASSUME NEW bm, Cardinality((0 .. DATA_BITS - 1) \ bm) >= 1
  PROVE  (0 .. DATA_BITS - 1) \ bm # {}
BY FS_EmptySet

-----------------------------------------------------------------------------
\* While mounted the tables in memory are meant.
LEMMA Mounted ==
  mounted => /\ table = a /\ live = inode_bitmap /\ Bits = data_bitmap
             /\ \A b : block(b) = CurrentContents(c, b)
BY DEF table, live, Bits, block

\* After unmounting, those on disk.
LEMMA Unmounted ==
  ~mounted => /\ table = disk_inodes /\ live = SavedBitmap /\ Bits = disk_bitmap
              /\ \A b : block(b) = read_block(c, b)
BY DEF table, live, Bits, block

\* Matching inodes are in the table, and the first is a match.
LEMMA FindObject ==
  ASSUME TypeOK, mounted, NEW key, Matches(key) # {}
  PROVE  /\ find_object_id(key) \in Matches(key)
         /\ find_object_id(key) \in Inodes
         /\ find_object_id(key) \in inode_bitmap
<1>1. Matches(key) \subseteq inode_bitmap /\ inode_bitmap \subseteq Inodes
  BY Mounted DEF Matches, TypeOK
<1>2. Inodes \subseteq Nat
  BY ObjStoreAssumptions DEF Inodes
<1>3. Matches(key) \in SUBSET Nat
  BY <1>1, <1>2
<1>4. find_object_id(key) \in Matches(key)
  BY <1>3, FirstOf DEF find_object_id
<1> QED
  BY <1>1, <1>4

\* The handle of an object leads to an inode.
LEMMA FindTarget ==
  ASSUME TypeOK, mounted, NEW key, Matches(key) # {}
  PROVE  find_target(objfs_open(key)) \in Inodes
<1>1. find_object_id(key) \in Targets(objfs_open(key))
  BY FindObject DEF Targets, objfs_open
<1>2. Targets(objfs_open(key)) \subseteq Inodes
  BY DEF Targets, TypeOK
<1>3. Targets(objfs_open(key)) \in SUBSET Nat
  BY <1>2, ObjStoreAssumptions DEF Inodes
<1> QED
  BY <1>1, <1>2, <1>3, FirstOf DEF find_target

\* Block numbers past the direct ones split into range and position.
LEMMA GroupPos ==
  ASSUME NEW n \in Nat, n >= NDIRECT
  PROVE  /\ Group(n) \in Nat /\ Pos(n) \in Entries
         /\ n = NDIRECT + PTRS * Group(n) + Pos(n)
<1>1. PICK x \in Nat : x = n - NDIRECT
  BY ObjStoreAssumptions
<1>2. x \div PTRS \in Nat /\ x % PTRS \in 0 .. PTRS - 1
      /\ x = PTRS * (x \div PTRS) + (x % PTRS)
  BY ObjStoreAssumptions
<1> QED
  BY <1>1, <1>2, ObjStoreAssumptions DEF Group, Pos, Entries

\* Ranges of block numbers do not overlap.
LEMMA Ranges ==
  ASSUME NEW i \in Nat, NEW k \in Nat
  PROVE  /\ PTRS * i \in Nat
         /\ i < k => PTRS * i + PTRS <= PTRS * k
<1>1. PTRS \in Nat
  BY ObjStoreAssumptions
<1>2. \A x, y \in Nat : x * y \in Nat
  OBVIOUS
<1>3. ASSUME i < k PROVE PTRS * i + PTRS <= PTRS * k
  <2>1. PICK z \in Nat : k = i + 1 + z
    <3>1. k - i - 1 \in Nat /\ k = i + 1 + (k - i - 1)
      BY <1>3
    <3> QED
      BY <3>1
  <2>2. PTRS * z \in Nat
    BY <1>1, <1>2
  <2>3. PTRS * k = PTRS * i + PTRS + PTRS * z
    BY <1>1, <2>1
  <2>4. PTRS * i \in Nat
    BY <1>1, <1>2
  <2> QED
    BY <1>1, <2>2, <2>3, <2>4
<1> QED
  BY <1>1, <1>2, <1>3

\* Block numbers are natural numbers.
LEMMA BlockNoNat ==
  /\ BlockNo \subseteq Nat
  /\ LIMIT \in Nat
BY ObjStoreAssumptions DEF BlockNo, LIMIT

(***************************************************************************)
(* What a write does, in each of its four cases: which blocks get new      *)
(* contents and which blocks are cached.                                   *)
(***************************************************************************)
Wrote(touched) ==
  /\ Coherent(c')
  /\ \A x \in Blocks : c'.index[Slot(x)] = Tag(x)
                         => x \in touched \/ c.index[Slot(x)] = Tag(x)

DirectEffect(s, n, v, d1) ==
  /\ n \in Direct
  /\ Wrote({BlockAt(d1)})
  /\ \A x \in Blocks : CurrentContents(c', x) =
       IF x = BlockAt(d1) THEN Data(v) ELSE CurrentContents(c, x)
  /\ a' = [a EXCEPT ![s].size = @ + 1, ![s].direct[n] = BlockAt(d1)]
  /\ data_bitmap' = data_bitmap \cup {d1}

FirstTable(d2) == [NoPtrs EXCEPT ![0] = BlockAt(d2)]

FirstEffect(s, n, v, d1, d2) ==
  /\ n >= NDIRECT /\ Group(n) \in Indirect /\ Pos(n) = 0
  /\ d2 \in (0 .. DATA_BITS - 1) \ (data_bitmap \cup {d1})
  /\ Wrote({BlockAt(d1), BlockAt(d2)})
  /\ \A x \in Blocks : CurrentContents(c', x) =
       IF x = BlockAt(d2) THEN Data(v)
       ELSE IF x = BlockAt(d1) THEN Table(FirstTable(d2))
       ELSE CurrentContents(c, x)
  /\ a' = [a EXCEPT ![s].size = @ + 1, ![s].indirect[Group(n)] = BlockAt(d1)]
  /\ data_bitmap' = data_bitmap \cup {d1, d2}

NextTable(s, n, d1) ==
  [AsTable(CurrentContents(c, a[s].indirect[Group(n)])) EXCEPT ![Pos(n)] = BlockAt(d1)]

EntryEffect(s, n, v, d1) ==
  LET b == a[s].indirect[Group(n)] IN
  /\ n >= NDIRECT /\ Group(n) \in Indirect /\ Pos(n) \in Entries /\ Pos(n) # 0
  /\ Wrote({b, BlockAt(d1)})
  /\ \A x \in Blocks : CurrentContents(c', x) =
       IF x = BlockAt(d1) THEN Data(v)
       ELSE IF x = b THEN Table(NextTable(s, n, d1))
       ELSE CurrentContents(c, x)
  /\ a' = [a EXCEPT ![s].size = @ + 1]
  /\ data_bitmap' = data_bitmap \cup {d1}

FarEffect(s, n, d1) ==
  /\ n >= NDIRECT /\ Group(n) >= NINDIRECT
  /\ c' = c
  /\ a' = [a EXCEPT ![s].size = @ + 1]
  /\ data_bitmap' = data_bitmap \cup {d1}

WriteEffect(s, n, v, d1) ==
  /\ s \in Inodes
  /\ d1 \in (0 .. DATA_BITS - 1) \ data_bitmap
  /\ Writable(s, n)
  /\ dirty_array' = dirty_array \cup {BlockOf(s)}
  /\ \/ DirectEffect(s, n, v, d1)
     \/ \E d2 : FirstEffect(s, n, v, d1, d2)
     \/ EntryEffect(s, n, v, d1)
     \/ FarEffect(s, n, d1)

\* Two writes in a row.
LEMMA UpdatedTwice ==
  ASSUME NEW k, NEW r, NEW z, NEW b, NEW v, NEW d, NEW w,
         Updated(r, k, b, v), Updated(z, r, d, w)
  PROVE  /\ Coherent(z)
         /\ \A x \in Blocks : z.index[Slot(x)] = Tag(x)
                                => x \in {b, d} \/ k.index[Slot(x)] = Tag(x)
         /\ \A x \in Blocks : CurrentContents(z, x) =
              IF x = d THEN w ELSE IF x = b THEN v ELSE CurrentContents(k, x)
BY DEF Updated

\* A write to an inode's direct block.
LEMMA DirectCase ==
  ASSUME BaseInv, mounted, NEW s \in Inodes, NEW n \in BlockNo, NEW v \in Values,
         NEW d1 \in (0 .. DATA_BITS - 1) \ data_bitmap, WriteDirect(s, n, v, d1)
  PROVE  DirectEffect(s, n, v, d1)
<1>1. Coherent(c)
  BY DEF BaseInv, TypeOK, Coherent
<1>2. BlockAt(d1) \in Blocks /\ Data(v) \in Contents
  BY BlockFacts, ContentsFacts
<1>3. c' = blk_write(c, BlockAt(d1), Data(v))
  BY DEF WriteDirect
<1>4. Updated(c', c, BlockAt(d1), Data(v))
  BY <1>1, <1>2, <1>3, BlkWrite
<1>5. n \in Direct
  BY BlockNoNat, ObjStoreAssumptions DEF WriteDirect, Direct
<1> QED
  BY <1>4, <1>5 DEF Updated, DirectEffect, Wrote, WriteDirect

\* The first block of an indirect range.
LEMMA FirstCase ==
  ASSUME BaseInv, mounted, NEW s \in Inodes, NEW n \in BlockNo, NEW v \in Values,
         NEW d1 \in (0 .. DATA_BITS - 1) \ data_bitmap, WriteFirst(s, n, v, d1),
         Cardinality((0 .. DATA_BITS - 1) \ data_bitmap) >= Needed(n)
  PROVE  \E d2 : FirstEffect(s, n, v, d1, d2)
<1> DEFINE d2 == free_data_block(data_bitmap \cup {d1})
           t  == Table(FirstTable(d2))
           r  == blk_write(c, BlockAt(d1), t)
<1>1. Coherent(c)
  BY DEF BaseInv, TypeOK, Coherent
<1>2. n >= NDIRECT /\ Group(n) < NINDIRECT /\ Pos(n) = 0
  BY DEF WriteFirst
<1>3. d2 \in (0 .. DATA_BITS - 1) \ (data_bitmap \cup {d1})
  <2>1. Cardinality((0 .. DATA_BITS - 1) \ data_bitmap) >= 2
    BY <1>2 DEF Needed
  <2> QED
    BY <2>1, TwoFree, FreeBlock
<1> HIDE DEF d2
<1>4. /\ BlockAt(d1) \in Blocks /\ BlockAt(d2) \in Blocks
      /\ Data(v) \in Contents
  BY <1>3, BlockFacts, ContentsFacts
<1>5. FirstTable(d2) \in [Entries -> Blocks]
  BY <1>4, BlockFacts DEF FirstTable, NoPtrs, Entries
<1>6. t \in Contents
  BY <1>5, ContentsFacts
<1>7. /\ c' = blk_write(r, BlockAt(d2), Data(v))
      /\ a' = [a EXCEPT ![s].size = @ + 1, ![s].indirect[Group(n)] = BlockAt(d1)]
      /\ data_bitmap' = data_bitmap \cup {d1, d2}
  BY DEF WriteFirst, d2, FirstTable
<1> HIDE DEF t, r
<1>8. Updated(r, c, BlockAt(d1), t)
  BY <1>1, <1>4, <1>6, BlkWrite DEF r
<1>9. Updated(c', r, BlockAt(d2), Data(v))
  <2>1. Coherent(r)
    BY <1>8 DEF Updated
  <2> QED
    BY <1>4, <1>7, <2>1, BlkWrite
<1>10. /\ Coherent(c')
       /\ \A x \in Blocks : c'.index[Slot(x)] = Tag(x)
            => x \in {BlockAt(d1), BlockAt(d2)} \/ c.index[Slot(x)] = Tag(x)
       /\ \A x \in Blocks : CurrentContents(c', x) =
            IF x = BlockAt(d2) THEN Data(v)
            ELSE IF x = BlockAt(d1) THEN t ELSE CurrentContents(c, x)
  BY <1>8, <1>9, UpdatedTwice
<1>11. Group(n) \in Indirect
  BY <1>2, GroupPos, BlockNoNat, ObjStoreAssumptions DEF Indirect
<1>12. FirstEffect(s, n, v, d1, d2)
  BY <1>2, <1>3, <1>7, <1>10, <1>11 DEF FirstEffect, Wrote, t
<1> QED
  BY <1>12

\* A further block of an indirect range.
LEMMA EntryCase ==
  ASSUME BaseInv, mounted, NEW s \in Inodes, NEW n \in BlockNo, NEW v \in Values,
         NEW d1 \in (0 .. DATA_BITS - 1) \ data_bitmap, WriteEntry(s, n, v, d1)
  PROVE  EntryEffect(s, n, v, d1)
<1> DEFINE b  == a[s].indirect[Group(n)]
           k1 == blk_read(c, b)
           t  == [AsTable(CurrentContents(k1, b)) EXCEPT ![Pos(n)] = BlockAt(d1)]
           k2 == blk_write(k1, b, Table(t))
<1>1. Coherent(c)
  BY DEF BaseInv, TypeOK, Coherent
<1>2. /\ n >= NDIRECT /\ Group(n) < NINDIRECT /\ Pos(n) # 0
      /\ c' = blk_write(k2, BlockAt(d1), Data(v))
      /\ a' = [a EXCEPT ![s].size = @ + 1]
      /\ data_bitmap' = data_bitmap \cup {d1}
  BY DEF WriteEntry
<1>3. Group(n) \in Indirect /\ Pos(n) \in Entries
  BY <1>2, GroupPos, BlockNoNat, ObjStoreAssumptions DEF Indirect
<1>4. b \in Blocks
  <2>1. a \in [Inodes -> Inode]
    BY DEF BaseInv, TypeOK
  <2>2. a[s].indirect \in [Indirect -> Blocks]
    BY <2>1, InodeFields
  <2> QED
    BY <1>3, <2>2
<1> HIDE DEF b, k1, k2, t
<1>5. Updated(k1, c, b, CurrentContents(c, b))
  BY <1>1, <1>4, BlkRead DEF k1
<1>6. CurrentContents(k1, b) = CurrentContents(c, b)
  BY <1>4, <1>5 DEF Updated
<1>7. BlockAt(d1) \in Blocks /\ Data(v) \in Contents
  BY BlockFacts, ContentsFacts
<1>8. t = NextTable(s, n, d1)
  BY <1>6 DEF t, b, NextTable
<1>9. t \in [Entries -> Blocks] /\ Table(t) \in Contents
  <2>1. CurrentContents(k1, b) \in Contents
    BY <1>4, <1>5, ViewType DEF Updated, Coherent
  <2>2. AsTable(CurrentContents(k1, b)) \in [Entries -> Blocks]
    BY <2>1, ContentsRead
  <2> QED
    BY <1>7, <2>2, ContentsFacts DEF t
<1>10. Updated(k2, k1, b, Table(t))
  <2>1. Coherent(k1)
    BY <1>5 DEF Updated
  <2> QED
    BY <1>4, <1>9, <2>1, BlkWrite DEF k2
<1>11. Updated(c', k2, BlockAt(d1), Data(v))
  <2>1. Coherent(k2)
    BY <1>10 DEF Updated
  <2> QED
    BY <1>2, <1>7, <2>1, BlkWrite
<1>12. /\ Coherent(c')
       /\ \A x \in Blocks : c'.index[Slot(x)] = Tag(x)
            => x \in {b, BlockAt(d1)} \/ k1.index[Slot(x)] = Tag(x)
       /\ \A x \in Blocks : CurrentContents(c', x) =
            IF x = BlockAt(d1) THEN Data(v)
            ELSE IF x = b THEN Table(t) ELSE CurrentContents(k1, x)
  BY <1>10, <1>11, UpdatedTwice
<1>14. ASSUME NEW x \in Blocks
       PROVE  /\ CurrentContents(k1, x) = CurrentContents(c, x)
              /\ k1.index[Slot(x)] = Tag(x) => x = b \/ c.index[Slot(x)] = Tag(x)
  BY <1>5 DEF Updated
<1>15. Wrote({b, BlockAt(d1)})
  <2>1. ASSUME NEW x \in Blocks, c'.index[Slot(x)] = Tag(x)
        PROVE  x \in {b, BlockAt(d1)} \/ c.index[Slot(x)] = Tag(x)
    BY <1>12, <1>14, <2>1
  <2> QED
    BY <1>12, <2>1 DEF Wrote
<1>16. ASSUME NEW x \in Blocks
       PROVE  CurrentContents(c', x) =
                IF x = BlockAt(d1) THEN Data(v)
                ELSE IF x = b THEN Table(t) ELSE CurrentContents(c, x)
  BY <1>12, <1>14
<1> QED
  BY <1>2, <1>3, <1>8, <1>15, <1>16 DEF EntryEffect, b

\* Every write is one of the four.
LEMMA WriteCases ==
  ASSUME BaseInv, NEW key, NEW n \in BlockNo, NEW v \in Values,
         objstore_write(key, n, v)
  PROVE  /\ mounted /\ mounted'
         /\ UNCHANGED <<inode_bitmap, disk_inodes, disk_bitmap, damaged>>
         /\ call' = <<"write", key, n, Data(v)>>
         /\ Matches(key) # {}
         /\ \E d1 : WriteEffect(find_target(objfs_open(key)), n, v, d1)
<1> DEFINE s  == find_target(objfs_open(key))
           d1 == free_data_block(data_bitmap)
<1>1. /\ mounted /\ mounted' = mounted /\ Matches(key) # {}
      /\ Cardinality((0 .. DATA_BITS - 1) \ data_bitmap) >= Needed(n)
      /\ UNCHANGED <<inode_bitmap, disk_inodes, disk_bitmap, damaged>>
      /\ call' = <<"write", key, n, Data(v)>>
  BY DEF objstore_write, kept
<1>2. /\ Writable(s, n)
      /\ dirty_array' = dirty_array \cup {BlockOf(s)}
      /\ \/ WriteDirect(s, n, v, d1)
         \/ WriteFirst(s, n, v, d1)
         \/ WriteEntry(s, n, v, d1)
         \/ WriteTooFar(s, n, v, d1)
  BY DEF objstore_write, DirtyAfterWrite
<1>3. s \in Inodes
  BY <1>1, FindTarget DEF BaseInv
<1>4. d1 \in (0 .. DATA_BITS - 1) \ data_bitmap
  <2>1. Needed(n) \in {1, 2}
    BY DEF Needed
  <2>2. IsFiniteSet((0 .. DATA_BITS - 1) \ data_bitmap)
    <3>1. IsFiniteSet(0 .. DATA_BITS - 1)
      BY FS_Interval, ObjStoreAssumptions
    <3> QED
      BY <3>1, FS_Subset
  <2>3. Cardinality((0 .. DATA_BITS - 1) \ data_bitmap) \in Nat
    BY <2>2, FS_CardinalityType
  <2>4. Cardinality((0 .. DATA_BITS - 1) \ data_bitmap) >= 1
    BY <1>1, <2>1, <2>3
  <2> QED
    BY <2>4, OneFree, FreeBlock
<1> HIDE DEF s, d1
<1>5. CASE WriteDirect(s, n, v, d1)
  BY <1>1, <1>2, <1>3, <1>4, <1>5, DirectCase DEF WriteEffect, s
<1>6. CASE WriteFirst(s, n, v, d1)
  BY <1>1, <1>2, <1>3, <1>4, <1>6, FirstCase DEF WriteEffect, s
<1>7. CASE WriteEntry(s, n, v, d1)
  BY <1>1, <1>2, <1>3, <1>4, <1>7, EntryCase DEF WriteEffect, s
<1>8. CASE WriteTooFar(s, n, v, d1)
  BY <1>1, <1>2, <1>3, <1>4, <1>8 DEF WriteEffect, FarEffect, WriteTooFar, s
<1> QED
  BY <1>2, <1>5, <1>6, <1>7, <1>8

-----------------------------------------------------------------------------
\* The pointers destroy_object finds: those of the inode and, in the copies on
\* disk of its indirect blocks, the entries.
Found(s, g) ==
  \/ \E n \in Direct : g = a[s].direct[n]
  \/ \E i \in Indirect : g = a[s].indirect[i]
  \/ \E i \in Indirect, j \in Entries :
       /\ a[s].indirect[i] # 0 /\ g # 0
       /\ g = AsTable(c.disk[a[s].indirect[i]])[j]

\* gone are the blocks that leave the cache, toggled the bits that change.
DestroyEffect(s, gone, toggled) ==
  /\ s \in inode_bitmap /\ s \in Inodes
  /\ gone \subseteq Blocks
  /\ \A g \in gone : Found(s, g)
  /\ toggled \subseteq Nat
  /\ damaged' = (damaged \/ Hits(s, gone, toggled))
  /\ inode_bitmap' = inode_bitmap \ {s}
  /\ dirty_array' = dirty_array \cup {BlockOf(s)}
  /\ a' = [a EXCEPT ![s] = [FreeInode EXCEPT !.key = a[s].key]]
  /\ data_bitmap' = (data_bitmap \ toggled) \cup (toggled \ data_bitmap)
  /\ Coherent(c')
  /\ \A x \in Blocks \ gone : CurrentContents(c', x) = CurrentContents(c, x)
  /\ \A x \in Blocks : c'.index[Slot(x)] = Tag(x) => c.index[Slot(x)] = Tag(x)

\* Each pointer found is a block.
LEMMA PointersFound ==
  ASSUME TypeOK, NEW s \in Inodes, NEW p \in Pointers(s), p[4] # 0
  PROVE  p[4] \in Blocks /\ Found(s, p[4])
<1>1. a[s].direct \in [Direct -> Blocks] /\ a[s].indirect \in [Indirect -> Blocks]
  <2>1. a \in [Inodes -> Inode]
    BY DEF TypeOK
  <2> QED
    BY <2>1, InodeFields
<1>2. ASSUME NEW i \in Direct, p = <<"direct", i, 0, a[s].direct[i]>>
      PROVE  p[4] \in Blocks /\ Found(s, p[4])
  BY <1>1, <1>2 DEF Found
<1>3. ASSUME NEW i \in Indirect, p = <<"indirect", i, 0, a[s].indirect[i]>>
      PROVE  p[4] \in Blocks /\ Found(s, p[4])
  BY <1>1, <1>3 DEF Found
<1>4. ASSUME NEW i \in Indirect, NEW j \in Entries,
             p = <<"entry", i, j, TableOnDisk(s, i)[j]>>
      PROVE  p[4] \in Blocks /\ Found(s, p[4])
  <2>0. p[4] = TableOnDisk(s, i)[j]
    BY <1>4
  <2>1. CASE a[s].indirect[i] = 0
    BY <2>0, <2>1 DEF TableOnDisk, NoPtrs, Entries
  <2>2. CASE a[s].indirect[i] # 0
    <3>1. TableOnDisk(s, i) = AsTable(c.disk[a[s].indirect[i]])
      BY <2>2 DEF TableOnDisk, read_block
    <3>2. c.disk[a[s].indirect[i]] \in Contents
      BY <1>1, Fields DEF TypeOK
    <3>3. AsTable(c.disk[a[s].indirect[i]]) \in [Entries -> Blocks]
      BY <3>2, ContentsRead
    <3> QED
      BY <2>0, <2>2, <3>1, <3>3 DEF Found
  <2> QED
    BY <2>1, <2>2
<1> QED
  BY <1>2, <1>3, <1>4 DEF Pointers, Direct, Indirect, Entries

\* Destroying an object forgets its blocks and toggles bits.
LEMMA DestroyCase ==
  ASSUME BaseInv, NEW key, destroy_object(key)
  PROVE  /\ mounted /\ mounted' /\ Matches(key) # {}
         /\ UNCHANGED <<disk_inodes, disk_bitmap>>
         /\ call' = <<"delete", key>>
         /\ \E gone, toggled : DestroyEffect(find_object_id(key), gone, toggled)
<1> DEFINE s    == find_object_id(key)
           ptrs == {p \in Pointers(s) : p[4] # 0}
           gone == {p[4] : p \in ptrs} \cup {a[s].indirect[i] : i \in 0 .. NINDIRECT - 1}
           toggled == Toggled(ptrs)
<1>1. /\ mounted /\ mounted' = mounted /\ Matches(key) # {}
      /\ UNCHANGED <<disk_inodes, disk_bitmap>>
      /\ call' = <<"delete", key>>
      /\ inode_bitmap' = inode_bitmap \ {s}
      /\ dirty_array' = dirty_array \cup {BlockOf(s)}
      /\ a' = [a EXCEPT ![s] = [FreeInode EXCEPT !.key = a[s].key]]
      /\ data_bitmap' = (data_bitmap \ toggled) \cup (toggled \ data_bitmap)
      /\ c' = InvalidateAll(c, gone)
      /\ damaged' = (damaged \/ Hits(s, gone, toggled))
  BY DEF destroy_object, DirtyAfterDestroy, kept
<1>2. s \in Inodes /\ s \in inode_bitmap
  BY <1>1, FindObject DEF BaseInv
<1> HIDE DEF s
<1>3. \A p \in ptrs : p[4] \in Blocks \ {0} /\ Found(s, p[4])
  BY <1>2, PointersFound DEF BaseInv
<1>4. \A g \in gone : g \in Blocks /\ Found(s, g)
  <2>1. a[s].indirect \in [Indirect -> Blocks]
    BY <1>2, InodeFields DEF BaseInv, TypeOK
  <2>2. \A i \in Indirect : a[s].indirect[i] \in Blocks /\ Found(s, a[s].indirect[i])
    BY <2>1 DEF Found
  <2> QED
    BY <1>3, <2>2 DEF Indirect
<1>5. toggled \subseteq Nat
  BY ObjStoreAssumptions DEF Toggled
<1>6. Coherent(c)
  BY <1>1 DEF BaseInv, TypeOK, Coherent
<1> HIDE DEF gone, toggled
<1>7. /\ Coherent(c')
      /\ \A x \in Blocks \ gone : CurrentContents(c', x) = CurrentContents(c, x)
      /\ \A x \in Blocks : c'.index[Slot(x)] = Tag(x) => c.index[Slot(x)] = Tag(x)
  <2>1. gone \in SUBSET Blocks
    BY <1>4
  <2> QED
    BY <1>1, <1>6, <2>1, Forget
<1>8. DestroyEffect(s, gone, toggled)
  BY <1>1, <1>2, <1>4, <1>5, <1>7 DEF DestroyEffect
<1> QED
  BY <1>1, <1>8 DEF s

-----------------------------------------------------------------------------
\* A read moves blocks in and out of the cache and changes no contents.
ReadEffect(touched) ==
  /\ Wrote(touched)
  /\ \A x \in Blocks : CurrentContents(c', x) = CurrentContents(c, x)

\* The block a read is answered from, b its indirect block and p itself.
Answer(s, n, p, b) ==
  /\ s \in Inodes
  /\ p \in Blocks /\ b \in Blocks
  /\ n \in Written(s) \/ (Sparse /\ n < NDIRECT)
  /\ p = Lookup(s, n)
  /\ n < NDIRECT => b = p
  /\ n >= NDIRECT => Group(n) \in Indirect /\ b = a[s].indirect[Group(n)] /\ b # 0

\* What a read does.
LEMMA ReadCase ==
  ASSUME BaseInv, NEW key, NEW n \in BlockNo, objstore_read(key, n)
  PROVE  /\ mounted /\ mounted' /\ Matches(key) # {}
         /\ UNCHANGED <<a, inode_bitmap, data_bitmap, dirty_array, disk_inodes, disk_bitmap, damaged>>
         /\ \E p, b : /\ Answer(find_target(objfs_open(key)), n, p, b)
                      /\ ReadEffect({b, p})
                      /\ call' = <<"read", key, n, CurrentContents(c, p)>>
<1> DEFINE s  == find_target(objfs_open(key))
           b  == IF n < NDIRECT THEN 0 ELSE a[s].indirect[Group(n)]
           k1 == IF n < NDIRECT THEN c ELSE blk_read(c, b)
           p  == IF n < NDIRECT THEN a[s].direct[n]
                 ELSE AsTable(CurrentContents(k1, b))[Pos(n)]
<1>1. /\ mounted /\ mounted' = mounted /\ Matches(key) # {}
      /\ UNCHANGED <<a, inode_bitmap, data_bitmap, dirty_array, disk_inodes, disk_bitmap, damaged>>
  BY DEF objstore_read, kept, memory
<1>2. /\ n \in Written(s) \/ (Sparse /\ n < NDIRECT)
      /\ c' = blk_read(k1, p)
      /\ call' = <<"read", key, n, CurrentContents(c', p)>>
  BY DEF objstore_read
<1>3. s \in Inodes
  BY <1>1, FindTarget DEF BaseInv
<1>4. a[s].direct \in [Direct -> Blocks] /\ a[s].indirect \in [Indirect -> Blocks]
  BY <1>3, InodeFields DEF BaseInv, TypeOK
<1>5. Coherent(c) /\ c \in Caches
  BY <1>1 DEF BaseInv, TypeOK, Coherent
<1> HIDE DEF s
<1>6. CASE n < NDIRECT
  <2>1. p = a[s].direct[n] /\ k1 = c
    BY <1>6
  <2>2. n \in Direct
    BY <1>6, BlockNoNat, ObjStoreAssumptions DEF Direct
  <2>3. p = Lookup(s, n) /\ p \in Blocks
    BY <1>1, <1>4, <1>6, <2>1, <2>2, Mounted DEF Lookup
  <2> HIDE DEF p, k1, b
  <2>4. Updated(c', c, p, CurrentContents(c, p))
    BY <1>2, <1>5, <2>1, <2>3, BlkRead
  <2>6. ReadEffect({p, p}) /\ CurrentContents(c', p) = CurrentContents(c, p)
    BY <2>3, <2>4 DEF ReadEffect, Wrote, Updated
  <2>7. Answer(s, n, p, p)
    BY <1>2, <1>3, <1>6, <2>3, BlockNoNat, ObjStoreAssumptions DEF Answer
  <2> QED
    BY <1>1, <1>2, <2>6, <2>7 DEF s
<1>7. CASE ~(n < NDIRECT)
  <2>0. n >= NDIRECT /\ n \in Nat
    BY <1>7, BlockNoNat, ObjStoreAssumptions
  <2>1. /\ b = a[s].indirect[Group(n)] /\ k1 = blk_read(c, b)
        /\ p = AsTable(CurrentContents(k1, b))[Pos(n)]
    BY <1>7
  <2>2. Lookup(s, n) # 0
    BY <1>2, <1>7 DEF Written
  <2>3. /\ ~(Group(n) >= NINDIRECT) /\ a[s].indirect[Group(n)] # 0
        /\ Lookup(s, n) = AsTable(CurrentContents(c, a[s].indirect[Group(n)]))[Pos(n)]
    BY <1>1, <1>7, <2>2, Mounted DEF Lookup
  <2>4. Group(n) \in Indirect /\ Pos(n) \in Entries
    BY <2>0, <2>3, GroupPos, ObjStoreAssumptions DEF Indirect
  <2>5. b \in Blocks
    BY <1>4, <2>1, <2>4
  <2> HIDE DEF b, k1, p
  <2>6. Updated(k1, c, b, CurrentContents(c, b))
    BY <1>5, <2>1, <2>5, BlkRead
  <2>7. CurrentContents(k1, b) = CurrentContents(c, b) /\ Coherent(k1)
    BY <2>5, <2>6 DEF Updated
  <2>8. p = Lookup(s, n)
    BY <2>1, <2>3, <2>7
  <2>9. p \in Blocks
    <3>1. CurrentContents(k1, b) \in Contents
      BY <2>5, <2>7, ViewType DEF Coherent
    <3> QED
      BY <2>1, <2>4, <3>1, ContentsRead
  <2>10. Updated(c', k1, p, CurrentContents(k1, p))
    BY <1>2, <2>7, <2>9, BlkRead
  <2>11. /\ Coherent(c')
         /\ \A x \in Blocks : c'.index[Slot(x)] = Tag(x)
                                => x \in {b, p} \/ c.index[Slot(x)] = Tag(x)
         /\ \A x \in Blocks : CurrentContents(c', x) =
              IF x = p THEN CurrentContents(k1, p)
              ELSE IF x = b THEN CurrentContents(c, b) ELSE CurrentContents(c, x)
    BY <2>6, <2>10, UpdatedTwice
  <2>12. CurrentContents(k1, p) = CurrentContents(c, p)
    BY <2>6, <2>9 DEF Updated
  <2>14. ReadEffect({b, p}) /\ CurrentContents(c', p) = CurrentContents(c, p)
    <3>2. \A x \in Blocks : CurrentContents(c', x) = CurrentContents(c, x)
      BY <2>11, <2>12
    <3> QED
      BY <2>9, <2>11, <3>2 DEF ReadEffect, Wrote
  <2>15. Answer(s, n, p, b)
    BY <1>2, <1>3, <1>7, <2>1, <2>3, <2>4, <2>5, <2>8, <2>9 DEF Answer
  <2> QED
    BY <1>1, <1>2, <2>14, <2>15 DEF s
<1> QED
  BY <1>6, <1>7

-----------------------------------------------------------------------------
\* A freshly mounted empty disk.
LEMMA BaseInit == Init => BaseInv
<1> SUFFICES ASSUME Init PROVE BaseInv
  OBVIOUS
<1> DEFINE D == [b \in Blocks |-> IF b = 0 THEN Bitmap({}) ELSE Zeros]
<1>1. D \in [Blocks -> Contents]
  BY ContentsFacts
<1> HIDE DEF D
<1>2. c = [disk |-> D, ptr |-> [q \in Slots |-> Zeros],
           index |-> [q \in Slots |-> -1], dirty |-> [q \in Slots |-> 0]]
  BY DEF Init, D
<1>3. c \in Caches
  BY <1>1, <1>2, ContentsFacts DEF Caches
<1>4. \A q \in Slots : c.index[q] = -1 /\ c.dirty[q] = 0
  BY <1>2
<1>5. CacheOK(c) /\ Unused(c)
  BY <1>4 DEF CacheOK, Unused
<1>6. a \in [Inodes -> Inode] /\ disk_inodes = a
  BY FreeInodeType DEF Init
<1>7. TypeOK
  BY <1>3, <1>6 DEF Init, TypeOK
<1>8. PointersCovered
  BY <1>6 DEF PointersCovered
<1> QED
  BY <1>5, <1>7, <1>8 DEF BaseInv

\* An inode written to disk or not: the table has the same type.
LEMMA InodeChange ==
  ASSUME NEW T \in [Inodes -> Inode], NEW s \in Inodes, NEW x \in Inode
  PROVE  [T EXCEPT ![s] = x] \in [Inodes -> Inode]
OBVIOUS

\* What keeps PointersCovered: whoever changes pointers marks the inode.
LEMMA CoveredStep ==
  ASSUME PointersCovered, NEW s, UNCHANGED disk_inodes,
         dirty_array \subseteq dirty_array',
         \A r \in Inodes : \/ a'[r].direct = a[r].direct /\ a'[r].indirect = a[r].indirect
                           \/ BlockOf(r) \in dirty_array'
  PROVE  PointersCovered'
BY DEF PointersCovered

\* Block numbers of inode blocks.
LEMMA InodeBlocks == \A s \in Nat : BlockOf(s) \in Nat
BY ObjStoreAssumptions DEF BlockOf

\* Creating an object.
LEMMA BaseCreate ==
  ASSUME BaseInv, NEW key \in Keys, create_object(key)
  PROVE  BaseInv'
<1>1. mounted /\ mounted' /\ UNCHANGED <<c, disk_inodes, disk_bitmap, data_bitmap, damaged>>
  BY DEF create_object, kept, memory
<1>2. CASE UNCHANGED memory
  BY <1>1, <1>2 DEF BaseInv, TypeOK, Unused, CacheOK, Held, PointersCovered, memory
<1>3. CASE ~(Inodes \subseteq inode_bitmap)
  <2> DEFINE s == Min(Inodes \ inode_bitmap)
             x == [a[s] EXCEPT !.id = new_id(s), !.key = key]
  <2>1. /\ inode_bitmap' = inode_bitmap \cup {s}
        /\ dirty_array' = dirty_array \cup {BlockOf(s)}
        /\ a' = [a EXCEPT ![s].id = new_id(s), ![s].key = key]
    BY <1>3 DEF create_object
  <2>2. Inodes \ inode_bitmap \in SUBSET Nat
    BY ObjStoreAssumptions DEF Inodes
  <2>3. s \in Inodes \ inode_bitmap
    BY <1>3, <2>2, FirstOf
  <2> HIDE DEF s
  <2>4. a \in [Inodes -> Inode] /\ a[s] \in Inode
    BY <2>3 DEF BaseInv, TypeOK
  <2>5. new_id(s) \in {0} \cup 2 .. INODES + 1
    BY <2>3, ObjStoreAssumptions DEF new_id, Inodes
  <2>6. x \in Inode /\ x.direct = a[s].direct /\ x.indirect = a[s].indirect
    BY <2>4, <2>5 DEF Inode
  <2>7. a' = [a EXCEPT ![s] = x]
    BY <2>1, <2>3, <2>4
  <2> HIDE DEF x
  <2>8. a' \in [Inodes -> Inode]
    BY <2>3, <2>4, <2>6, <2>7
  <2>9. \A r \in Inodes : a'[r].direct = a[r].direct /\ a'[r].indirect = a[r].indirect
    BY <2>3, <2>4, <2>6, <2>7
  <2>10. s \in Nat /\ BlockOf(s) \in Nat
    BY <2>3, InodeBlocks, ObjStoreAssumptions DEF Inodes
  <2>11. TypeOK'
    BY <1>1, <2>1, <2>3, <2>8, <2>10 DEF BaseInv, TypeOK
  <2>12. PointersCovered'
    BY <1>1, <2>1, <2>9, CoveredStep DEF BaseInv
  <2> QED
    BY <1>1, <2>11, <2>12 DEF BaseInv, Unused, CacheOK, Held
<1> QED
  BY <1>2, <1>3 DEF create_object

\* Destroying one.
LEMMA BaseDestroy ==
  ASSUME BaseInv, NEW key \in Keys, destroy_object(key)
  PROVE  BaseInv'
<1>1. /\ mounted /\ mounted'
      /\ UNCHANGED <<disk_inodes, disk_bitmap>>
      /\ \E gone, toggled : DestroyEffect(find_object_id(key), gone, toggled)
  BY DestroyCase
<1>2. PICK s, gone, toggled : DestroyEffect(s, gone, toggled)
  BY <1>1
<1>3. /\ s \in Inodes /\ toggled \subseteq Nat
      /\ damaged' = (damaged \/ Hits(s, gone, toggled))
      /\ inode_bitmap' = inode_bitmap \ {s}
      /\ dirty_array' = dirty_array \cup {BlockOf(s)}
      /\ a' = [a EXCEPT ![s] = [FreeInode EXCEPT !.key = a[s].key]]
      /\ data_bitmap' = (data_bitmap \ toggled) \cup (toggled \ data_bitmap)
      /\ Coherent(c')
  BY <1>2 DEF DestroyEffect
<1>4. a \in [Inodes -> Inode] /\ a[s].key \in Keys \cup {NoKey}
  BY <1>3, InodeFields DEF BaseInv, TypeOK
<1>5. a' \in [Inodes -> Inode] /\ \A r \in Inodes \ {s} : a'[r] = a[r]
  BY <1>3, <1>4, FreeInodeType
<1>6. s \in Nat /\ BlockOf(s) \in Nat
  BY <1>3, InodeBlocks, ObjStoreAssumptions DEF Inodes
<1>d. damaged' \in BOOLEAN
  BY <1>3 DEF Hits, BaseInv, TypeOK
<1>7. TypeOK'
  BY <1>1, <1>3, <1>5, <1>6, <1>d DEF BaseInv, TypeOK, Coherent
<1>8. PointersCovered'
  BY <1>1, <1>3, <1>5, CoveredStep DEF BaseInv
<1> QED
  BY <1>3, <1>7, <1>8 DEF BaseInv, Coherent

\* Renaming one: inode obj gets the key newname, inode block blk is marked.
RenameEffect(obj, blk, newname) ==
  /\ obj \in Inodes /\ blk \in Nat
  /\ a' = [a EXCEPT ![obj].key = newname]
  /\ dirty_array' = dirty_array \cup {blk}

\* What rename_object does.
LEMMA RenameCase ==
  ASSUME BaseInv, NEW key, NEW newname, NEW ctr \in StartCtr,
         rename_object(key, newname, ctr)
  PROVE  /\ mounted /\ mounted'
         /\ UNCHANGED <<inode_bitmap, data_bitmap, c, disk_inodes, disk_bitmap, damaged>>
         /\ \/ UNCHANGED <<a, dirty_array>>
            \/ \E i \in inode_bitmap :
                 RenameEffect(IF i = 0 THEN 0 ELSE ctr + i,
                              (ctr + i) \div INODES_PER_BLOCK, newname)
<1> DEFINE obj(i)  == IF i = 0 THEN 0 ELSE ctr + i
           matches == {i \in inode_bitmap : obj(i) \in Inodes /\ a[obj(i)].key = key}
           i == Min(matches)
<1>1. /\ mounted /\ mounted' = mounted
      /\ UNCHANGED <<inode_bitmap, data_bitmap, c, disk_inodes, disk_bitmap, damaged>>
  BY DEF rename_object, kept, memory
<1>2. CASE matches = {}
  BY <1>1, <1>2 DEF rename_object, memory
<1>3. CASE matches # {}
  <2>1. matches \in SUBSET Nat
    <3>1. inode_bitmap \subseteq Nat
      BY ObjStoreAssumptions DEF BaseInv, TypeOK, Inodes
    <3>2. matches \subseteq inode_bitmap
      OBVIOUS
    <3> QED
      BY <3>1, <3>2
  <2>2. i \in matches
    BY <1>3, <2>1, FirstOf
  <2>3. /\ a' = [a EXCEPT ![obj(i)].key = newname]
        /\ dirty_array' = dirty_array \cup {(ctr + i) \div INODES_PER_BLOCK}
    BY <1>3 DEF rename_object
  <2> HIDE DEF i
  <2>4. obj(i) \in Inodes /\ i \in inode_bitmap /\ i \in Nat /\ ctr \in Nat
    BY <2>1, <2>2, ObjStoreAssumptions
  <2>5. (ctr + i) \div INODES_PER_BLOCK \in Nat
    BY <2>4, ObjStoreAssumptions
  <2>6. RenameEffect(obj(i), (ctr + i) \div INODES_PER_BLOCK, newname)
    BY <2>3, <2>4, <2>5 DEF RenameEffect
  <2> QED
    BY <1>1, <2>4, <2>6
<1> QED
  BY <1>2, <1>3

\* Renaming keeps the invariant, whatever ctr starts from.
LEMMA BaseRename ==
  ASSUME BaseInv, NEW key \in Keys, NEW newname \in Keys, NEW ctr \in StartCtr,
         rename_object(key, newname, ctr)
  PROVE  BaseInv'
<1>1. /\ mounted /\ mounted'
      /\ UNCHANGED <<inode_bitmap, data_bitmap, c, disk_inodes, disk_bitmap, damaged>>
      /\ \/ UNCHANGED <<a, dirty_array>>
         \/ \E obj, blk : RenameEffect(obj, blk, newname)
  BY RenameCase
<1>2. CASE UNCHANGED <<a, dirty_array>>
  BY <1>1, <1>2 DEF BaseInv, TypeOK, Unused, CacheOK, Held, PointersCovered
<1>3. ASSUME NEW obj, NEW blk, RenameEffect(obj, blk, newname) PROVE BaseInv'
  <2> DEFINE x == [a[obj] EXCEPT !.key = newname]
  <2>1. obj \in Inodes /\ blk \in Nat /\ a \in [Inodes -> Inode] /\ a[obj] \in Inode
    BY <1>3 DEF RenameEffect, BaseInv, TypeOK
  <2>2. a' = [a EXCEPT ![obj] = x] /\ dirty_array' = dirty_array \cup {blk}
    BY <1>3, <2>1 DEF RenameEffect
  <2>3. x \in Inode /\ x.direct = a[obj].direct /\ x.indirect = a[obj].indirect
    BY <2>1 DEF Inode
  <2> HIDE DEF x
  <2>4. a' \in [Inodes -> Inode]
    BY <2>1, <2>2, <2>3
  <2>5. \A r \in Inodes : a'[r].direct = a[r].direct /\ a'[r].indirect = a[r].indirect
    BY <2>1, <2>2, <2>3
  <2>6. TypeOK'
    BY <1>1, <2>1, <2>2, <2>4 DEF BaseInv, TypeOK
  <2>7. PointersCovered'
    BY <1>1, <2>2, <2>5, CoveredStep DEF BaseInv
  <2> QED
    BY <1>1, <2>6, <2>7 DEF BaseInv, Unused, CacheOK, Held
<1> QED
  BY <1>1, <1>2, <1>3

\* A record of five fields with two of them changed.
LEMMA RecordChange ==
  ASSUME NEW I, NEW S, NEW K, NEW D, NEW X, NEW m \in S, NEW d \in D, NEW e \in X,
         NEW y \in [id : I, size : S, key : K, direct : D, indirect : X]
  PROVE  /\ LET x == [y EXCEPT !.size = m, !.direct = d] IN
            /\ x \in [id : I, size : S, key : K, direct : D, indirect : X]
            /\ x.id = y.id /\ x.size = m /\ x.key = y.key
            /\ x.direct = d /\ x.indirect = y.indirect
         /\ LET x == [y EXCEPT !.size = m, !.indirect = e] IN
            /\ x \in [id : I, size : S, key : K, direct : D, indirect : X]
            /\ x.id = y.id /\ x.size = m /\ x.key = y.key
            /\ x.direct = y.direct /\ x.indirect = e
OBVIOUS

\* An inode that grows by a block, with new direct or indirect pointers or with
\* the old ones.
GrownDirect(y, d)   == [y EXCEPT !.size = @ + 1, !.direct = d]
GrownIndirect(y, e) == [y EXCEPT !.size = @ + 1, !.indirect = e]
Grown(y)            == [y EXCEPT !.size = @ + 1]

\* The rest of it stays.
LEMMA NewPointer ==
  ASSUME NEW y \in Inode
  PROVE  /\ \A d \in [Direct -> Blocks] : LET x == GrownDirect(y, d) IN
            /\ x \in Inode
            /\ x.id = y.id /\ x.size = y.size + 1 /\ x.key = y.key
            /\ x.direct = d /\ x.indirect = y.indirect
         /\ \A e \in [Indirect -> Blocks] : LET x == GrownIndirect(y, e) IN
            /\ x \in Inode
            /\ x.id = y.id /\ x.size = y.size + 1 /\ x.key = y.key
            /\ x.direct = y.direct /\ x.indirect = e
         /\ LET x == Grown(y) IN
            /\ x \in Inode
            /\ x.id = y.id /\ x.size = y.size + 1 /\ x.key = y.key
            /\ x.direct = y.direct /\ x.indirect = y.indirect
<1> DEFINE I == {0} \cup 2 .. INODES + 1
           K == Keys \cup {NoKey}
           D == [Direct -> Blocks]
           X == [Indirect -> Blocks]
<1>1. Inode = [id : I, size : Nat, key : K, direct : D, indirect : X]
  BY DEF Inode, Direct, Indirect
<1> HIDE DEF I, K, D, X
<1>2. PICK m \in Nat : m = y.size + 1
  BY <1>1
<1>3. y.direct \in D /\ y.indirect \in X
  BY <1>1
<1>4. ASSUME NEW d \in D
      PROVE  LET x == GrownDirect(y, d) IN
             /\ x \in Inode
             /\ x.id = y.id /\ x.size = y.size + 1 /\ x.key = y.key
             /\ x.direct = d /\ x.indirect = y.indirect
  BY <1>1, <1>2, <1>3, RecordChange DEF GrownDirect
<1>5. ASSUME NEW e \in X
      PROVE  LET x == GrownIndirect(y, e) IN
             /\ x \in Inode
             /\ x.id = y.id /\ x.size = y.size + 1 /\ x.key = y.key
             /\ x.direct = y.direct /\ x.indirect = e
  BY <1>1, <1>2, <1>3, RecordChange DEF GrownIndirect
<1>6. Grown(y) = GrownDirect(y, y.direct)
  BY <1>1 DEF Grown, GrownDirect
<1> QED
  BY <1>3, <1>4, <1>5, <1>6 DEF D, X

\* Every case of a write keeps the inode table well typed and leaves the
\* pointers of other inodes alone.
LEMMA WriteTable ==
  ASSUME BaseInv, NEW s, NEW n, NEW v, NEW d1, WriteEffect(s, n, v, d1)
  PROVE  /\ a' \in [Inodes -> Inode]
         /\ \A r \in Inodes \ {s} : a'[r] = a[r]
         /\ a'[s].id = a[s].id /\ a'[s].key = a[s].key /\ a'[s].size = a[s].size + 1
<1>1. s \in Inodes /\ d1 \in 0 .. DATA_BITS - 1 /\ BlockAt(d1) \in Blocks
  BY BlockFacts DEF WriteEffect
<1>2. /\ a \in [Inodes -> Inode] /\ a[s] \in Inode
      /\ a[s].size \in Nat
      /\ a[s].direct \in [Direct -> Blocks] /\ a[s].indirect \in [Indirect -> Blocks]
  BY <1>1, InodeFields DEF BaseInv, TypeOK
<1>3. ASSUME NEW x \in Inode, a' = [a EXCEPT ![s] = x], x.id = a[s].id,
             x.key = a[s].key, x.size = a[s].size + 1
      PROVE  /\ a' \in [Inodes -> Inode]
             /\ \A r \in Inodes \ {s} : a'[r] = a[r]
             /\ a'[s].id = a[s].id /\ a'[s].key = a[s].key /\ a'[s].size = a[s].size + 1
  BY <1>1, <1>2, <1>3
<1>4. CASE DirectEffect(s, n, v, d1)
  <2> DEFINE e == [a[s].direct EXCEPT ![n] = BlockAt(d1)]
             x == GrownDirect(a[s], e)
  <2>1. a' = [a EXCEPT ![s] = x] /\ e \in [Direct -> Blocks]
    BY <1>1, <1>2, <1>4 DEF DirectEffect, GrownDirect
  <2> HIDE DEF e
  <2>2. x \in Inode /\ x.id = a[s].id /\ x.key = a[s].key /\ x.size = a[s].size + 1
    BY <1>2, <2>1, NewPointer
  <2> HIDE DEF x
  <2> QED
    BY <1>3, <2>1, <2>2
<1>5. ASSUME NEW d2, FirstEffect(s, n, v, d1, d2)
      PROVE  /\ a' \in [Inodes -> Inode]
             /\ \A r \in Inodes \ {s} : a'[r] = a[r]
             /\ a'[s].id = a[s].id /\ a'[s].key = a[s].key /\ a'[s].size = a[s].size + 1
  <2> DEFINE e == [a[s].indirect EXCEPT ![Group(n)] = BlockAt(d1)]
             x == GrownIndirect(a[s], e)
  <2>1. a' = [a EXCEPT ![s] = x] /\ e \in [Indirect -> Blocks]
    BY <1>1, <1>2, <1>5 DEF FirstEffect, GrownIndirect
  <2> HIDE DEF e
  <2>2. x \in Inode /\ x.id = a[s].id /\ x.key = a[s].key /\ x.size = a[s].size + 1
    BY <1>2, <2>1, NewPointer
  <2> HIDE DEF x
  <2> QED
    BY <1>3, <2>1, <2>2
<1>6. CASE a' = [a EXCEPT ![s].size = @ + 1]
  <2> DEFINE x == Grown(a[s])
  <2>1. a' = [a EXCEPT ![s] = x]
    BY <1>1, <1>2, <1>6 DEF Grown
  <2>2. x \in Inode /\ x.id = a[s].id /\ x.key = a[s].key /\ x.size = a[s].size + 1
    BY <1>2, NewPointer
  <2> HIDE DEF x
  <2> QED
    BY <1>3, <2>1, <2>2
<1> QED
  BY <1>4, <1>5, <1>6 DEF WriteEffect, EntryEffect, FarEffect

\* Writing a block.
LEMMA BaseWrite ==
  ASSUME BaseInv, NEW key \in Keys, NEW n \in BlockNo, NEW v \in Values,
         objstore_write(key, n, v)
  PROVE  BaseInv'
<1>1. /\ mounted /\ mounted'
      /\ UNCHANGED <<inode_bitmap, disk_inodes, disk_bitmap, damaged>>
      /\ \E s, d1 : WriteEffect(s, n, v, d1)
  BY WriteCases
<1>2. PICK s, d1 : WriteEffect(s, n, v, d1)
  BY <1>1
<1>3. /\ a' \in [Inodes -> Inode]
      /\ \A r \in Inodes \ {s} : a'[r] = a[r]
  BY <1>2, WriteTable
<1>4. Coherent(c')
  <2>1. Coherent(c)
    BY <1>1 DEF BaseInv, TypeOK, Coherent
  <2>2. CASE c' = c
    BY <2>1, <2>2 DEF Coherent, Unused, CacheOK, Held
  <2> QED
    BY <1>2, <2>2 DEF WriteEffect, DirectEffect, FirstEffect, EntryEffect, FarEffect, Wrote
<1>5. data_bitmap' \subseteq Nat
  <2>1. data_bitmap \subseteq Nat /\ 0 .. DATA_BITS - 1 \subseteq Nat
    BY ObjStoreAssumptions DEF BaseInv, TypeOK
  <2> QED
    BY <1>2, <2>1 DEF WriteEffect, DirectEffect, FirstEffect, EntryEffect, FarEffect
<1>6. s \in Inodes /\ dirty_array' = dirty_array \cup {BlockOf(s)}
  BY <1>2 DEF WriteEffect
<1>7. s \in Nat /\ BlockOf(s) \in Nat
  BY <1>6, InodeBlocks, ObjStoreAssumptions DEF Inodes
<1>8. TypeOK'
  BY <1>1, <1>3, <1>4, <1>5, <1>6, <1>7 DEF BaseInv, TypeOK, Coherent
<1>9. PointersCovered'
  BY <1>1, <1>3, <1>6, CoveredStep DEF BaseInv
<1> QED
  BY <1>4, <1>8, <1>9 DEF BaseInv, Coherent

\* Unmounting.
LEMMA BaseUnmount ==
  ASSUME BaseInv, objstore_destroy
  PROVE  BaseInv'
<1>1. /\ mounted /\ mounted' = FALSE /\ c' = FlushOrder(c)
      /\ disk_bitmap' = data_bitmap
      /\ disk_inodes' = [s \in Inodes |-> IF BlockOf(s) \in dirty_array THEN a[s]
                                          ELSE disk_inodes[s]]
      /\ UNCHANGED <<a, inode_bitmap, data_bitmap, dirty_array, damaged>>
  BY DEF objstore_destroy, memory
<1>2. Coherent(c) /\ Bitmap(inode_bitmap) \in Contents
  BY <1>1, ContentsFacts DEF BaseInv, TypeOK, Coherent
<1>3. c' \in Caches /\ Unused(c')
  BY <1>1, <1>2, Unmount, BlockFacts
<1>4. disk_inodes' \in [Inodes -> Inode]
  BY <1>1 DEF BaseInv, TypeOK
<1> QED
  BY <1>1, <1>3, <1>4 DEF BaseInv, TypeOK

\* The bitmap that is read back.
LEMMA SavedType == TypeOK => SavedBitmap \subseteq Inodes
<1>1. TypeOK => read_block(c, 0) \in Contents
  BY BlockFacts, ViewType DEF TypeOK
<1> QED
  BY <1>1, ContentsRead DEF SavedBitmap

\* Mounting.
LEMMA BaseMount ==
  ASSUME BaseInv, objstore_init
  PROVE  BaseInv'
<1>1. /\ ~mounted /\ mounted' = TRUE
      /\ a' = disk_inodes /\ inode_bitmap' = SavedBitmap
      /\ data_bitmap' = disk_bitmap /\ dirty_array' = {}
      /\ c' = empty_cache(c)
      /\ UNCHANGED <<disk_inodes, disk_bitmap, damaged>>
  BY DEF objstore_init, kept
<1>2. Coherent(c')
  BY <1>1, Mount DEF BaseInv, TypeOK
<1>3. SavedBitmap \subseteq Inodes
  BY SavedType DEF BaseInv
<1>4. TypeOK'
  BY <1>1, <1>2, <1>3 DEF BaseInv, TypeOK, Coherent
<1>5. PointersCovered'
  BY <1>1 DEF PointersCovered
<1> QED
  BY <1>2, <1>4, <1>5 DEF BaseInv, Coherent

\* Every step.
LEMMA BaseNext == BaseInv /\ [Next]_vars => BaseInv'
<1> SUFFICES ASSUME BaseInv, [Next]_vars PROVE BaseInv'
  OBVIOUS
<1>1. ASSUME NEW key \in Keys, create_object(key) PROVE BaseInv'
  BY <1>1, BaseCreate
<1>2. ASSUME NEW key \in Keys, destroy_object(key) PROVE BaseInv'
  BY <1>2, BaseDestroy
<1>3. ASSUME NEW key \in Keys, objfs_getattr(key) PROVE BaseInv'
  BY <1>3 DEF objfs_getattr, memory, kept, BaseInv, TypeOK, Unused, CacheOK, Held,
              PointersCovered
<1>4. ASSUME NEW key \in Keys, NEW newkey \in Keys, objfs_rename_key(key, newkey)
      PROVE  BaseInv'
  BY <1>4, BaseRename DEF objfs_rename_key
<1>5. ASSUME NEW key \in Keys, NEW n \in BlockNo, objstore_read(key, n) PROVE BaseInv'
  <2>1. /\ mounted /\ mounted'
        /\ UNCHANGED <<a, inode_bitmap, data_bitmap, dirty_array, disk_inodes, disk_bitmap, damaged>>
        /\ Coherent(c')
    BY <1>5, ReadCase DEF ReadEffect, Wrote
  <2>2. TypeOK'
    BY <2>1 DEF BaseInv, TypeOK, Coherent
  <2> QED
    BY <2>1, <2>2 DEF BaseInv, Coherent, PointersCovered
<1>6. ASSUME NEW key \in Keys, NEW n \in BlockNo, objfs_write(key, n) PROVE BaseInv'
  BY <1>6, BaseWrite DEF objfs_write
<1>7. CASE objstore_init
  BY <1>7, BaseMount
<1>8. CASE objstore_destroy
  BY <1>8, BaseUnmount
<1>9. CASE UNCHANGED vars
  BY <1>9 DEF vars, memory, kept, BaseInv, TypeOK, Unused, CacheOK, Held,
              PointersCovered
<1> QED
  BY <1>1, <1>2, <1>3, <1>4, <1>5, <1>6, <1>7, <1>8, <1>9
     DEF Next, objfs_create, objfs_unlink, objfs_read, objfs_init, objfs_destroy

\* With the cache and without, the store's tables and bitmaps keep their types,
\* clean slots agree with the disk, and inodes whose pointers changed are marked.
THEOREM StoreInvariance == Spec => []BaseInv
BY BaseInit, BaseNext, PTL DEF Spec

\* The inode table, the bitmaps, the dirty marks and the cache keep their types:
\* every pointer stays a block of the disk and every handle an inode, whatever
\* ctr rename_object starts from.
THEOREM StoreTypeCorrect == Spec => []TypeOK
<1>1. BaseInv => TypeOK
  BY DEF BaseInv
<1> QED
  BY <1>1, StoreInvariance, PTL

-----------------------------------------------------------------------------
(***************************************************************************)
(* The dirty marks.  rename_object marks the block of inode ctr + i, also  *)
(* when it changed inode 0, so an uninitialised ctr must be small enough   *)
(* for that to be the block of inode 0.                                    *)
(***************************************************************************)
SmallCtr == \A ctr \in StartCtr : ctr < INODES_PER_BLOCK

\* Only the inode that is marked changes.
LEMMA DirtyStep ==
  ASSUME mounted, DirtyCovers, UNCHANGED disk_inodes,
         dirty_array \subseteq dirty_array',
         \A r \in Inodes : a'[r] = a[r] \/ BlockOf(r) \in dirty_array'
  PROVE  DirtyCovers'
BY DEF DirtyCovers

\* The block a rename marks is the block of the inode it changes.
LEMMA RenameMarks ==
  ASSUME SmallCtr, NEW ctr \in StartCtr, NEW i \in Nat
  PROVE  (ctr + i) \div INODES_PER_BLOCK = BlockOf(IF i = 0 THEN 0 ELSE ctr + i)
<1>1. ctr \in Nat /\ ctr < INODES_PER_BLOCK /\ INODES_PER_BLOCK \in Nat \ {0}
  BY ObjStoreAssumptions DEF SmallCtr
<1>2. CASE i = 0
  <2>1. ctr \div INODES_PER_BLOCK = 0 /\ 0 \div INODES_PER_BLOCK = 0
    BY <1>1
  <2> QED
    BY <1>1, <1>2, <2>1 DEF BlockOf
<1>3. CASE i # 0
  BY <1>3 DEF BlockOf
<1> QED
  BY <1>2, <1>3

\* Every step keeps the marks.
LEMMA DirtyNext ==
  ASSUME SmallCtr
  PROVE  BaseInv /\ DirtyCovers /\ [Next]_vars => DirtyCovers'
<1> SUFFICES ASSUME BaseInv, DirtyCovers, [Next]_vars PROVE DirtyCovers'
  OBVIOUS
<1>a. a \in [Inodes -> Inode]
  BY DEF BaseInv, TypeOK
<1>1. ASSUME NEW key \in Keys, create_object(key) PROVE DirtyCovers'
  <2>1. mounted /\ mounted' /\ UNCHANGED disk_inodes
    BY <1>1 DEF create_object, kept
  <2>2. CASE UNCHANGED memory
    BY <2>1, <2>2, DirtyStep DEF memory
  <2>3. CASE ~(Inodes \subseteq inode_bitmap)
    <3> DEFINE s == Min(Inodes \ inode_bitmap)
    <3>1. /\ dirty_array' = dirty_array \cup {BlockOf(s)}
          /\ a' = [a EXCEPT ![s].id = new_id(s), ![s].key = key]
      BY <1>1, <2>3 DEF create_object
    <3> HIDE DEF s
    <3>2. \A r \in Inodes : r # s => a'[r] = a[r]
      BY <1>a, <3>1
    <3> QED
      BY <2>1, <3>1, <3>2, DirtyStep
  <2> QED
    BY <1>1, <2>2, <2>3 DEF create_object
<1>2. ASSUME NEW key \in Keys, destroy_object(key) PROVE DirtyCovers'
  <2>1. /\ mounted /\ mounted' /\ UNCHANGED disk_inodes
        /\ \E s, gone, toggled : DestroyEffect(s, gone, toggled)
    BY <1>2, DestroyCase
  <2>2. PICK s, gone, toggled : DestroyEffect(s, gone, toggled)
    BY <2>1
  <2>3. \A r \in Inodes : r # s => a'[r] = a[r]
    BY <1>a, <2>2 DEF DestroyEffect
  <2>4. dirty_array' = dirty_array \cup {BlockOf(s)}
    BY <2>2 DEF DestroyEffect
  <2> QED
    BY <2>1, <2>3, <2>4, DirtyStep
<1>3. ASSUME NEW key \in Keys, NEW newkey \in Keys, NEW ctr \in StartCtr,
             rename_object(key, newkey, ctr)
      PROVE  DirtyCovers'
  <2>1. /\ mounted /\ mounted' /\ UNCHANGED disk_inodes
        /\ \/ UNCHANGED <<a, dirty_array>>
           \/ \E i \in inode_bitmap :
                RenameEffect(IF i = 0 THEN 0 ELSE ctr + i,
                             (ctr + i) \div INODES_PER_BLOCK, newkey)
    BY <1>3, RenameCase
  <2>2. CASE UNCHANGED <<a, dirty_array>>
    BY <2>1, <2>2, DirtyStep
  <2>3. ASSUME NEW i \in inode_bitmap,
               RenameEffect(IF i = 0 THEN 0 ELSE ctr + i,
                            (ctr + i) \div INODES_PER_BLOCK, newkey)
        PROVE  DirtyCovers'
    <3>1. PICK s : s = IF i = 0 THEN 0 ELSE ctr + i
      OBVIOUS
    <3>2. i \in Nat
      BY ObjStoreAssumptions DEF BaseInv, TypeOK, Inodes
    <3>3. (ctr + i) \div INODES_PER_BLOCK = BlockOf(s)
      BY <3>1, <3>2, RenameMarks
    <3>4. /\ a' = [a EXCEPT ![s].key = newkey]
          /\ dirty_array' = dirty_array \cup {BlockOf(s)}
      BY <2>3, <3>1, <3>3 DEF RenameEffect
    <3>5. \A r \in Inodes : r # s => a'[r] = a[r]
      BY <1>a, <3>4
    <3> QED
      BY <2>1, <3>4, <3>5, DirtyStep
  <2> QED
    BY <2>1, <2>2, <2>3
<1>4. ASSUME NEW key \in Keys, NEW n \in BlockNo, NEW v \in Values,
             objstore_write(key, n, v)
      PROVE  DirtyCovers'
  <2>1. /\ mounted /\ mounted' /\ UNCHANGED disk_inodes
        /\ \E s, d1 : WriteEffect(s, n, v, d1)
    BY <1>4, WriteCases
  <2>2. PICK s, d1 : WriteEffect(s, n, v, d1)
    BY <2>1
  <2>3. \A r \in Inodes \ {s} : a'[r] = a[r]
    BY <2>2, WriteTable
  <2>4. dirty_array' = dirty_array \cup {BlockOf(s)}
    BY <2>2 DEF WriteEffect
  <2> QED
    BY <2>1, <2>3, <2>4, DirtyStep
<1>5. CASE objstore_init
  BY <1>5 DEF objstore_init, kept, DirtyCovers
<1>6. CASE objstore_destroy
  BY <1>6 DEF objstore_destroy, DirtyCovers
<1>7. CASE UNCHANGED <<mounted, a, dirty_array, disk_inodes>>
  BY <1>7 DEF DirtyCovers
<1>8. ASSUME NEW key \in Keys, objfs_getattr(key) PROVE DirtyCovers'
  BY <1>7, <1>8 DEF objfs_getattr, memory, kept
<1>9. ASSUME NEW key \in Keys, NEW n \in BlockNo, objstore_read(key, n)
      PROVE  DirtyCovers'
  BY <1>7, <1>9 DEF objstore_read, memory, kept
<1>10. CASE UNCHANGED vars
  BY <1>7, <1>10 DEF vars, memory, kept
<1> QED
  BY <1>1, <1>2, <1>3, <1>4, <1>5, <1>6, <1>8, <1>9, <1>10
     DEF Next, objfs_create, objfs_unlink, objfs_rename_key, objfs_read, objfs_write,
         objfs_init, objfs_destroy

\* Every call that changes an inode marks its block: unmounting writes every
\* inode that differs from its copy on disk.  rename_object must start from a
\* ctr below the number of inodes in a block.
THEOREM StoreDirtyCovers ==
  ASSUME SmallCtr
  PROVE  Spec => []DirtyCovers
<1>1. Init => DirtyCovers
  BY DEF Init, DirtyCovers
<1>2. BaseInv /\ DirtyCovers /\ [Next]_vars => DirtyCovers'
  BY DirtyNext
<1> QED
  BY <1>1, <1>2, StoreInvariance, PTL DEF Spec

-----------------------------------------------------------------------------
(***************************************************************************)
(* Ownership of blocks.                                                    *)
(***************************************************************************)
\* The three kinds of places.
LEMMA PlaceParts ==
  ASSUME NEW p \in PointerPlaces
  PROVE  /\ p[1] \in Inodes
         /\ \/ p[2] = "direct" /\ p[3] \in Direct /\ p[4] = 0
            \/ p[2] = "table" /\ p[3] \in Indirect /\ p[4] = 0
            \/ p[2] = "entry" /\ p[3] \in Indirect /\ p[4] \in Entries
BY DEF PointerPlaces

\* A place is determined by its parts.
LEMMA SamePlace ==
  ASSUME NEW p \in PointerPlaces, NEW q \in PointerPlaces,
         p[1] = q[1], p[2] = q[2], p[3] = q[3], p[4] = q[4]
  PROVE  p = q
BY DEF PointerPlaces

\* What they hold.
LEMMA RefsAt ==
  ASSUME NEW T, NEW f, NEW s \in Inodes
  PROVE  /\ \A n \in Direct : /\ <<s, "direct", n, 0>> \in PointerPlaces
                              /\ Refs(T, f)[<<s, "direct", n, 0>>] = T[s].direct[n]
         /\ \A i \in Indirect : /\ <<s, "table", i, 0>> \in PointerPlaces
                                /\ Refs(T, f)[<<s, "table", i, 0>>] = T[s].indirect[i]
         /\ \A i \in Indirect, j \in Entries :
              /\ <<s, "entry", i, j>> \in PointerPlaces
              /\ Refs(T, f)[<<s, "entry", i, j>>] = Entry(T, f, s, i, j)
BY DEF PointerPlaces, Refs

\* They hold blocks.
LEMMA RefsType ==
  ASSUME NEW T \in [Inodes -> Inode], NEW f \in [Blocks -> Contents]
  PROVE  /\ \A p \in PointerPlaces : Refs(T, f)[p] \in Blocks
         /\ \A s \in Inodes, i \in Indirect, j \in Entries : Entry(T, f, s, i, j) \in Blocks
<1>1. \A s \in Inodes : /\ T[s].direct \in [Direct -> Blocks]
                         /\ T[s].indirect \in [Indirect -> Blocks]
  BY InodeFields
<1>2. ASSUME NEW s \in Inodes, NEW i \in Indirect, NEW j \in Entries
      PROVE  Entry(T, f, s, i, j) \in Blocks
  <2>1. T[s].indirect[i] \in Blocks
    BY <1>1
  <2>2. f[T[s].indirect[i]] \in Contents
    BY <2>1
  <2>3. AsTable(f[T[s].indirect[i]])[j] \in Blocks
    BY <2>2, ContentsRead
  <2> QED
    BY <2>3, BlockFacts DEF Entry
<1>3. ASSUME NEW p \in PointerPlaces PROVE Refs(T, f)[p] \in Blocks
  BY <1>1, <1>2, PlaceParts DEF Refs
<1> QED
  BY <1>2, <1>3

\* h is g with blocks of F, which nobody had, each in one place, and with places
\* cleared; no bit of a block is lost and those of F are set.
Handed(g, h, B, C, F) ==
  /\ \A d \in 0 .. DATA_BITS - 1 : d \in B => d \in C
  /\ \A x \in F : x - data_block_offset \notin B /\ x - data_block_offset \in C
  /\ \A p \in PointerPlaces : h[p] = g[p] \/ h[p] = 0 \/ h[p] \in F
  /\ \A p, q \in PointerPlaces : h[p] \in F /\ h[p] = h[q] => p = q

\* Then blocks keep having one owner.
LEMMA OwnedStep ==
  ASSUME NEW g, NEW h, NEW B, NEW C, NEW F,
         \A p \in PointerPlaces : g[p] \in Blocks,
         OwnedOnce(g, B), Handed(g, h, B, C, F)
  PROVE  OwnedOnce(h, C)
<1> USE DEF Handed
<1>1. ASSUME NEW p \in PointerPlaces, h[p] # 0
      PROVE  h[p] - data_block_offset \in C
  <2>1. CASE h[p] \in F
    BY <2>1
  <2>2. CASE h[p] = g[p]
    <3>1. g[p] \in Blocks \ {0} /\ g[p] - data_block_offset \in B
      BY <1>1, <2>2 DEF OwnedOnce
    <3> QED
      BY <2>2, <3>1, BlockFacts
  <2> QED
    BY <1>1, <2>1, <2>2
<1>2. ASSUME NEW p \in PointerPlaces, NEW q \in PointerPlaces, h[p] # 0, h[p] = h[q]
      PROVE  p = q
  <2>1. CASE h[p] \in F
    BY <1>2, <2>1
  <2>2. CASE h[p] \notin F
    <3>1. h[p] = g[p] /\ h[q] = g[q]
      BY <1>2, <2>2
    <3> QED
      BY <1>2, <3>1 DEF OwnedOnce
  <2> QED
    BY <2>1, <2>2
<1> QED
  BY <1>1, <1>2 DEF OwnedOnce

\* Steps that change no pointer and no contents but those of block 0.
LEMMA OwnFrame ==
  ASSUME NEW T \in [Inodes -> Inode], NEW U \in [Inodes -> Inode],
         NEW f \in [Blocks -> Contents], NEW h \in [Blocks -> Contents],
         NEW B, NEW C, Own(T, f, B),
         \A s \in Inodes : U[s].direct = T[s].direct /\ U[s].indirect = T[s].indirect,
         \A b \in Blocks \ {0} : h[b] = f[b],
         \A d \in 0 .. DATA_BITS - 1 : d \in B => d \in C
  PROVE  Own(U, h, C)
<1>1. \A s \in Inodes, i \in Indirect, j \in Entries : Entry(U, h, s, i, j) = Entry(T, f, s, i, j)
  <2> SUFFICES ASSUME NEW s \in Inodes, NEW i \in Indirect, NEW j \in Entries
               PROVE  Entry(U, h, s, i, j) = Entry(T, f, s, i, j)
    OBVIOUS
  <2>1. T[s].indirect[i] \in Blocks
    BY InodeFields
  <2> QED
    BY <2>1 DEF Entry
<1>2. ASSUME NEW p \in PointerPlaces PROVE Refs(U, h)[p] = Refs(T, f)[p]
  BY <1>1, PlaceParts DEF Refs
<1> DEFINE g == Refs(T, f)  z == Refs(U, h)
<1>3. OwnedOnce(g, B) /\ \A p \in PointerPlaces : g[p] \in Blocks
  BY RefsType DEF Own
<1>4. \A p \in PointerPlaces : z[p] = g[p]
  BY <1>2
<1> HIDE DEF g, z
<1>5. PICK F : F = {}
  OBVIOUS
<1>6. Handed(g, z, B, C, F)
  BY <1>4, <1>5 DEF Handed
<1>7. OwnedOnce(z, C)
  BY <1>3, <1>6, OwnedStep
<1> QED
  BY <1>7 DEF Own, z

\* The pointers of inodes, by kind.
LEMMA OwnFacts ==
  ASSUME NEW T, NEW f, NEW B, OwnedOnce(Refs(T, f), B)
  PROVE  /\ \A s \in Inodes, n \in Direct :
              T[s].direct[n] # 0 => T[s].direct[n] - data_block_offset \in B
         /\ \A s \in Inodes, i \in Indirect :
              T[s].indirect[i] # 0 => T[s].indirect[i] - data_block_offset \in B
         /\ \A s, r \in Inodes, i, k \in Indirect :
              T[s].indirect[i] # 0 /\ T[s].indirect[i] = T[r].indirect[k] => s = r /\ i = k
         /\ \A s, r \in Inodes, i \in Indirect, n \in Direct :
              T[s].indirect[i] # 0 => T[s].indirect[i] # T[r].direct[n]
<1> DEFINE g == Refs(T, f)
<1>0. /\ \A p \in PointerPlaces : g[p] # 0 => g[p] - data_block_offset \in B
      /\ \A p, q \in PointerPlaces : g[p] # 0 /\ g[p] = g[q] => p = q
  BY DEF OwnedOnce
<1>1. ASSUME NEW s \in Inodes, NEW n \in Direct
      PROVE  /\ <<s, "direct", n, 0>> \in PointerPlaces
             /\ g[<<s, "direct", n, 0>>] = T[s].direct[n]
  BY RefsAt
<1>2. ASSUME NEW s \in Inodes, NEW i \in Indirect
      PROVE  /\ <<s, "table", i, 0>> \in PointerPlaces
             /\ g[<<s, "table", i, 0>>] = T[s].indirect[i]
  BY RefsAt
<1> HIDE DEF g
<1>3. ASSUME NEW s \in Inodes, NEW n \in Direct, T[s].direct[n] # 0
      PROVE  T[s].direct[n] - data_block_offset \in B
  BY <1>0, <1>1, <1>3
<1>4. ASSUME NEW s \in Inodes, NEW i \in Indirect, T[s].indirect[i] # 0
      PROVE  T[s].indirect[i] - data_block_offset \in B
  BY <1>0, <1>2, <1>4
<1>5. ASSUME NEW s \in Inodes, NEW r \in Inodes, NEW i \in Indirect, NEW k \in Indirect,
             T[s].indirect[i] # 0, T[s].indirect[i] = T[r].indirect[k]
      PROVE  s = r /\ i = k
  <2>1. PICK p \in PointerPlaces : p[1] = s /\ p[3] = i /\ g[p] = T[s].indirect[i]
    BY <1>2
  <2>2. PICK q \in PointerPlaces : q[1] = r /\ q[3] = k /\ g[q] = T[r].indirect[k]
    BY <1>2
  <2>3. p = q
    BY <1>0, <1>5, <2>1, <2>2
  <2> QED
    BY <2>1, <2>2, <2>3
<1>6. ASSUME NEW s \in Inodes, NEW r \in Inodes, NEW i \in Indirect, NEW n \in Direct,
             T[s].indirect[i] # 0, T[s].indirect[i] = T[r].direct[n]
      PROVE  FALSE
  <2>1. PICK p \in PointerPlaces : p[2] = "table" /\ g[p] = T[s].indirect[i]
    BY <1>2
  <2>2. PICK q \in PointerPlaces : q[2] = "direct" /\ g[q] = T[r].direct[n]
    BY <1>1
  <2>3. p = q
    BY <1>0, <1>6, <2>1, <2>2
  <2> QED
    BY <2>1, <2>2, <2>3
<1> QED
  BY <1>3, <1>4, <1>5, <1>6

\* Nobody points to a block whose bit is clear.
LEMMA FreshBlock ==
  ASSUME NEW T, NEW f, NEW B, OwnedOnce(Refs(T, f), B), NEW d \in 0 .. DATA_BITS - 1, d \notin B
  PROVE  \A s \in Inodes, i \in Indirect : T[s].indirect[i] # BlockAt(d)
<1>1. BlockAt(d) # 0 /\ BlockAt(d) - data_block_offset = d
  BY BlockFacts
<1> QED
  BY <1>1, OwnFacts

\* A direct pointer to a fresh block.
DirectChange(T, U, f, h, B, C, w, s, n, d) ==
  /\ T \in [Inodes -> Inode]
  /\ U \in [Inodes -> Inode]
  /\ f \in [Blocks -> Contents]
  /\ Own(T, f, B)
  /\ s \in Inodes
  /\ n \in Direct
  /\ d \in 0 .. DATA_BITS - 1
  /\ d \notin B
  /\ \A r \in Inodes \ {s} : U[r] = T[r]
  /\ U[s].indirect = T[s].indirect
  /\ U[s].direct = [T[s].direct EXCEPT ![n] = BlockAt(d)]
  /\ \A x \in Blocks : h[x] = IF x = BlockAt(d) THEN w ELSE f[x]
  /\ C = B \cup {d}

\* It keeps ownership.
LEMMA OwnDirect ==
  ASSUME NEW T, NEW U, NEW f, NEW h, NEW B, NEW C, NEW w,
         NEW s, NEW n, NEW d,
         DirectChange(T, U, f, h, B, C, w, s, n, d)
  PROVE  Own(U, h, C)
<1> USE DEF DirectChange
<1> DEFINE g == Refs(T, f)  z == Refs(U, h)
<1>1. OwnedOnce(g, B) /\ \A p \in PointerPlaces : g[p] \in Blocks
  BY RefsType DEF Own
<1>2. /\ BlockAt(d) # 0 /\ BlockAt(d) - data_block_offset = d
      /\ \A r \in Inodes, i \in Indirect : T[r].indirect[i] # BlockAt(d)
  BY <1>1, BlockFacts, FreshBlock
<1>3. \A r \in Inodes : U[r].indirect = T[r].indirect
  OBVIOUS
<1>4. ASSUME NEW r \in Inodes, NEW i \in Indirect, NEW j \in Entries
      PROVE  Entry(U, h, r, i, j) = Entry(T, f, r, i, j)
  <2>1. T[r].indirect[i] \in Blocks
    BY InodeFields
  <2> QED
    BY <1>2, <1>3, <2>1 DEF Entry
<1>5. \A r \in Inodes, m \in Direct :
        U[r].direct[m] = IF r = s /\ m = n THEN BlockAt(d) ELSE T[r].direct[m]
  <2>1. T[s].direct \in [Direct -> Blocks]
    BY InodeFields
  <2> QED
    BY <2>1
<1>6. ASSUME NEW p \in PointerPlaces
      PROVE  z[p] = IF p[1] = s /\ p[2] = "direct" /\ p[3] = n THEN BlockAt(d) ELSE g[p]
  BY <1>3, <1>4, <1>5, PlaceParts DEF Refs
<1> HIDE DEF g, z
<1>7. PICK F : F = {BlockAt(d)}
  OBVIOUS
<1>8. \A p \in PointerPlaces : g[p] # BlockAt(d)
  BY <1>1, <1>2 DEF OwnedOnce
<1>9. ASSUME NEW p \in PointerPlaces, NEW q \in PointerPlaces, z[p] \in F, z[p] = z[q]
      PROVE  p = q
  <2>1. z[p] = BlockAt(d) /\ z[q] = BlockAt(d)
    BY <1>7, <1>9
  <2>2. /\ p[1] = s /\ p[2] = "direct" /\ p[3] = n
        /\ q[1] = s /\ q[2] = "direct" /\ q[3] = n
    BY <1>6, <1>8, <2>1
  <2>3. p[4] = 0 /\ q[4] = 0
    BY <2>2, PlaceParts
  <2> QED
    BY <2>2, <2>3, SamePlace
<1>10. Handed(g, z, B, C, F)
  BY <1>2, <1>6, <1>7, <1>9 DEF Handed
<1>11. OwnedOnce(z, C)
  BY <1>1, <1>10, OwnedStep
<1> QED
  BY <1>11 DEF Own, z

\* Tables that are blocks' contents.
LEMMA TableRead ==
  ASSUME NEW t
  PROVE  AsTable(Table(t)) = t /\ Table(t).kind = "table" /\ Table(t).p = t
BY DEF AsTable, Table

\* A fresh indirect block with a fresh block in it.
FirstChange(T, U, f, h, B, C, w, s, m, d, e) ==
  /\ T \in [Inodes -> Inode]
  /\ U \in [Inodes -> Inode]
  /\ f \in [Blocks -> Contents]
  /\ Own(T, f, B)
  /\ s \in Inodes
  /\ m \in Indirect
  /\ d \in 0 .. DATA_BITS - 1
  /\ d \notin B
  /\ e \in 0 .. DATA_BITS - 1
  /\ e \notin B
  /\ e # d
  /\ \A r \in Inodes \ {s} : U[r] = T[r]
  /\ U[s].direct = T[s].direct
  /\ U[s].indirect = [T[s].indirect EXCEPT ![m] = BlockAt(d)]
  /\ \A x \in Blocks : h[x] = IF x = BlockAt(e) THEN w
                              ELSE IF x = BlockAt(d) THEN Table(FirstTable(e)) ELSE f[x]
  /\ C = B \cup {d, e}

\* They keep ownership.
LEMMA OwnFirst ==
  ASSUME NEW T, NEW U, NEW f, NEW h, NEW B, NEW C, NEW w,
         NEW s, NEW m, NEW d, NEW e,
         FirstChange(T, U, f, h, B, C, w, s, m, d, e)
  PROVE  Own(U, h, C)
<1> USE DEF FirstChange
<1> DEFINE g == Refs(T, f)  z == Refs(U, h)
<1>1. OwnedOnce(g, B) /\ \A p \in PointerPlaces : g[p] \in Blocks
  BY RefsType DEF Own
<1>2. /\ BlockAt(d) # 0 /\ BlockAt(d) - data_block_offset = d
      /\ BlockAt(e) # 0 /\ BlockAt(e) - data_block_offset = e
      /\ BlockAt(d) # BlockAt(e) /\ BlockAt(d) \in Blocks
      /\ \A r \in Inodes, i \in Indirect : /\ T[r].indirect[i] # BlockAt(d)
                                           /\ T[r].indirect[i] # BlockAt(e)
  BY <1>1, BlockFacts, FreshBlock
<1>3. \A r \in Inodes, i \in Indirect :
        U[r].indirect[i] = IF r = s /\ i = m THEN BlockAt(d) ELSE T[r].indirect[i]
  <2>1. T[s].indirect \in [Indirect -> Blocks]
    BY InodeFields
  <2> QED
    BY <2>1
<1>t. \A j \in Entries : FirstTable(e)[j] = IF j = 0 THEN BlockAt(e) ELSE 0
  BY DEF FirstTable, NoPtrs, Entries
<1>4. ASSUME NEW r \in Inodes, NEW i \in Indirect, NEW j \in Entries
      PROVE  Entry(U, h, r, i, j) =
               IF r = s /\ i = m THEN (IF j = 0 THEN BlockAt(e) ELSE 0)
               ELSE Entry(T, f, r, i, j)
  <2>1. T[r].indirect[i] \in Blocks
    BY InodeFields
  <2>2. CASE r = s /\ i = m
    <3>1. U[r].indirect[i] = BlockAt(d) /\ h[BlockAt(d)] = Table(FirstTable(e))
      BY <1>2, <1>3, <2>2
    <3>2. Entry(U, h, r, i, j) = FirstTable(e)[j]
      BY <1>2, <3>1, TableRead DEF Entry
    <3> QED
      BY <1>t, <2>2, <3>2
  <2>3. CASE ~(r = s /\ i = m)
    <3>1. U[r].indirect[i] = T[r].indirect[i] /\ h[T[r].indirect[i]] = f[T[r].indirect[i]]
      BY <1>2, <1>3, <2>1, <2>3
    <3> QED
      BY <2>3, <3>1 DEF Entry
  <2> QED
    BY <2>2, <2>3
<1>5. \A r \in Inodes : U[r].direct = T[r].direct
  OBVIOUS
<1>6. ASSUME NEW p \in PointerPlaces
      PROVE  z[p] = IF p[1] = s /\ p[2] = "table" /\ p[3] = m THEN BlockAt(d)
                    ELSE IF p[1] = s /\ p[2] = "entry" /\ p[3] = m
                    THEN (IF p[4] = 0 THEN BlockAt(e) ELSE 0)
                    ELSE g[p]
  <2>1. CASE p[2] = "direct"
    BY <1>5, <2>1, PlaceParts DEF Refs
  <2>2. CASE p[2] = "table"
    BY <1>3, <2>2, PlaceParts DEF Refs
  <2>3. CASE p[2] = "entry"
    BY <1>4, <2>3, PlaceParts DEF Refs
  <2> QED
    BY <2>1, <2>2, <2>3, PlaceParts
<1> HIDE DEF g, z
<1>7. PICK F : F = {BlockAt(d), BlockAt(e)}
  OBVIOUS
<1>8. \A p \in PointerPlaces : g[p] # BlockAt(d) /\ g[p] # BlockAt(e)
  BY <1>1, <1>2 DEF OwnedOnce
<1>9. ASSUME NEW p \in PointerPlaces, NEW q \in PointerPlaces, z[p] \in F, z[p] = z[q]
      PROVE  p = q
  <2>1. CASE z[p] = BlockAt(d)
    <3>1. /\ p[1] = s /\ p[2] = "table" /\ p[3] = m
          /\ q[1] = s /\ q[2] = "table" /\ q[3] = m
      BY <1>2, <1>6, <1>8, <1>9, <2>1
    <3>2. p[4] = 0 /\ q[4] = 0
      BY <3>1, PlaceParts
    <3> QED
      BY <3>1, <3>2, SamePlace
  <2>2. CASE z[p] = BlockAt(e)
    <3>1. /\ p[1] = s /\ p[2] = "entry" /\ p[3] = m /\ p[4] = 0
          /\ q[1] = s /\ q[2] = "entry" /\ q[3] = m /\ q[4] = 0
      BY <1>2, <1>6, <1>8, <1>9, <2>2
    <3> QED
      BY <3>1, SamePlace
  <2> QED
    BY <1>7, <1>9, <2>1, <2>2
<1>10. Handed(g, z, B, C, F)
  <2>1. \A p \in PointerPlaces : z[p] = g[p] \/ z[p] = 0 \/ z[p] \in F
    BY <1>6, <1>7
  <2> QED
    BY <1>2, <1>7, <1>9, <2>1 DEF Handed
<1>11. OwnedOnce(z, C)
  BY <1>1, <1>10, OwnedStep
<1> QED
  BY <1>11 DEF Own, z

\* A fresh block in an indirect block, or, where there is no indirect block, a
\* table in block 0.
EntryChange(T, U, f, h, B, C, w, b, t, s, m, k, d) ==
  /\ T \in [Inodes -> Inode]
  /\ U \in [Inodes -> Inode]
  /\ f \in [Blocks -> Contents]
  /\ Own(T, f, B)
  /\ s \in Inodes
  /\ m \in Indirect
  /\ k \in Entries
  /\ d \in 0 .. DATA_BITS - 1
  /\ d \notin B
  /\ \A r \in Inodes : U[r].direct = T[r].direct /\ U[r].indirect = T[r].indirect
  /\ b = T[s].indirect[m]
  /\ t = [AsTable(f[b]) EXCEPT ![k] = BlockAt(d)]
  /\ \A x \in Blocks : h[x] = IF x = BlockAt(d) THEN w
                              ELSE IF x = b THEN Table(t) ELSE f[x]
  /\ C = B \cup {d}

\* It keeps ownership.
LEMMA OwnEntry ==
  ASSUME NEW T, NEW U, NEW f, NEW h, NEW B, NEW C, NEW w,
         NEW b, NEW t, NEW s, NEW m, NEW k, NEW d,
         EntryChange(T, U, f, h, B, C, w, b, t, s, m, k, d)
  PROVE  Own(U, h, C)
<1> USE DEF EntryChange
<1> DEFINE g == Refs(T, f)  z == Refs(U, h)
<1>1. OwnedOnce(g, B) /\ \A p \in PointerPlaces : g[p] \in Blocks
  BY RefsType DEF Own
<1>2. /\ BlockAt(d) # 0 /\ BlockAt(d) - data_block_offset = d
      /\ \A r \in Inodes, i \in Indirect : T[r].indirect[i] # BlockAt(d)
  BY <1>1, BlockFacts, FreshBlock
<1>3. b \in Blocks /\ f[b] \in Contents
  BY InodeFields
<1>t. \A j \in Entries : t[j] = IF j = k THEN BlockAt(d) ELSE AsTable(f[b])[j]
  <2>1. AsTable(f[b]) \in [Entries -> Blocks]
    BY <1>3, ContentsRead
  <2> QED
    BY <2>1
<1>4. ASSUME NEW r \in Inodes, NEW i \in Indirect, NEW j \in Entries
      PROVE  Entry(U, h, r, i, j) =
               IF b # 0 /\ r = s /\ i = m /\ j = k THEN BlockAt(d)
               ELSE Entry(T, f, r, i, j)
  <2>1. T[r].indirect[i] \in Blocks /\ U[r].indirect[i] = T[r].indirect[i]
    BY InodeFields
  <2>2. CASE T[r].indirect[i] = 0
    BY <2>1, <2>2 DEF Entry
  <2>3. CASE T[r].indirect[i] # 0 /\ r = s /\ i = m
    <3>1. h[b] = Table(t)
      BY <1>2, <1>3
    <3>2. Entry(T, f, r, i, j) = AsTable(f[b])[j]
      BY <2>3 DEF Entry
    <3>3. Entry(U, h, r, i, j) = AsTable(h[b])[j]
      BY <2>1, <2>3 DEF Entry
    <3>4. AsTable(h[b]) = t
      BY <3>1, TableRead
    <3> QED
      BY <1>t, <2>3, <3>2, <3>3, <3>4
  <2>4. CASE T[r].indirect[i] # 0 /\ ~(r = s /\ i = m)
    <3>1. T[r].indirect[i] # b
      BY <1>1, <2>4, OwnFacts
    <3>2. h[T[r].indirect[i]] = f[T[r].indirect[i]]
      BY <1>2, <2>1, <3>1
    <3> QED
      BY <2>1, <2>4, <3>2 DEF Entry
  <2> QED
    BY <2>2, <2>3, <2>4
<1>6. ASSUME NEW p \in PointerPlaces
      PROVE  z[p] = IF b # 0 /\ p[1] = s /\ p[2] = "entry" /\ p[3] = m /\ p[4] = k
                    THEN BlockAt(d) ELSE g[p]
  <2>1. CASE p[2] = "direct"
    BY <2>1, PlaceParts DEF Refs
  <2>2. CASE p[2] = "table"
    BY <2>2, PlaceParts DEF Refs
  <2>3. CASE p[2] = "entry"
    BY <1>4, <2>3, PlaceParts DEF Refs
  <2> QED
    BY <2>1, <2>2, <2>3, PlaceParts
<1> HIDE DEF g, z
<1>7. PICK F : F = {BlockAt(d)}
  OBVIOUS
<1>8. \A p \in PointerPlaces : g[p] # BlockAt(d)
  BY <1>1, <1>2 DEF OwnedOnce
<1>9. ASSUME NEW p \in PointerPlaces, NEW q \in PointerPlaces, z[p] \in F, z[p] = z[q]
      PROVE  p = q
  <2>1. /\ p[1] = s /\ p[2] = "entry" /\ p[3] = m /\ p[4] = k
        /\ q[1] = s /\ q[2] = "entry" /\ q[3] = m /\ q[4] = k
    BY <1>6, <1>7, <1>8, <1>9
  <2> QED
    BY <2>1, SamePlace
<1>10. Handed(g, z, B, C, F)
  <2>1. \A p \in PointerPlaces : z[p] = g[p] \/ z[p] = 0 \/ z[p] \in F
    BY <1>6, <1>7
  <2> QED
    BY <1>2, <1>7, <1>9, <2>1 DEF Handed
<1>11. OwnedOnce(z, C)
  BY <1>1, <1>10, OwnedStep
<1> QED
  BY <1>11 DEF Own, z

\* An inode without pointers; the blocks of other inodes are not forgotten and
\* keep their bits.
DestroyChange(T, U, f, h, B, C, gone, s) ==
  /\ T \in [Inodes -> Inode]
  /\ U \in [Inodes -> Inode]
  /\ f \in [Blocks -> Contents]
  /\ Own(T, f, B)
  /\ s \in Inodes
  /\ \A r \in Inodes \ {s} : U[r] = T[r]
  /\ \A n \in Direct : U[s].direct[n] = 0
  /\ \A i \in Indirect : U[s].indirect[i] = 0
  /\ \A x \in Blocks \ gone : h[x] = f[x]
  /\ \A p \in PointerPlaces :
       p[1] # s /\ Refs(T, f)[p] # 0 => /\ Refs(T, f)[p] \notin gone
                                       /\ Refs(T, f)[p] - data_block_offset \in C

\* They keep ownership.
LEMMA OwnDestroy ==
  ASSUME NEW T, NEW U, NEW f, NEW h, NEW B, NEW C, NEW gone, NEW s,
         DestroyChange(T, U, f, h, B, C, gone, s)
  PROVE  Own(U, h, C)
<1> USE DEF DestroyChange
<1> DEFINE g == Refs(T, f)  z == Refs(U, h)
<1>1. /\ OwnedOnce(g, B)
      /\ \A p \in PointerPlaces : p[1] # s /\ g[p] # 0 => g[p] - data_block_offset \in C
  BY DEF Own
<1>2. ASSUME NEW r \in Inodes, NEW i \in Indirect, NEW j \in Entries
      PROVE  Entry(U, h, r, i, j) = IF r = s THEN 0 ELSE Entry(T, f, r, i, j)
  <2>1. T[r].indirect[i] \in Blocks
    BY InodeFields
  <2>2. CASE r = s
    BY <2>2 DEF Entry
  <2>3. CASE r # s /\ T[r].indirect[i] = 0
    BY <2>3 DEF Entry
  <2>4. CASE r # s /\ T[r].indirect[i] # 0
    <3>1. PICK p \in PointerPlaces : p = <<r, "table", i, 0>>
      BY RefsAt
    <3>2. p[1] = r /\ Refs(T, f)[p] = T[r].indirect[i]
      BY <3>1 DEF Refs
    <3>3. T[r].indirect[i] \notin gone
      BY <2>4, <3>2
    <3> QED
      BY <2>1, <2>4, <3>3 DEF Entry
  <2> QED
    BY <2>2, <2>3, <2>4
<1>3. ASSUME NEW p \in PointerPlaces
      PROVE  z[p] = IF p[1] = s THEN 0 ELSE g[p]
  <2>1. CASE p[2] = "direct"
    BY <2>1, PlaceParts DEF Refs
  <2>2. CASE p[2] = "table"
    BY <2>2, PlaceParts DEF Refs
  <2>3. CASE p[2] = "entry"
    BY <1>2, <2>3, PlaceParts DEF Refs
  <2> QED
    BY <2>1, <2>2, <2>3, PlaceParts
<1> HIDE DEF g, z
<1>4. \A p \in PointerPlaces : z[p] # 0 => p[1] # s /\ z[p] = g[p]
  BY <1>3
<1>5. OwnedOnce(z, C)
  BY <1>1, <1>4 DEF OwnedOnce
<1> QED
  BY <1>5 DEF Own, z

-----------------------------------------------------------------------------
\* The arguments of Own in a state.
OwnArgs ==
  /\ table \in [Inodes -> Inode]
  /\ View \in [Blocks -> Contents]

\* They have their types.
LEMMA OwnTypes == BaseInv => OwnArgs
<1> SUFFICES ASSUME BaseInv PROVE OwnArgs
  OBVIOUS
<1>1. c \in Caches /\ table \in [Inodes -> Inode]
  BY DEF BaseInv, TypeOK, table
<1>2. \A b \in Blocks : block(b) \in Contents
  BY <1>1, ViewType DEF block
<1> QED
  BY <1>1, <1>2 DEF View, OwnArgs

\* What a place holds is a block its inode reaches.
LEMMA PlaceReached ==
  ASSUME BaseInv, NEW p \in PointerPlaces, Refs(table, View)[p] # 0
  PROVE  Refs(table, View)[p] \in Reached(p[1])
<1> DEFINE g == Refs(table, View)
<1>1. /\ p[1] \in Inodes
      /\ NDIRECT \in Nat \ {0} /\ NINDIRECT \in Nat /\ PTRS \in Nat \ {0}
      /\ LIMIT = NDIRECT + PTRS * NINDIRECT
  <2>1. NINDIRECT * PTRS = PTRS * NINDIRECT
    BY ObjStoreAssumptions
  <2> QED
    BY <2>1, PlaceParts, ObjStoreAssumptions DEF LIMIT
<1>2. PTRS * NINDIRECT \in Nat
  BY <1>1, Ranges
<1>3. CASE p[2] = "direct"
  <2>1. p[3] \in Direct /\ g[p] = table[p[1]].direct[p[3]]
    BY <1>3, PlaceParts DEF Refs
  <2>2. p[3] \in BlockNo /\ p[3] < NDIRECT
    BY <1>1, <1>2, <2>1 DEF Direct, BlockNo
  <2>3. g[p] = Lookup(p[1], p[3])
    BY <2>1, <2>2 DEF Lookup
  <2> HIDE DEF g
  <2>4. g[p] \in Reached(p[1])
    BY <2>2, <2>3 DEF Reached, g
  <2> QED
    BY <2>4 DEF g
<1>4. CASE p[2] = "table"
  <2>1. p[3] \in Indirect /\ g[p] = table[p[1]].indirect[p[3]]
    BY <1>4, PlaceParts DEF Refs
  <2> HIDE DEF g
  <2>2. g[p] \in Reached(p[1])
    BY <2>1 DEF Reached, Indirect, g
  <2> QED
    BY <2>2 DEF g
<1>5. CASE p[2] = "entry"
  <2>1. /\ p[3] \in Indirect /\ p[4] \in Entries
        /\ g[p] = Entry(table, View, p[1], p[3], p[4])
    BY <1>5, PlaceParts DEF Refs
  <2>2. /\ table[p[1]].indirect[p[3]] # 0
        /\ g[p] = AsTable(View[table[p[1]].indirect[p[3]]])[p[4]]
    BY <2>1 DEF Entry
  <2>3. table[p[1]].indirect[p[3]] \in Blocks
    BY <1>1, <2>1, OwnTypes, InodeFields DEF OwnArgs
  <2>4. g[p] = AsTable(block(table[p[1]].indirect[p[3]]))[p[4]]
    BY <2>2, <2>3 DEF View
  <2> HIDE DEF g
  <2>5. p[3] \in Nat /\ PTRS * p[3] \in Nat /\ PTRS * p[3] + PTRS <= PTRS * NINDIRECT
    BY <1>1, <2>1, Ranges DEF Indirect
  <2>6. p[4] \in Nat /\ p[4] < PTRS
    BY <1>1, <2>1 DEF Entries
  <2>7. PICK n \in Nat : n = NDIRECT + PTRS * p[3] + p[4]
    BY <1>1, <2>5, <2>6
  <2>8. n >= NDIRECT /\ n \in BlockNo
    BY <1>1, <1>2, <2>5, <2>6, <2>7 DEF BlockNo
  <2>9. /\ Group(n) \in Nat /\ Pos(n) \in 0 .. PTRS - 1
        /\ n = NDIRECT + PTRS * Group(n) + Pos(n)
    BY <2>8, GroupPos DEF Entries
  <2>10. Group(n) = p[3]
    <3>1. PICK x \in Nat : x = Group(n)
      BY <2>9
    <3>2. /\ PTRS * x \in Nat
          /\ x < p[3] => PTRS * x + PTRS <= PTRS * p[3]
          /\ p[3] < x => PTRS * p[3] + PTRS <= PTRS * x
      BY <2>5, Ranges
    <3>3. x = p[3]
      BY <1>1, <2>5, <2>6, <2>7, <2>9, <3>1, <3>2
    <3> QED
      BY <3>1, <3>3
  <2>11. Pos(n) = p[4]
    BY <1>1, <2>5, <2>6, <2>7, <2>9, <2>10
  <2>12. ~(n < NDIRECT) /\ ~(Group(n) >= NINDIRECT)
    BY <1>1, <2>1, <2>8, <2>10 DEF Indirect
  <2>13. g[p] = Lookup(p[1], n)
    BY <2>2, <2>4, <2>10, <2>11, <2>12 DEF Lookup
  <2>14. g[p] \in Reached(p[1])
    BY <2>8, <2>13 DEF Reached, g
  <2> QED
    BY <2>14 DEF g
<1> QED
  BY <1>3, <1>4, <1>5, PlaceParts

\* The arguments of Own while mounted.
LEMMA OwnMounted ==
  mounted => /\ table = a /\ Bits = data_bitmap
             /\ \A b \in Blocks : View[b] = CurrentContents(c, b)
BY DEF table, Bits, View, block

\* The arguments of Own after unmounting.
LEMMA OwnUnmounted ==
  ~mounted => /\ table = disk_inodes /\ Bits = disk_bitmap
              /\ \A b \in Blocks : View[b] = read_block(c, b)
BY DEF table, Bits, View, block

\* Steps that change no pointer and no contents keep ownership.
LEMMA OwnQuiet ==
  ASSUME BaseInv, BaseInv', OwnInv, damaged' = damaged,
         \A s \in Inodes : /\ table'[s].direct = table[s].direct
                           /\ table'[s].indirect = table[s].indirect,
         \A b \in Blocks \ {0} : View'[b] = View[b],
         \A d \in 0 .. DATA_BITS - 1 : d \in Bits => d \in Bits'
  PROVE  OwnInv'
<1>1. table \in [Inodes -> Inode] /\ View \in [Blocks -> Contents]
  BY OwnTypes DEF OwnArgs
<1>2. table' \in [Inodes -> Inode] /\ View' \in [Blocks -> Contents]
  <2>1. OwnArgs'
    BY OwnTypes, PTL
  <2> QED
    BY <2>1 DEF OwnArgs
<1>3. ~damaged => Own(table', View', Bits')
  BY <1>1, <1>2, OwnFrame DEF OwnInv
<1> QED
  BY <1>3 DEF OwnInv

\* Steps that change no pointer and neither blocks nor bits.
LEMMA OwnSame ==
  ASSUME BaseInv, BaseInv', OwnInv, UNCHANGED <<mounted, c, data_bitmap, disk_bitmap>>,
         UNCHANGED <<disk_inodes, damaged>>,
         \A s \in Inodes : a'[s].direct = a[s].direct /\ a'[s].indirect = a[s].indirect
  PROVE  OwnInv'
<1>1. View' = View /\ Bits' = Bits
  BY DEF View, Bits, block, CurrentContents, read_block
<1>2. \A s \in Inodes : /\ table'[s].direct = table[s].direct
                        /\ table'[s].indirect = table[s].indirect
  BY DEF table
<1> QED
  BY <1>1, <1>2, OwnQuiet

\* Before and after the steps of a mounted store.
LEMMA OwnAround ==
  ASSUME mounted, mounted'
  PROVE  /\ table = a /\ Bits = data_bitmap
         /\ \A b \in Blocks : View[b] = CurrentContents(c, b)
         /\ table' = a' /\ Bits' = data_bitmap'
         /\ \A b \in Blocks : View'[b] = CurrentContents(c', b)
BY DEF table, Bits, View, block, CurrentContents, read_block

\* Unmounting writes every inode whose pointers changed, and every block.
LEMMA OwnUnmount ==
  ASSUME BaseInv, BaseInv', OwnInv, objstore_destroy
  PROVE  OwnInv'
<1>1. /\ mounted /\ ~mounted' /\ c' = FlushOrder(c)
      /\ disk_bitmap' = data_bitmap
      /\ disk_inodes' = [s \in Inodes |-> IF BlockOf(s) \in dirty_array THEN a[s]
                                          ELSE disk_inodes[s]]
      /\ damaged' = damaged
  BY DEF objstore_destroy
<1>2. /\ table = a /\ Bits = data_bitmap
      /\ \A b \in Blocks : View[b] = CurrentContents(c, b)
  BY <1>1, OwnMounted
<1>3. /\ table' = disk_inodes' /\ Bits' = disk_bitmap'
      /\ \A b \in Blocks : View'[b] = c'.disk[b]
  BY <1>1 DEF table, Bits, View, block, read_block
<1>4. \A s \in Inodes : /\ disk_inodes'[s].direct = a[s].direct
                        /\ disk_inodes'[s].indirect = a[s].indirect
  BY <1>1 DEF BaseInv, PointersCovered
<1>5. Coherent(c) /\ Bitmap(inode_bitmap) \in Contents
  BY <1>1, ContentsFacts DEF BaseInv, TypeOK, Coherent
<1>6. \A x \in Blocks \ {0} : c'.disk[x] = CurrentContents(c, x)
  BY <1>1, <1>5, Unmount, BlockFacts
<1>7. \A s \in Inodes : /\ table'[s].direct = table[s].direct
                        /\ table'[s].indirect = table[s].indirect
  BY <1>2, <1>3, <1>4
<1>8. \A b \in Blocks \ {0} : View'[b] = View[b]
  BY <1>2, <1>3, <1>6
<1> QED
  BY <1>1, <1>2, <1>3, <1>7, <1>8, OwnQuiet

\* Mounting reads them back.
LEMMA OwnMount ==
  ASSUME BaseInv, BaseInv', OwnInv, objstore_init
  PROVE  OwnInv'
<1>1. /\ ~mounted /\ mounted' /\ a' = disk_inodes /\ data_bitmap' = disk_bitmap
      /\ c' = empty_cache(c) /\ damaged' = damaged
  BY DEF objstore_init, kept
<1>2. /\ table = disk_inodes /\ Bits = disk_bitmap
      /\ \A b \in Blocks : View[b] = read_block(c, b)
  BY <1>1, OwnUnmounted
<1>3. /\ table' = a' /\ Bits' = data_bitmap'
      /\ \A b \in Blocks : View'[b] = CurrentContents(c', b)
  BY <1>1 DEF table, Bits, View, block
<1>4. \A x \in Blocks : CurrentContents(c', x) = read_block(c, x)
  BY <1>1, Mount DEF BaseInv, TypeOK
<1>5. \A b \in Blocks \ {0} : View'[b] = View[b]
  BY <1>2, <1>3, <1>4
<1> QED
  BY <1>1, <1>2, <1>3, <1>4, <1>5, OwnQuiet

\* Reading only moves blocks in and out of the cache.
LEMMA OwnRead ==
  ASSUME BaseInv, BaseInv', OwnInv, NEW key, NEW n \in BlockNo, objstore_read(key, n)
  PROVE  OwnInv'
<1>1. /\ mounted /\ mounted' /\ UNCHANGED <<a, data_bitmap, damaged>>
      /\ \E touched : ReadEffect(touched)
  BY ReadCase
<1>2. \A x \in Blocks : CurrentContents(c', x) = CurrentContents(c, x)
  BY <1>1 DEF ReadEffect
<1>3. /\ table = a /\ Bits = data_bitmap
      /\ \A b \in Blocks : View[b] = CurrentContents(c, b)
      /\ table' = a' /\ Bits' = data_bitmap'
      /\ \A b \in Blocks : View'[b] = CurrentContents(c', b)
  BY <1>1, OwnAround
<1>4. \A b \in Blocks \ {0} : View'[b] = View[b]
  BY <1>2, <1>3
<1> QED
  BY <1>1, <1>2, <1>3, <1>4, OwnQuiet

\* Creating changes no pointer.
LEMMA OwnCreate ==
  ASSUME BaseInv, BaseInv', OwnInv, NEW key, create_object(key)
  PROVE  OwnInv'
<1>1. mounted' = mounted /\ UNCHANGED <<c, disk_inodes, disk_bitmap, data_bitmap, damaged>>
  BY DEF create_object, kept, memory
<1>2. CASE UNCHANGED memory
  BY <1>1, <1>2, OwnSame DEF memory
<1>3. CASE ~(Inodes \subseteq inode_bitmap)
  <2>1. PICK s : a' = [a EXCEPT ![s].id = new_id(s), ![s].key = key]
    BY <1>3 DEF create_object
  <2>2. a \in [Inodes -> Inode]
    BY DEF BaseInv, TypeOK
  <2>3. ASSUME NEW r \in Inodes
        PROVE  a'[r].direct = a[r].direct /\ a'[r].indirect = a[r].indirect
    <3>1. a[r] \in Inode
      BY <2>2
    <3> QED
      BY <2>1, <2>2, <3>1 DEF Inode
  <2> QED
    BY <1>1, <2>3, OwnSame
<1> QED
  BY <1>2, <1>3 DEF create_object

\* Nor does renaming.
LEMMA OwnRename ==
  ASSUME BaseInv, BaseInv', OwnInv, NEW key, NEW newname, NEW ctr \in StartCtr,
         rename_object(key, newname, ctr)
  PROVE  OwnInv'
<1>1. /\ mounted' = mounted
      /\ UNCHANGED <<data_bitmap, c, disk_inodes, disk_bitmap, damaged>>
      /\ \/ UNCHANGED a
         \/ \E obj, blk : RenameEffect(obj, blk, newname)
  <2>1. mounted' = mounted
    BY DEF rename_object
  <2> QED
    BY <2>1, RenameCase
<1>2. CASE UNCHANGED a
  BY <1>1, <1>2, OwnSame
<1>3. ASSUME NEW obj, NEW blk, RenameEffect(obj, blk, newname)
      PROVE  OwnInv'
  <2>1. a' = [a EXCEPT ![obj].key = newname] /\ a \in [Inodes -> Inode]
    BY <1>3 DEF RenameEffect, BaseInv, TypeOK
  <2>2. ASSUME NEW r \in Inodes
        PROVE  a'[r].direct = a[r].direct /\ a'[r].indirect = a[r].indirect
    <3>1. a[r] \in Inode
      BY <2>1
    <3> QED
      BY <2>1, <3>1 DEF Inode
  <2> QED
    BY <1>1, <2>2, OwnSame
<1> QED
  BY <1>1, <1>2, <1>3

\* A write hands out blocks whose bits were clear.
LEMMA OwnWrite ==
  ASSUME BaseInv, BaseInv', OwnInv, NEW key, NEW n \in BlockNo, NEW v \in Values,
         objstore_write(key, n, v)
  PROVE  OwnInv'
<1>0. CASE damaged
  <2>1. damaged' = damaged
    BY WriteCases
  <2> QED
    BY <1>0, <2>1 DEF OwnInv
<1>1. mounted /\ mounted' /\ damaged' = damaged /\ \E s, d1 : WriteEffect(s, n, v, d1)
  BY WriteCases
<1>2. PICK s, d1 : WriteEffect(s, n, v, d1)
  BY <1>1
<1>x. SUFFICES ASSUME ~damaged PROVE OwnInv'
  BY <1>0
<1>3. /\ table = a /\ Bits = data_bitmap
      /\ \A b \in Blocks : View[b] = CurrentContents(c, b)
      /\ table' = a' /\ Bits' = data_bitmap'
      /\ \A b \in Blocks : View'[b] = CurrentContents(c', b)
  BY <1>1, OwnAround
<1>4. /\ a \in [Inodes -> Inode] /\ View \in [Blocks -> Contents]
      /\ Own(a, View, data_bitmap)
  BY <1>3, <1>x, OwnTypes DEF OwnArgs, OwnInv
<1>5. /\ s \in Inodes /\ d1 \in 0 .. DATA_BITS - 1 /\ d1 \notin data_bitmap
      /\ BlockAt(d1) \in Blocks
  BY <1>2, BlockFacts DEF WriteEffect
<1>6. /\ a[s] \in Inode
      /\ a[s].direct \in [Direct -> Blocks] /\ a[s].indirect \in [Indirect -> Blocks]
  BY <1>4, <1>5, InodeFields
<1>7. /\ a' \in [Inodes -> Inode]
      /\ \A r \in Inodes \ {s} : a'[r] = a[r]
  BY <1>2, WriteTable
<1>8. SUFFICES Own(a', View', data_bitmap')
  BY <1>3, <1>8 DEF OwnInv
<1>9. CASE DirectEffect(s, n, v, d1)
  <2> DEFINE e == [a[s].direct EXCEPT ![n] = BlockAt(d1)]
             x == GrownDirect(a[s], e)
  <2>1. n \in Direct /\ a' = [a EXCEPT ![s] = x] /\ e \in [Direct -> Blocks]
    BY <1>4, <1>5, <1>6, <1>9 DEF DirectEffect, GrownDirect
  <2> HIDE DEF e
  <2>2. x.direct = e /\ x.indirect = a[s].indirect
    BY <1>6, <2>1, NewPointer
  <2> HIDE DEF x
  <2>3. a'[s].direct = e /\ a'[s].indirect = a[s].indirect
    BY <1>4, <1>5, <2>1, <2>2
  <2>4. /\ \A y \in Blocks : View'[y] = IF y = BlockAt(d1) THEN Data(v) ELSE View[y]
        /\ data_bitmap' = data_bitmap \cup {d1}
    BY <1>3, <1>9 DEF DirectEffect, Wrote
  <2>5. DirectChange(a, a', View, View', data_bitmap, data_bitmap',
                     Data(v), s, n, d1)
    BY <1>4, <1>5, <1>7, <2>1, <2>3, <2>4 DEF e, DirectChange
  <2> QED
    BY <2>5, OwnDirect
<1>10. ASSUME NEW d2, FirstEffect(s, n, v, d1, d2)
       PROVE  Own(a', View', data_bitmap')
  <2> DEFINE e == [a[s].indirect EXCEPT ![Group(n)] = BlockAt(d1)]
             x == GrownIndirect(a[s], e)
  <2>1. Group(n) \in Indirect /\ a' = [a EXCEPT ![s] = x] /\ e \in [Indirect -> Blocks]
    BY <1>4, <1>5, <1>6, <1>10 DEF FirstEffect, GrownIndirect
  <2> HIDE DEF e
  <2>2. x.direct = a[s].direct /\ x.indirect = e
    BY <1>6, <2>1, NewPointer
  <2> HIDE DEF x
  <2>3. a'[s].indirect = e /\ a'[s].direct = a[s].direct
    BY <1>4, <1>5, <2>1, <2>2
  <2>4. /\ \A y \in Blocks : View'[y] = IF y = BlockAt(d2) THEN Data(v)
                                        ELSE IF y = BlockAt(d1) THEN Table(FirstTable(d2))
                                        ELSE View[y]
        /\ data_bitmap' = data_bitmap \cup {d1, d2}
        /\ d2 \in 0 .. DATA_BITS - 1 /\ d2 \notin data_bitmap /\ d2 # d1
    BY <1>3, <1>10 DEF FirstEffect, Wrote
  <2>5. FirstChange(a, a', View, View', data_bitmap, data_bitmap',
                    Data(v), s, Group(n), d1, d2)
    BY <1>4, <1>5, <1>7, <2>1, <2>3, <2>4 DEF e, FirstChange
  <2> QED
    BY <2>5, OwnFirst
<1>11. ASSUME a' = [a EXCEPT ![s].size = @ + 1], NEW r \in Inodes
       PROVE  a'[r].direct = a[r].direct /\ a'[r].indirect = a[r].indirect
  <2>1. a[r] \in Inode
    BY <1>4
  <2> QED
    BY <1>4, <1>5, <1>11, <2>1 DEF Inode
<1>12. CASE EntryEffect(s, n, v, d1)
  <2>1. PICK b, t : /\ b = a[s].indirect[Group(n)]
                    /\ t = [AsTable(View[b]) EXCEPT ![Pos(n)] = BlockAt(d1)]
    OBVIOUS
  <2>2. Group(n) \in Indirect /\ Pos(n) \in Entries
    BY <1>12 DEF EntryEffect
  <2>3. b \in Blocks /\ t = NextTable(s, n, d1)
    BY <1>3, <1>4, <1>6, <2>1, <2>2 DEF NextTable
  <2>4. /\ \A y \in Blocks : View'[y] = IF y = BlockAt(d1) THEN Data(v)
                                        ELSE IF y = b THEN Table(t) ELSE View[y]
        /\ data_bitmap' = data_bitmap \cup {d1}
        /\ a' = [a EXCEPT ![s].size = @ + 1]
    BY <1>3, <1>12, <2>1, <2>3 DEF EntryEffect, Wrote
  <2>5. \A r \in Inodes : a'[r].direct = a[r].direct /\ a'[r].indirect = a[r].indirect
    BY <1>11, <2>4
  <2>6. EntryChange(a, a', View, View', data_bitmap, data_bitmap',
                    Data(v), b, t, s, Group(n), Pos(n), d1)
    BY <1>4, <1>5, <1>7, <2>1, <2>2, <2>3, <2>4, <2>5 DEF EntryChange
  <2> QED
    BY <2>6, OwnEntry
<1>13. CASE FarEffect(s, n, d1)
  <2>1. /\ c' = c /\ a' = [a EXCEPT ![s].size = @ + 1]
        /\ data_bitmap' = data_bitmap \cup {d1}
    BY <1>13 DEF FarEffect
  <2>2. \A b \in Blocks : View'[b] = View[b]
    BY <1>3, <2>1 DEF CurrentContents
  <2>3. \A r \in Inodes : a'[r].direct = a[r].direct /\ a'[r].indirect = a[r].indirect
    BY <1>11, <2>1
  <2>4. View' \in [Blocks -> Contents]
    <3>1. OwnArgs'
      BY OwnTypes, PTL
    <3> QED
      BY <3>1 DEF OwnArgs
  <2>5. \A d \in 0 .. DATA_BITS - 1 : d \in data_bitmap => d \in data_bitmap'
    BY <2>1
  <2> QED
    BY <1>4, <1>7, <2>2, <2>3, <2>4, <2>5, OwnFrame
<1> QED
  BY <1>2, <1>9, <1>10, <1>12, <1>13 DEF WriteEffect

\* Destroying clears the pointers of one inode.  Unless it does damage, the
\* blocks of other inodes stay in the cache and keep their bits.
LEMMA OwnUnlink ==
  ASSUME BaseInv, BaseInv', OwnInv, NEW key, destroy_object(key)
  PROVE  OwnInv'
<1>1. /\ mounted /\ mounted' /\ \E s, gone, toggled : DestroyEffect(s, gone, toggled)
  BY DestroyCase
<1>2. PICK s, gone, toggled : DestroyEffect(s, gone, toggled)
  BY <1>1
<1>3. damaged' = (damaged \/ Hits(s, gone, toggled))
  BY <1>2 DEF DestroyEffect
<1>4. SUFFICES ASSUME ~damaged, ~Hits(s, gone, toggled)
               PROVE  Own(table', View', Bits')
  BY <1>3 DEF OwnInv
<1>5. /\ table = a /\ Bits = data_bitmap
      /\ \A b \in Blocks : View[b] = CurrentContents(c, b)
      /\ table' = a' /\ Bits' = data_bitmap'
      /\ \A b \in Blocks : View'[b] = CurrentContents(c', b)
  BY <1>1, OwnAround
<1>6. /\ a \in [Inodes -> Inode] /\ View \in [Blocks -> Contents]
      /\ Own(a, View, data_bitmap)
  BY <1>4, <1>5, OwnTypes DEF OwnArgs, OwnInv
<1>7. /\ s \in Inodes
      /\ a' = [a EXCEPT ![s] = [FreeInode EXCEPT !.key = a[s].key]]
      /\ data_bitmap' = (data_bitmap \ toggled) \cup (toggled \ data_bitmap)
      /\ \A x \in Blocks \ gone : View'[x] = View[x]
  BY <1>2, <1>5 DEF DestroyEffect
<1>8. /\ a' \in [Inodes -> Inode]
      /\ \A r \in Inodes \ {s} : a'[r] = a[r]
      /\ \A m \in Direct : a'[s].direct[m] = 0
      /\ \A i \in Indirect : a'[s].indirect[i] = 0
  <2>1. a' \in [Inodes -> Inode]
    BY DEF BaseInv, TypeOK
  <2>2. \A r \in Inodes \ {s} : a'[r] = a[r]
    BY <1>6, <1>7
  <2>3. a'[s] = [FreeInode EXCEPT !.key = a[s].key]
    BY <1>6, <1>7
  <2> QED
    BY <2>1, <2>2, <2>3 DEF FreeInode, Direct, Indirect
<1>9. ASSUME NEW p \in PointerPlaces, p[1] # s, Refs(a, View)[p] # 0
      PROVE  /\ Refs(a, View)[p] \notin gone
             /\ Refs(a, View)[p] - data_block_offset \in data_bitmap'
  <2>1. p[1] \in Inodes /\ Refs(a, View)[p] \in Reached(p[1])
    BY <1>5, <1>9, PlaceParts, PlaceReached
  <2>2. /\ Refs(a, View)[p] \notin gone
        /\ Refs(a, View)[p] - data_block_offset \notin toggled
    BY <1>4, <1>9, <2>1 DEF Hits
  <2>3. Refs(a, View)[p] - data_block_offset \in data_bitmap
    BY <1>6, <1>9 DEF Own, OwnedOnce
  <2> QED
    BY <1>7, <2>2, <2>3
<1>10. DestroyChange(a, a', View, View', data_bitmap, data_bitmap', gone, s)
  BY <1>6, <1>7, <1>8, <1>9 DEF DestroyChange
<1>11. Own(a', View', data_bitmap')
  BY <1>10, OwnDestroy
<1> QED
  BY <1>5, <1>11

\* A fresh disk has no pointers.
LEMMA OwnInit == Init => OwnInv
<1> SUFFICES ASSUME Init PROVE OwnInv
  OBVIOUS
<1>1. /\ table = [s \in Inodes |-> FreeInode]
      /\ c.disk = [b \in Blocks |-> IF b = 0 THEN Bitmap({}) ELSE Zeros]
      /\ c.ptr = [q \in Slots |-> Zeros]
  BY DEF Init, table
<1>2. \A s \in Inodes : /\ \A n \in Direct : table[s].direct[n] = 0
                        /\ \A i \in Indirect : table[s].indirect[i] = 0
  BY <1>1 DEF FreeInode, Direct, Indirect
<1>3. \A p \in PointerPlaces : Refs(table, View)[p] = 0
  BY <1>2, PlaceParts DEF Refs, Entry
<1>4. OwnedOnce(Refs(table, View), Bits)
  BY <1>3 DEF OwnedOnce
<1> QED
  BY <1>4 DEF OwnInv, Own

\* Every step keeps ownership.
LEMMA OwnNext == BaseInv /\ OwnInv /\ [Next]_vars => OwnInv'
<1> SUFFICES ASSUME BaseInv, OwnInv, [Next]_vars PROVE OwnInv'
  OBVIOUS
<1>0. BaseInv'
  BY BaseNext
<1>1. ASSUME NEW key \in Keys, create_object(key) PROVE OwnInv'
  BY <1>0, <1>1, OwnCreate
<1>2. ASSUME NEW key \in Keys, destroy_object(key) PROVE OwnInv'
  BY <1>0, <1>2, OwnUnlink
<1>3. ASSUME NEW key \in Keys, NEW newkey \in Keys, objfs_rename_key(key, newkey)
      PROVE  OwnInv'
  BY <1>0, <1>3, OwnRename DEF objfs_rename_key
<1>4. ASSUME NEW key \in Keys, NEW n \in BlockNo, objstore_read(key, n) PROVE OwnInv'
  BY <1>0, <1>4, OwnRead
<1>5. ASSUME NEW key \in Keys, NEW n \in BlockNo, objfs_write(key, n) PROVE OwnInv'
  BY <1>0, <1>5, OwnWrite DEF objfs_write
<1>6. CASE objstore_init
  BY <1>0, <1>6, OwnMount
<1>7. CASE objstore_destroy
  BY <1>0, <1>7, OwnUnmount
<1>8. CASE UNCHANGED <<mounted, memory, c, kept>>
  <2>1. /\ UNCHANGED <<mounted, c, data_bitmap, disk_bitmap>>
        /\ UNCHANGED <<disk_inodes, damaged>> /\ UNCHANGED a
    BY <1>8 DEF memory, kept
  <2> QED
    BY <1>0, <2>1, OwnSame
<1>9. ASSUME NEW key \in Keys, objfs_getattr(key) PROVE OwnInv'
  BY <1>8, <1>9 DEF objfs_getattr
<1>10. CASE UNCHANGED vars
  BY <1>8, <1>10 DEF vars
<1> QED
  BY <1>1, <1>2, <1>3, <1>4, <1>5, <1>6, <1>7, <1>9, <1>10
     DEF Next, objfs_create, objfs_unlink, objfs_read, objfs_init, objfs_destroy

\* The place in which block n of an object is found.
LEMMA LookupPlace ==
  ASSUME BaseInv, NEW s \in Inodes, NEW n \in BlockNo, Lookup(s, n) # 0
  PROVE  \E z \in PointerPlaces :
           /\ Refs(table, View)[z] = Lookup(s, n)
           /\ z[1] = s
           /\ \/ z[2] = "direct" /\ n = z[3]
              \/ z[2] = "entry" /\ n = NDIRECT + PTRS * z[3] + z[4]
<1>1. n \in Nat /\ NDIRECT \in Nat \ {0} /\ NINDIRECT \in Nat
  BY BlockNoNat, ObjStoreAssumptions
<1>2. CASE n < NDIRECT
  <2>1. n \in Direct /\ Lookup(s, n) = table[s].direct[n]
    BY <1>1, <1>2 DEF Direct, Lookup
  <2>2. PICK z \in PointerPlaces : z = <<s, "direct", n, 0>>
    BY <2>1, RefsAt
  <2>3. Refs(table, View)[z] = Lookup(s, n)
    BY <2>1, <2>2, RefsAt
  <2> QED
    BY <2>2, <2>3
<1>3. CASE ~(n < NDIRECT)
  <2>1. /\ Group(n) \in Nat /\ Pos(n) \in Entries
        /\ n = NDIRECT + PTRS * Group(n) + Pos(n)
    BY <1>1, <1>3, GroupPos
  <2>2. /\ ~(Group(n) >= NINDIRECT) /\ table[s].indirect[Group(n)] # 0
        /\ Lookup(s, n) = AsTable(block(table[s].indirect[Group(n)]))[Pos(n)]
    BY <1>3 DEF Lookup
  <2>3. Group(n) \in Indirect
    BY <1>1, <2>1, <2>2 DEF Indirect
  <2>4. table[s].indirect[Group(n)] \in Blocks
    BY <2>3, OwnTypes, InodeFields DEF OwnArgs
  <2>5. Lookup(s, n) = Entry(table, View, s, Group(n), Pos(n))
    BY <2>2, <2>4 DEF Entry, View
  <2>6. PICK z \in PointerPlaces : z = <<s, "entry", Group(n), Pos(n)>>
    BY <2>1, <2>3, RefsAt
  <2>7. Refs(table, View)[z] = Lookup(s, n)
    BY <2>1, <2>3, <2>5, <2>6, RefsAt
  <2> QED
    BY <2>1, <2>6, <2>7
<1> QED
  BY <1>2, <1>3

\* Places of live objects are places of inodes.
LEMMA OwnPlaces == BaseInv /\ OwnInv => OwnedUnlessDamaged
<1> SUFFICES ASSUME BaseInv, OwnInv, ~damaged PROVE BlocksOwnedOnce
  BY DEF OwnedUnlessDamaged
<1> DEFINE g == Refs(table, View)
<1>1. /\ \A z \in PointerPlaces : g[z] # 0 => g[z] - data_block_offset \in Bits
      /\ \A y, z \in PointerPlaces : g[y] # 0 /\ g[y] = g[z] => y = z
  BY DEF OwnInv, Own, OwnedOnce
<1>2. live \subseteq Inodes
  BY SavedType DEF BaseInv, TypeOK, live
<1>3. ASSUME NEW s \in live, NEW n \in BlockNo, Lookup(s, n) # 0
      PROVE  \E z \in PointerPlaces :
               /\ g[z] = Lookup(s, n) /\ z[1] = s
               /\ \/ z[2] = "direct" /\ n = z[3]
                  \/ z[2] = "entry" /\ n = NDIRECT + PTRS * z[3] + z[4]
  BY <1>2, <1>3, LookupPlace
<1>4. ASSUME NEW s \in live, NEW i \in Indirect
      PROVE  \E z \in PointerPlaces :
               /\ g[z] = table[s].indirect[i] /\ z[1] = s /\ z[2] = "table" /\ z[3] = i
  <2>1. PICK z \in PointerPlaces : z = <<s, "table", i, 0>>
    BY <1>2, RefsAt
  <2>2. g[z] = table[s].indirect[i]
    BY <2>1 DEF Refs
  <2> QED
    BY <2>1, <2>2
<1> HIDE DEF g
<1>5. ASSUME NEW p \in Places, p[4] # 0
      PROVE  \E z \in PointerPlaces :
               /\ g[z] = p[4] /\ z[1] = p[1]
               /\ \/ p[2] = "data" /\ z[2] = "direct" /\ p[3] = z[3]
                  \/ p[2] = "data" /\ z[2] = "entry" /\ p[3] = NDIRECT + PTRS * z[3] + z[4]
                  \/ p[2] = "table" /\ z[2] = "table" /\ p[3] = z[3]
  <2>1. ASSUME NEW s \in live, NEW n \in BlockNo, p = <<s, "data", n, Lookup(s, n)>>
        PROVE  \E z \in PointerPlaces :
                 /\ g[z] = p[4] /\ z[1] = p[1]
                 /\ \/ p[2] = "data" /\ z[2] = "direct" /\ p[3] = z[3]
                    \/ p[2] = "data" /\ z[2] = "entry" /\ p[3] = NDIRECT + PTRS * z[3] + z[4]
    BY <1>3, <1>5, <2>1
  <2>2. ASSUME NEW s \in live, NEW i \in Indirect, p = <<s, "table", i, table[s].indirect[i]>>
        PROVE  \E z \in PointerPlaces :
                 /\ g[z] = p[4] /\ z[1] = p[1]
                 /\ p[2] = "table" /\ z[2] = "table" /\ p[3] = z[3]
    BY <1>4, <2>2
  <2> QED
    BY <2>1, <2>2 DEF Places, Indirect
<1>6. ASSUME NEW p \in Places, p[4] # 0
      PROVE  p[4] - data_block_offset \in Bits
  BY <1>1, <1>5, <1>6
<1>7. ASSUME NEW p \in Places, NEW q \in Places, p[4] # 0, p[4] = q[4]
      PROVE  p[1] = q[1] /\ p[2] = q[2] /\ p[3] = q[3]
  <2>1. PICK y \in PointerPlaces :
               /\ g[y] = p[4] /\ y[1] = p[1]
               /\ \/ p[2] = "data" /\ y[2] = "direct" /\ p[3] = y[3]
                  \/ p[2] = "data" /\ y[2] = "entry" /\ p[3] = NDIRECT + PTRS * y[3] + y[4]
                  \/ p[2] = "table" /\ y[2] = "table" /\ p[3] = y[3]
    BY <1>5, <1>7
  <2>2. PICK z \in PointerPlaces :
               /\ g[z] = q[4] /\ z[1] = q[1]
               /\ \/ q[2] = "data" /\ z[2] = "direct" /\ q[3] = z[3]
                  \/ q[2] = "data" /\ z[2] = "entry" /\ q[3] = NDIRECT + PTRS * z[3] + z[4]
                  \/ q[2] = "table" /\ z[2] = "table" /\ q[3] = z[3]
    BY <1>5, <1>7
  <2>3. y = z
    BY <1>1, <1>7, <2>1, <2>2
  <2> QED
    BY <2>1, <2>2, <2>3
<1>8. ASSUME NEW p \in Places, NEW q \in Places,
             p[1] = q[1], p[2] = q[2], p[3] = q[3], p[4] = q[4]
      PROVE  p = q
  BY <1>8 DEF Places
<1> QED
  BY <1>6, <1>7, <1>8 DEF BlocksOwnedOnce, Bits

\* Until destroy_object hits a block of another object, no block is reachable
\* from two places of live objects, and the bit of every reachable block is set:
\* for every offset Skew, with the cache and without, with blocks released and
\* handed out again, across unmounting and mounting, whatever users write,
\* rename and destroy.
THEOREM StoreOwnedUnlessDamaged == Spec => []OwnedUnlessDamaged
BY OwnInit, OwnNext, OwnPlaces, StoreInvariance, PTL DEF Spec

-----------------------------------------------------------------------------
(***************************************************************************)
(* Unmounting and mounting.  Unmounting writes the inode bitmap to block 0 *)
(* and then the dirty slots, so block 0 must be in no slot.  Reads of      *)
(* holes put it there; otherwise only a write through an indirect pointer  *)
(* that is 0 would, and indirect blocks are made before they are needed.   *)
(***************************************************************************)
\* A block number past the direct ones that has a block has an indirect block.
LEMMA WrittenRange ==
  ASSUME NEW s, NEW n \in Written(s), n >= NDIRECT
  PROVE  Group(n) \in Indirect /\ table[s].indirect[Group(n)] # 0
<1>1. n \in Nat /\ n \in BlockNo /\ Lookup(s, n) # 0
  BY BlockNoNat DEF Written
<1>2. Group(n) \in Nat
  BY <1>1, GroupPos
<1>3. ~(n < NDIRECT)
  BY <1>1, ObjStoreAssumptions
<1>4. ~(Group(n) >= NINDIRECT) /\ table[s].indirect[Group(n)] # 0
  BY <1>1, <1>3 DEF Lookup
<1> QED
  BY <1>2, <1>4, ObjStoreAssumptions DEF Indirect

\* Where an indirect block is missing, no block from its range on is written.
LEMMA WrittenBelow ==
  ASSUME InOrder, NEW s \in Inodes, NEW i \in Indirect, table[s].indirect[i] = 0
  PROVE  Cardinality(Written(s)) \in Nat /\ Cardinality(Written(s)) <= NDIRECT + PTRS * i
<1>1. i \in Nat /\ NDIRECT \in Nat \ {0} /\ PTRS \in Nat \ {0} /\ PTRS * i \in Nat
  BY Ranges, ObjStoreAssumptions DEF Indirect
<1>2. PICK top \in Nat : top = NDIRECT + PTRS * i
  BY <1>1
<1>3. ASSUME NEW n \in Written(s) PROVE n \in 0 .. top - 1
  <2>1. n \in Nat
    BY BlockNoNat DEF Written
  <2>2. CASE n < NDIRECT
    BY <1>1, <1>2, <2>1, <2>2
  <2>3. CASE n >= NDIRECT
    <3>1. Group(n) \in Indirect /\ table[s].indirect[Group(n)] # 0
      BY <2>3, WrittenRange
    <3>2. Group(n) \in Nat /\ Pos(n) \in 0 .. PTRS - 1
          /\ n = NDIRECT + PTRS * Group(n) + Pos(n)
      BY <2>1, <2>3, GroupPos DEF Entries
    <3>3. Group(n) < i
      <4>1. ~(i < Group(n))
        BY <3>1 DEF InOrder
      <4>2. i # Group(n)
        BY <3>1
      <4> QED
        BY <1>1, <3>2, <4>1, <4>2
    <3>4. PTRS * Group(n) \in Nat /\ PTRS * Group(n) + PTRS <= PTRS * i
      BY <1>1, <3>2, <3>3, Ranges
    <3> QED
      BY <1>1, <1>2, <2>1, <3>2, <3>4
  <2> QED
    BY <1>1, <2>1, <2>2, <2>3
<1>4. Written(s) \subseteq 0 .. top - 1
  BY <1>3
<1>5. IsFiniteSet(0 .. top - 1) /\ Cardinality(0 .. top - 1) = top
  BY FS_Interval
<1>6. IsFiniteSet(Written(s)) /\ Cardinality(Written(s)) <= Cardinality(0 .. top - 1)
  BY <1>4, <1>5, FS_Subset
<1>7. Cardinality(Written(s)) \in Nat
  BY <1>6, FS_CardinalityType
<1> QED
  BY <1>2, <1>5, <1>6, <1>7

\* A write goes no further than the first missing indirect block, and to the
\* start of its range.
LEMMA WriteReaches ==
  ASSUME InOrder, NEW s \in Inodes, NEW n \in BlockNo, Writable(s, n),
         n >= NDIRECT, Group(n) \in Indirect,
         NEW i \in Indirect, table[s].indirect[i] = 0
  PROVE  Group(n) <= i /\ (Group(n) = i => Pos(n) = 0)
<1>1. i \in Nat /\ NDIRECT \in Nat \ {0} /\ PTRS \in Nat \ {0} /\ PTRS * i \in Nat
      /\ NINDIRECT \in Nat /\ Group(n) < NINDIRECT
  BY Ranges, ObjStoreAssumptions DEF Indirect
<1>2. n \in Nat /\ Group(n) \in Nat /\ Pos(n) \in 0 .. PTRS - 1
      /\ n = NDIRECT + PTRS * Group(n) + Pos(n)
  BY GroupPos, BlockNoNat DEF Entries
<1>3. PTRS * Group(n) \in Nat
  BY <1>2, Ranges
<1>4. CASE n = Cardinality(Written(s))
  <2>1. n <= NDIRECT + PTRS * i
    BY <1>4, WrittenBelow
  <2>2. ~(i < Group(n))
    <3>1. i < Group(n) => PTRS * i + PTRS <= PTRS * Group(n)
      BY <1>1, <1>2, Ranges
    <3> QED
      BY <1>1, <1>2, <1>3, <2>1, <3>1
  <2>3. Group(n) = i => Pos(n) = 0
    BY <1>1, <1>2, <1>3, <2>1
  <2> QED
    BY <1>1, <1>2, <2>2, <2>3
<1>5. CASE n = LIMIT
  <2>1. PTRS * Group(n) + PTRS <= PTRS * NINDIRECT /\ PTRS * NINDIRECT \in Nat
    BY <1>1, <1>2, Ranges
  <2>2. n = NDIRECT + PTRS * NINDIRECT
    BY <1>1, <1>5 DEF LIMIT
  <2> QED
    BY <1>1, <1>2, <1>3, <2>1, <2>2
<1>6. CASE n \in Written(s)
  <2>1. table[s].indirect[Group(n)] # 0
    BY <1>6, WrittenRange
  <2>2. ~(i < Group(n)) /\ i # Group(n)
    BY <2>1 DEF InOrder
  <2> QED
    BY <1>1, <1>2, <2>2
<1>7. ~(n < NDIRECT)
  BY <1>1, <1>2
<1> QED
  BY <1>4, <1>5, <1>6, <1>7 DEF Writable

\* Creating and renaming change no pointer.
LEMMA SamePointers ==
  ASSUME BaseInv, NEW r \in Inodes
  PROVE  /\ \A key, newname, ctr :
              ctr \in StartCtr /\ rename_object(key, newname, ctr)
                => a'[r].indirect = a[r].indirect
         /\ \A key : create_object(key) => a'[r].indirect = a[r].indirect
<1>1. a \in [Inodes -> Inode] /\ a[r] \in Inode
  BY DEF BaseInv, TypeOK
<1>2. ASSUME NEW s, NEW id, NEW key, a' = [a EXCEPT ![s].id = id, ![s].key = key]
      PROVE  a'[r].indirect = a[r].indirect
  BY <1>1, <1>2 DEF Inode
<1>3. ASSUME NEW s, NEW key, a' = [a EXCEPT ![s].key = key]
      PROVE  a'[r].indirect = a[r].indirect
  BY <1>1, <1>3 DEF Inode
<1>4. ASSUME NEW key, create_object(key) PROVE a'[r].indirect = a[r].indirect
  <2>1. UNCHANGED memory \/ \E s : a' = [a EXCEPT ![s].id = new_id(s), ![s].key = key]
    BY <1>4 DEF create_object
  <2> QED
    BY <1>2, <2>1 DEF memory
<1>5. ASSUME NEW key, NEW newname, NEW ctr \in StartCtr, rename_object(key, newname, ctr)
      PROVE  a'[r].indirect = a[r].indirect
  <2>1. UNCHANGED a \/ \E obj, blk : RenameEffect(obj, blk, newname)
    BY <1>5, RenameCase
  <2> QED
    BY <1>3, <2>1 DEF RenameEffect
<1> QED
  BY <1>4, <1>5

\* Only writing and destroying change indirect pointers.
LEMMA KeptOrChanged ==
  ASSUME BaseInv, [Next]_vars
  PROVE  \/ \A s \in Inodes : table'[s].indirect = table[s].indirect
         \/ \E key \in Keys : destroy_object(key)
         \/ \E key \in Keys, n \in BlockNo, v \in Values : objstore_write(key, n, v)
<1> DEFINE Kept == \A s \in Inodes : table'[s].indirect = table[s].indirect
<1>1. ASSUME NEW key \in Keys, create_object(key) PROVE Kept
  <2>1. UNCHANGED <<mounted, disk_inodes>>
    BY <1>1 DEF create_object, kept
  <2>2. \A s \in Inodes : a'[s].indirect = a[s].indirect
    BY <1>1, SamePointers
  <2> QED
    BY <2>1, <2>2 DEF table
<1>2. ASSUME NEW key \in Keys, NEW newkey \in Keys, objfs_rename_key(key, newkey)
      PROVE  Kept
  <2>1. UNCHANGED <<mounted, disk_inodes>>
    BY <1>2 DEF objfs_rename_key, rename_object, kept
  <2>2. \A s \in Inodes : a'[s].indirect = a[s].indirect
    BY <1>2, SamePointers DEF objfs_rename_key
  <2> QED
    BY <2>1, <2>2 DEF table
<1>3. ASSUME UNCHANGED <<mounted, a, disk_inodes>> PROVE Kept
  BY <1>3 DEF table
<1>4. ASSUME NEW key \in Keys, NEW n \in BlockNo, objstore_read(key, n) PROVE Kept
  <2>1. UNCHANGED <<mounted, a, disk_inodes>>
    BY <1>4 DEF objstore_read, memory, kept
  <2> QED
    BY <1>3, <2>1
<1>5. ASSUME NEW key \in Keys, objfs_getattr(key) PROVE Kept
  <2>1. UNCHANGED <<mounted, a, disk_inodes>>
    BY <1>5 DEF objfs_getattr, memory, kept
  <2> QED
    BY <1>3, <2>1
<1>6. CASE UNCHANGED vars
  BY <1>3, <1>6 DEF vars, memory, kept
<1>7. CASE objstore_init
  BY <1>7 DEF objstore_init, table
<1>8. CASE objstore_destroy
  <2>1. mounted /\ ~mounted' /\ PointersCovered
    BY <1>8 DEF objstore_destroy, BaseInv
  <2>2. disk_inodes' = [s \in Inodes |-> IF BlockOf(s) \in dirty_array THEN a[s]
                                         ELSE disk_inodes[s]]
    BY <1>8 DEF objstore_destroy
  <2>3. \A s \in Inodes : disk_inodes'[s].indirect = a[s].indirect
    BY <2>1, <2>2 DEF PointersCovered
  <2> QED
    BY <2>1, <2>3 DEF table
<1> QED
  BY <1>1, <1>2, <1>4, <1>5, <1>6, <1>7, <1>8
     DEF Next, objfs_create, objfs_unlink, objfs_read, objfs_write, objfs_init, objfs_destroy

\* Indirect pointers after a write.
LEMMA WriteIndirect ==
  ASSUME BaseInv, NEW s, NEW n, NEW v, NEW d1, WriteEffect(s, n, v, d1)
  PROVE  \/ \A r \in Inodes : a'[r].indirect = a[r].indirect
         \/ /\ n >= NDIRECT /\ Group(n) \in Indirect
            /\ \A r \in Inodes, i \in Indirect :
                 a'[r].indirect[i] =
                   IF r = s /\ i = Group(n) THEN BlockAt(d1) ELSE a[r].indirect[i]
<1>1. /\ s \in Inodes /\ d1 \in 0 .. DATA_BITS - 1 /\ BlockAt(d1) \in Blocks
      /\ a \in [Inodes -> Inode] /\ a[s] \in Inode
  BY BlockFacts DEF WriteEffect, BaseInv, TypeOK
<1>2. /\ a[s] \in Inode
      /\ a[s].direct \in [Direct -> Blocks] /\ a[s].indirect \in [Indirect -> Blocks]
  BY <1>1, InodeFields
<1>3. CASE DirectEffect(s, n, v, d1)
  <2> DEFINE e == [a[s].direct EXCEPT ![n] = BlockAt(d1)]
             x == GrownDirect(a[s], e)
  <2>1. a' = [a EXCEPT ![s] = x] /\ e \in [Direct -> Blocks]
    BY <1>1, <1>2, <1>3 DEF DirectEffect, GrownDirect
  <2> HIDE DEF e
  <2>2. x.direct = e /\ x.indirect = a[s].indirect
    BY <1>2, <2>1, NewPointer
  <2> HIDE DEF x
  <2> QED
    BY <1>1, <2>1, <2>2
<1>4. ASSUME NEW d2, FirstEffect(s, n, v, d1, d2)
      PROVE  /\ n >= NDIRECT /\ Group(n) \in Indirect
             /\ \A r \in Inodes, i \in Indirect :
                  a'[r].indirect[i] =
                    IF r = s /\ i = Group(n) THEN BlockAt(d1) ELSE a[r].indirect[i]
  <2> DEFINE e == [a[s].indirect EXCEPT ![Group(n)] = BlockAt(d1)]
             x == GrownIndirect(a[s], e)
  <2>1. Group(n) \in Indirect /\ a' = [a EXCEPT ![s] = x] /\ e \in [Indirect -> Blocks]
    BY <1>1, <1>2, <1>4 DEF FirstEffect, GrownIndirect
  <2>4. /\ n >= NDIRECT /\ Group(n) \in Indirect
        /\ \A i \in Indirect : e[i] = IF i = Group(n) THEN BlockAt(d1) ELSE a[s].indirect[i]
    BY <1>1, <1>2, <1>4 DEF FirstEffect
  <2> HIDE DEF e
  <2>2. x.direct = a[s].direct /\ x.indirect = e
    BY <1>2, <2>1, NewPointer
  <2> HIDE DEF x
  <2>3. a'[s].indirect = e /\ \A r \in Inodes \ {s} : a'[r] = a[r]
    BY <1>1, <2>1, <2>2
  <2> QED
    BY <2>3, <2>4
<1>5. ASSUME a' = [a EXCEPT ![s].size = @ + 1], NEW r \in Inodes
      PROVE  a'[r].indirect = a[r].indirect
  <2>1. a[r] \in Inode
    BY <1>1
  <2> QED
    BY <1>1, <1>5, <2>1 DEF Inode
<1> QED
  BY <1>3, <1>4, <1>5 DEF WriteEffect, EntryEffect, FarEffect

\* Indirect blocks are made in order.
LEMMA OrderNext == BaseInv /\ InOrder /\ [Next]_vars => InOrder'
<1> SUFFICES ASSUME BaseInv, InOrder, [Next]_vars PROVE InOrder'
  OBVIOUS
<1>1. CASE \A s \in Inodes : table'[s].indirect = table[s].indirect
  BY <1>1 DEF InOrder
<1>2. ASSUME NEW key \in Keys, destroy_object(key) PROVE InOrder'
  <2>1. mounted /\ mounted' /\ \E s, gone, toggled : DestroyEffect(s, gone, toggled)
    BY <1>2, DestroyCase
  <2>2. PICK s : /\ s \in Inodes
                 /\ a' = [a EXCEPT ![s] = [FreeInode EXCEPT !.key = a[s].key]]
    BY <2>1 DEF DestroyEffect
  <2>3. a \in [Inodes -> Inode] /\ table = a /\ table' = a'
    BY <2>1 DEF BaseInv, TypeOK, table
  <2>4. \A r \in Inodes \ {s} : a'[r] = a[r]
    BY <2>2, <2>3
  <2>5. \A i \in Indirect : a'[s].indirect[i] = 0
    BY <2>2, <2>3 DEF FreeInode, Indirect
  <2> QED
    BY <2>3, <2>4, <2>5 DEF InOrder
<1>3. ASSUME NEW key \in Keys, NEW n \in BlockNo, NEW v \in Values, objstore_write(key, n, v)
      PROVE  InOrder'
  <2>1. mounted /\ mounted' /\ \E s, d1 : WriteEffect(s, n, v, d1)
    BY <1>3, WriteCases
  <2>2. PICK s, d1 : WriteEffect(s, n, v, d1)
    BY <2>1
  <2>3. s \in Inodes /\ Writable(s, n) /\ BlockAt(d1) # 0
    BY <2>2, BlockFacts DEF WriteEffect
  <2>4. table = a /\ table' = a'
    BY <2>1 DEF table
  <2>5. CASE \A r \in Inodes : a'[r].indirect = a[r].indirect
    BY <1>1, <2>4, <2>5
  <2>6. CASE /\ n >= NDIRECT /\ Group(n) \in Indirect
             /\ \A r \in Inodes, i \in Indirect :
                  a'[r].indirect[i] =
                    IF r = s /\ i = Group(n) THEN BlockAt(d1) ELSE a[r].indirect[i]
    <3> SUFFICES ASSUME NEW r \in Inodes, NEW i \in Indirect, NEW k \in Indirect,
                        i < k, a'[r].indirect[k] # 0, a'[r].indirect[i] = 0
                 PROVE  FALSE
      BY <2>4 DEF InOrder
    <3>1. a[r].indirect[i] = 0
      BY <2>3, <2>6
    <3>2. ~(r = s /\ k = Group(n)) => a[r].indirect[k] # 0
      BY <2>6
    <3>3. r = s /\ k = Group(n)
      BY <2>4, <3>1, <3>2 DEF InOrder
    <3>4. Group(n) <= i
      BY <2>3, <2>4, <2>6, <3>1, <3>3, WriteReaches
    <3>5. i \in Nat /\ k \in Nat
      BY ObjStoreAssumptions DEF Indirect
    <3> QED
      BY <3>3, <3>4, <3>5
  <2> QED
    BY <2>2, <2>5, <2>6, WriteIndirect
<1> QED
  BY <1>1, <1>2, <1>3, KeptOrChanged

\* Block 0 stays out of the slots where users leave no holes.
LEMMA BitmapNext == BaseInv /\ InOrder /\ BitmapInv /\ [Next]_vars => BitmapInv'
<1> SUFFICES ASSUME BaseInv, InOrder, BitmapInv, [Next]_vars, CACHE, ~Sparse, mounted'
             PROVE  BitmapUncached'
  BY DEF BitmapInv
<1>0. 0 \in Blocks
  BY BlockFacts
<1>1. CASE mounted /\ UNCHANGED c
  BY <1>1 DEF BitmapInv, BitmapUncached
<1>2. ASSUME mounted, NEW touched, 0 \notin touched,
             \A x \in Blocks : c'.index[Slot(x)] = Tag(x)
                                 => x \in touched \/ c.index[Slot(x)] = Tag(x)
      PROVE  BitmapUncached'
  <2>1. c.index[Slot(0)] # Tag(0)
    BY <1>2 DEF BitmapInv, BitmapUncached
  <2>2. c'.index[Slot(0)] # Tag(0)
    BY <1>0, <1>2, <2>1
  <2> QED
    BY <2>2 DEF BitmapUncached
<1>3. ASSUME NEW key \in Keys, destroy_object(key) PROVE BitmapUncached'
  <2>1. mounted /\ \E s, gone, toggled : DestroyEffect(s, gone, toggled)
    BY <1>3, DestroyCase
  <2>2. PICK touched : touched = {}
    OBVIOUS
  <2>3. \A x \in Blocks : c'.index[Slot(x)] = Tag(x) => c.index[Slot(x)] = Tag(x)
    BY <2>1 DEF DestroyEffect
  <2> QED
    BY <1>2, <2>1, <2>2, <2>3
<1>4. ASSUME NEW key \in Keys, NEW n \in BlockNo, objstore_read(key, n)
      PROVE  BitmapUncached'
  <2>1. /\ mounted
        /\ \E s, p, b : Answer(s, n, p, b) /\ ReadEffect({b, p})
    BY <1>4, ReadCase
  <2>2. PICK s, p, b : Answer(s, n, p, b) /\ ReadEffect({b, p})
    BY <2>1
  <2>3. n \in Written(s) /\ p = Lookup(s, n) /\ p # 0
    BY <2>2 DEF Answer, Written
  <2>4. b # 0
    <3>1. n \in Nat
      BY BlockNoNat
    <3>2. n < NDIRECT \/ n >= NDIRECT
      BY <3>1, ObjStoreAssumptions
    <3> QED
      BY <2>2, <2>3, <3>2 DEF Answer
  <2>5. \A x \in Blocks : c'.index[Slot(x)] = Tag(x)
                            => x \in {b, p} \/ c.index[Slot(x)] = Tag(x)
    BY <2>2 DEF ReadEffect, Wrote
  <2> QED
    BY <1>2, <2>1, <2>3, <2>4, <2>5
<1>5. ASSUME NEW key \in Keys, NEW n \in BlockNo, NEW v \in Values, objstore_write(key, n, v)
      PROVE  BitmapUncached'
  <2>1. mounted /\ \E s, d1 : WriteEffect(s, n, v, d1)
    BY <1>5, WriteCases
  <2>2. PICK s, d1 : WriteEffect(s, n, v, d1)
    BY <2>1
  <2>3. s \in Inodes /\ Writable(s, n) /\ BlockAt(d1) # 0
    BY <2>2, BlockFacts DEF WriteEffect
  <2>4. CASE DirectEffect(s, n, v, d1)
    <3>1. \A x \in Blocks : c'.index[Slot(x)] = Tag(x)
                              => x \in {BlockAt(d1)} \/ c.index[Slot(x)] = Tag(x)
      BY <2>4 DEF DirectEffect, Wrote
    <3> QED
      BY <1>2, <2>1, <2>3, <3>1
  <2>5. ASSUME NEW d2, FirstEffect(s, n, v, d1, d2) PROVE BitmapUncached'
    <3>1. \A x \in Blocks : c'.index[Slot(x)] = Tag(x)
                              => x \in {BlockAt(d1), BlockAt(d2)} \/ c.index[Slot(x)] = Tag(x)
      BY <2>5 DEF FirstEffect, Wrote
    <3>2. BlockAt(d2) # 0
      BY <2>5, BlockFacts DEF FirstEffect
    <3> QED
      BY <1>2, <2>1, <2>3, <3>1, <3>2
  <2>6. CASE EntryEffect(s, n, v, d1)
    <3>1. PICK b : b = a[s].indirect[Group(n)]
      OBVIOUS
    <3>2. /\ n >= NDIRECT /\ Group(n) \in Indirect /\ Pos(n) # 0
          /\ \A x \in Blocks : c'.index[Slot(x)] = Tag(x)
                                 => x \in {b, BlockAt(d1)} \/ c.index[Slot(x)] = Tag(x)
      BY <2>6, <3>1 DEF EntryEffect, Wrote
    <3>3. b = table[s].indirect[Group(n)]
      BY <2>1, <3>1 DEF table
    <3>4. b # 0
      BY <2>3, <3>2, <3>3, WriteReaches
    <3> QED
      BY <1>2, <2>1, <2>3, <3>2, <3>4
  <2>7. CASE FarEffect(s, n, d1)
    BY <1>1, <2>1, <2>7 DEF FarEffect
  <2> QED
    BY <2>2, <2>4, <2>5, <2>6, <2>7 DEF WriteEffect
<1>6. CASE objstore_init
  <2>1. c' = empty_cache(c) /\ c \in Caches
    BY <1>6 DEF objstore_init, BaseInv, TypeOK
  <2>2. \A x \in Blocks : c'.index[Slot(x)] # Tag(x)
    BY <2>1, Mount
  <2> QED
    BY <1>0, <2>2 DEF BitmapUncached
<1>7. ASSUME NEW key \in Keys, create_object(key) PROVE BitmapUncached'
  BY <1>1, <1>7 DEF create_object
<1>8. ASSUME NEW key \in Keys, NEW newkey \in Keys, objfs_rename_key(key, newkey)
      PROVE  BitmapUncached'
  BY <1>1, <1>8 DEF objfs_rename_key, rename_object
<1>9. ASSUME NEW key \in Keys, objfs_getattr(key) PROVE BitmapUncached'
  BY <1>1, <1>9 DEF objfs_getattr
<1>10. CASE UNCHANGED vars
  BY <1>1, <1>10 DEF vars
<1>11. CASE objstore_destroy
  BY <1>11 DEF objstore_destroy
<1> QED
  BY <1>3, <1>4, <1>5, <1>6, <1>7, <1>8, <1>9, <1>10, <1>11
     DEF Next, objfs_create, objfs_unlink, objfs_read, objfs_write, objfs_init, objfs_destroy

\* Two states with the same inodes, the same bits and the same blocks but for
\* block 0 show the same objects.
LEMMA SameVisible ==
  ASSUME table' = table, live' = live, \A b \in Blocks \ {0} : View'[b] = View[b],
         BaseInv, OwnArgs
  PROVE  Visible' = Visible
<1>1. ASSUME NEW s \in Inodes, NEW n \in BlockNo
      PROVE  Lookup(s, n)' = Lookup(s, n)
  <2>1. CASE n < NDIRECT
    BY <2>1 DEF Lookup
  <2>2. CASE ~(n < NDIRECT) /\ (Group(n) >= NINDIRECT \/ table[s].indirect[Group(n)] = 0)
    BY <2>2 DEF Lookup
  <2>3. CASE /\ ~(n < NDIRECT)
             /\ ~(Group(n) >= NINDIRECT \/ table[s].indirect[Group(n)] = 0)
    <3>1. n \in Nat /\ n >= NDIRECT
      BY <2>3, BlockNoNat, ObjStoreAssumptions
    <3>2. Group(n) \in Indirect
      BY <2>3, <3>1, GroupPos, ObjStoreAssumptions DEF Indirect
    <3>3. PICK b : b = table[s].indirect[Group(n)]
      OBVIOUS
    <3>4. b \in Blocks \ {0}
      BY <2>3, <3>2, <3>3, InodeFields DEF OwnArgs
    <3>5. View'[b] = block(b)' /\ View[b] = block(b) /\ View'[b] = View[b]
      BY <3>4 DEF View
    <3> QED
      BY <2>3, <3>3, <3>5 DEF Lookup
  <2> QED
    BY <2>1, <2>2, <2>3
<1>2. ASSUME NEW s \in Inodes PROVE Object(s)' = Object(s)
  <2>1. Written(s)' = Written(s)
    BY <1>1 DEF Written
  <2>2. ASSUME NEW n \in Written(s) PROVE block(Lookup(s, n))' = block(Lookup(s, n))
    <3>1. n \in BlockNo /\ Lookup(s, n) # 0
      BY DEF Written
    <3>2. PICK b : b = Lookup(s, n) /\ b = Lookup(s, n)'
      BY <1>1, <3>1
    <3>3. b \in Blocks \ {0}
      <4>1. \E z \in PointerPlaces : Refs(table, View)[z] = Lookup(s, n)
        BY <3>1, LookupPlace
      <4>2. \A z \in PointerPlaces : Refs(table, View)[z] \in Blocks
        BY RefsType DEF OwnArgs
      <4> QED
        BY <3>1, <3>2, <4>1, <4>2
    <3>4. View'[b] = block(b)' /\ View[b] = block(b) /\ View'[b] = View[b]
      BY <3>3 DEF View
    <3>5. block(Lookup(s, n))' = block(b)'
      BY <3>2 DEF block, CurrentContents, read_block
    <3> QED
      BY <3>2, <3>4, <3>5
  <2> QED
    BY <2>1, <2>2 DEF Object
<1>3. \A key \in Keys : Matches(key)' = Matches(key) /\ find_object_id(key)' = find_object_id(key)
  BY DEF Matches, find_object_id
<1>4. live \subseteq Inodes /\ Inodes \subseteq Nat
  BY SavedType, ObjStoreAssumptions DEF BaseInv, TypeOK, live, Inodes
<1>5. ASSUME NEW key \in Keys, Matches(key) # {}
      PROVE  find_object_id(key) \in Inodes
  <2>1. Matches(key) \subseteq live
    BY DEF Matches
  <2>2. Matches(key) \in SUBSET Nat
    BY <1>4, <2>1
  <2>3. find_object_id(key) \in Matches(key)
    BY <1>5, <2>2, FirstOf DEF find_object_id
  <2> QED
    BY <1>4, <2>1, <2>3
<1>6. ASSUME NEW key \in Keys, Matches(key) # {}
      PROVE  Object(find_object_id(key))' = Object(find_object_id(key))
  <2>1. PICK s \in Inodes : s = find_object_id(key) /\ s = find_object_id(key)'
    BY <1>3, <1>5, <1>6
  <2>2. Object(s)' = Object(s)
    BY <1>2
  <2>3. Object(find_object_id(key))' = Object(s)'
    BY <2>1 DEF Object, Written, Lookup
  <2> QED
    BY <2>1, <2>2, <2>3
<1>7. ASSUME NEW key \in Keys
      PROVE  (IF Matches(key) = {} THEN NoObject ELSE Object(find_object_id(key)))'
               = IF Matches(key) = {} THEN NoObject ELSE Object(find_object_id(key))
  BY <1>3, <1>6
<1> QED
  BY <1>7 DEF Visible, find_object_id

\* What unmounting writes and mounting reads is what was there.
LEMMA RemountStep ==
  ASSUME CACHE => ~Sparse, BaseInv, BitmapInv, DirtyCovers, [Next]_vars, mounted' # mounted
  PROVE  Visible' = Visible
<1>0. OwnArgs
  BY OwnTypes
<1>1. CASE objstore_destroy
  <2>1. /\ mounted /\ ~mounted' /\ c' = FlushOrder(c)
        /\ disk_inodes' = [s \in Inodes |-> IF BlockOf(s) \in dirty_array THEN a[s]
                                            ELSE disk_inodes[s]]
    BY <1>1 DEF objstore_destroy
  <2>2. /\ a \in [Inodes -> Inode] /\ disk_inodes \in [Inodes -> Inode]
        /\ Coherent(c) /\ Bitmap(inode_bitmap) \in Contents
    BY <2>1, ContentsFacts DEF BaseInv, TypeOK, Coherent
  <2>3. \A s \in Inodes : a[s] # disk_inodes[s] => BlockOf(s) \in dirty_array
    BY <2>1 DEF DirtyCovers
  <2>4. disk_inodes' = a
    BY <2>1, <2>2, <2>3
  <2>5. c.index[Slot(0)] # Tag(0)
    <3>1. CASE CACHE
      BY <2>1, <3>1 DEF BitmapInv, BitmapUncached
    <3>2. CASE ~CACHE
      BY <2>2, <3>2, SlotTag, BlockFacts DEF Coherent, Unused
    <3> QED
      BY <3>1, <3>2
  <2>6. /\ c'.disk[0] = Bitmap(inode_bitmap)
        /\ \A x \in Blocks \ {0} : c'.disk[x] = CurrentContents(c, x)
    BY <2>1, <2>2, <2>5, Unmount, BlockFacts
  <2>7. SavedBitmap' = inode_bitmap
    BY <2>6 DEF SavedBitmap, read_block, Bitmap
  <2>8. table' = table /\ live' = live
    BY <2>1, <2>4, <2>7 DEF table, live
  <2>9. \A b \in Blocks \ {0} : View'[b] = View[b]
    BY <2>1, <2>6 DEF View, block, read_block
  <2> QED
    BY <1>0, <2>8, <2>9, SameVisible
<1>2. CASE objstore_init
  <2>1. /\ ~mounted /\ mounted' /\ a' = disk_inodes /\ inode_bitmap' = SavedBitmap
        /\ c' = empty_cache(c) /\ c \in Caches
    BY <1>2 DEF objstore_init, BaseInv, TypeOK
  <2>2. \A x \in Blocks : CurrentContents(c', x) = read_block(c, x)
    BY <2>1, Mount
  <2>3. table' = table /\ live' = live
    BY <2>1 DEF table, live
  <2>4. \A b \in Blocks \ {0} : View'[b] = View[b]
    BY <2>1, <2>2 DEF View, block
  <2> QED
    BY <1>0, <2>3, <2>4, SameVisible
<1>3. objstore_destroy \/ objstore_init
  <2>1. \A key : create_object(key) \/ destroy_object(key) \/ objfs_getattr(key)
                  => mounted' = mounted
    BY DEF create_object, destroy_object, objfs_getattr
  <2>2. \A key, newkey : objfs_rename_key(key, newkey) => mounted' = mounted
    BY DEF objfs_rename_key, rename_object
  <2>3. \A key, n : objstore_read(key, n) => mounted' = mounted
    BY DEF objstore_read
  <2>4. \A key, n : objfs_write(key, n) => mounted' = mounted
    BY DEF objfs_write, objstore_write
  <2>5. Next \/ mounted' = mounted
    BY DEF vars
  <2> QED
    BY <2>1, <2>2, <2>3, <2>4, <2>5
       DEF Next, objfs_create, objfs_unlink, objfs_read, objfs_init, objfs_destroy
<1> QED
  BY <1>1, <1>2, <1>3

\* Unmounting and mounting change no object, with the cache and without: every
\* inode, the inode bitmap and every block that was written are read back.  With
\* the cache this needs that users leave no holes, since reading one puts block 0
\* in a slot; and rename_object must mark the inode it changes.
THEOREM StoreRemountKeepsObjects ==
  ASSUME SmallCtr, CACHE => ~Sparse
  PROVE  Spec => RemountKeepsObjects
<1>1. Init => InOrder
  <2> SUFFICES ASSUME Init PROVE InOrder
    OBVIOUS
  <2>1. \A s \in Inodes, i \in Indirect : table[s].indirect[i] = 0
    BY DEF Init, table, FreeInode, Indirect
  <2> QED
    BY <2>1 DEF InOrder
<1>2. Init => BitmapInv
  <2> SUFFICES ASSUME Init PROVE BitmapUncached
    BY DEF BitmapInv
  <2>1. \A q \in Slots : c.index[q] = -1
    BY DEF Init
  <2> QED
    BY <2>1, SlotTag, BlockFacts DEF BitmapUncached
<1>3. BaseInv /\ BitmapInv /\ DirtyCovers /\ [Next]_vars
        => [mounted' # mounted => Visible' = Visible]_vars
  BY RemountStep
<1>4. Spec => []DirtyCovers
  BY StoreDirtyCovers
<1> QED
  BY <1>1, <1>2, <1>3, <1>4, OrderNext, BitmapNext, StoreInvariance, PTL
     DEF Spec, RemountKeepsObjects
=============================================================================
