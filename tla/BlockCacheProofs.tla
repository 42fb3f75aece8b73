-------------------------- MODULE BlockCacheProofs --------------------------
(***************************************************************************)
(* Proofs about the block cache, for every number of slots, every set of   *)
(* blocks and every set of contents: the operators of CacheOps keep the    *)
(* cache coherent and give every block the contents last written, and      *)
(* BlockCache implements BlockStore.                                       *)
(***************************************************************************)
EXTENDS BlockCache, TLAPS

\* Block numbers split into slot and tag, and back.
LEMMA SlotTag ==
  ASSUME NEW b \in Blocks
  PROVE  /\ Slot(b) \in Slots
         /\ Tag(b) \in Nat
         /\ cache_blks * Tag(b) + Slot(b) = b
BY CacheAssumptions DEF Slot, Tag, Slots

\* Two blocks with the same slot and the same tag are the same block.
LEMMA SlotTagUnique ==
  ASSUME NEW i \in Nat, NEW s \in Slots, NEW b \in Blocks,
         cache_blks * i + s = b
  PROVE  Slot(b) = s /\ Tag(b) = i
<1> USE CacheAssumptions
<1>1. /\ Slot(b) \in 0 .. cache_blks - 1
      /\ Tag(b) \in Nat
      /\ s \in 0 .. cache_blks - 1
      /\ cache_blks * Tag(b) + Slot(b) = cache_blks * i + s
      /\ cache_blks \in Nat \ {0}
  BY SlotTag DEF Slots
<1> DEFINE t == Tag(b)  r == Slot(b)
<1>2. cache_blks * (t - i) = s - r
  BY <1>1
<1>3. s - r < cache_blks /\ r - s < cache_blks
  BY <1>1
<1>4. ~(t - i >= 1)
  BY <1>1, <1>2, <1>3
<1>5. ~(i - t >= 1)
  BY <1>1, <1>2, <1>3
<1>6. t = i
  BY <1>1, <1>4, <1>5
<1> QED
  BY <1>1, <1>2, <1>6

\* Slot s holds block b exactly if it is b's slot and carries b's tag.
LEMMA HeldBlock ==
  ASSUME NEW k \in Caches, NEW s \in Slots, NEW b \in Blocks,
         k.index[s] # -1
  PROVE  Held(k, s) = b <=> Slot(b) = s /\ k.index[s] = Tag(b)
<1>1. k.index[s] \in Nat
  BY DEF Caches
<1>2. ASSUME Held(k, s) = b PROVE Slot(b) = s /\ k.index[s] = Tag(b)
  BY <1>1, <1>2, SlotTagUnique DEF Held
<1>3. ASSUME Slot(b) = s, k.index[s] = Tag(b) PROVE Held(k, s) = b
  BY <1>3, SlotTag DEF Held
<1> QED
  BY <1>2, <1>3

\* A record of type Caches is determined by its fields.
LEMMA CacheFields ==
  ASSUME NEW k \in Caches
  PROVE  /\ k.disk \in [Blocks -> Contents]
         /\ k.ptr \in [Slots -> Contents]
         /\ k.index \in [Slots -> Nat \cup {-1}]
         /\ k.dirty \in [Slots -> {0, 1}]
BY DEF Caches

(***************************************************************************)
(* An eviction changes nothing but the disk copy of the block that loses   *)
(* its slot, and afterwards that copy is current.                          *)
(***************************************************************************)
LEMMA EvictLemma ==
  ASSUME NEW k \in Caches, CacheOK(k), NEW b \in Blocks
  PROVE  /\ Evict(k, b) \in Caches
         /\ Evict(k, b).ptr = k.ptr
         /\ Evict(k, b).index = k.index
         /\ Evict(k, b).dirty = k.dirty
         /\ \A x \in Blocks :
              Evict(k, b).disk[x] =
                IF Conflict(k, b) /\ Slot(x) = Slot(b)
                   /\ k.index[Slot(b)] = Tag(x)
                THEN k.ptr[Slot(b)] ELSE k.disk[x]
<1> DEFINE s == Slot(b)
           e == Evict(k, b)
<1>s. s \in Slots
  BY SlotTag
<1>f. /\ k.disk \in [Blocks -> Contents]
      /\ k.ptr \in [Slots -> Contents]
      /\ k.index \in [Slots -> Nat \cup {-1}]
      /\ k.dirty \in [Slots -> {0, 1}]
  BY CacheFields
<1>1. CASE Conflict(k, b) /\ k.dirty[s] = 1
  <2>1. e = [k EXCEPT !.disk = [x \in Blocks |->
               IF x = Held(k, s) THEN k.ptr[s] ELSE k.disk[x]]]
    BY <1>1 DEF Evict, write_block
  <2>2. /\ e.disk = [x \in Blocks |->
                       IF x = Held(k, s) THEN k.ptr[s] ELSE k.disk[x]]
        /\ e.ptr = k.ptr /\ e.index = k.index /\ e.dirty = k.dirty
        /\ e \in Caches
    BY <1>s, <1>f, <2>1 DEF Caches
  <2>3. k.index[s] # -1
    BY <1>1 DEF Conflict
  <2>4. \A x \in Blocks : x = Held(k, s) <=>
                           Slot(x) = s /\ k.index[s] = Tag(x)
    BY <1>s, <2>3, HeldBlock
  <2> QED
    BY <1>1, <2>2, <2>4
<1>2. CASE ~(Conflict(k, b) /\ k.dirty[s] = 1)
  <2>1. e = k
    BY <1>2 DEF Evict
  <2>2. ASSUME NEW x \in Blocks, Conflict(k, b), Slot(x) = s,
               k.index[s] = Tag(x)
        PROVE  k.disk[x] = k.ptr[s]
    <3>1. k.index[s] # -1 /\ k.dirty[s] = 0
      BY <1>2, <1>s, <1>f, <2>2 DEF Conflict
    <3>2. Held(k, s) = x
      BY <1>s, <2>2, <3>1, HeldBlock
    <3> QED
      BY <1>s, <3>1, <3>2 DEF CacheOK
  <2> QED
    BY <2>1, <2>2
<1> QED
  BY <1>1, <1>2

\* Filling a slot gives a cache.
LEMMA FillType ==
  ASSUME NEW k \in Caches, NEW q \in Slots, NEW v \in Contents,
         NEW t \in Nat \cup {-1}, NEW d \in {0, 1}
  PROVE  Fill(k, q, v, t, d) \in Caches
<1> DEFINE P == [k.ptr EXCEPT ![q] = v]
           I == [k.index EXCEPT ![q] = t]
           D == [k.dirty EXCEPT ![q] = d]
<1>1. Fill(k, q, v, t, d) = [disk |-> k.disk, ptr |-> P, index |-> I, dirty |-> D]
  BY DEF Fill
<1>2. /\ P \in [Slots -> Contents]
      /\ I \in [Slots -> Nat \cup {-1}]
      /\ D \in [Slots -> {0, 1}]
      /\ k.disk \in [Blocks -> Contents]
  BY CacheFields
<1> HIDE DEF P, I, D
<1> QED
  BY <1>1, <1>2 DEF Caches

\* The cache after b was put into its slot with contents v and dirty flag d.
LEMMA FillLemma ==
  ASSUME NEW k \in Caches, CacheOK(k), NEW b \in Blocks, NEW v \in Contents,
         NEW d \in {0, 1}, d = 0 => v = Evict(k, b).disk[b]
  PROVE  LET r == Fill(Evict(k, b), Slot(b), v, Tag(b), d) IN
         /\ r \in Caches
         /\ CacheOK(r)
         /\ r.ptr[Slot(b)] = v
         /\ \A x \in Blocks : CurrentContents(r, x) =
                               IF x = b THEN v ELSE CurrentContents(k, x)
<1> DEFINE s == Slot(b)
           e == Evict(k, b)
           r == Fill(e, s, v, Tag(b), d)
<1>s. s \in Slots /\ Tag(b) \in Nat
  BY SlotTag
<1>e. /\ e \in Caches
      /\ e.ptr = k.ptr /\ e.index = k.index /\ e.dirty = k.dirty
      /\ \A x \in Blocks :
           e.disk[x] = IF Conflict(k, b) /\ Slot(x) = s /\ k.index[s] = Tag(x)
                       THEN k.ptr[s] ELSE k.disk[x]
  BY EvictLemma
<1>f. /\ e.disk \in [Blocks -> Contents]
      /\ e.ptr \in [Slots -> Contents]
      /\ e.index \in [Slots -> Nat \cup {-1}]
      /\ e.dirty \in [Slots -> {0, 1}]
  BY <1>e, CacheFields
<1> HIDE DEF e
<1>1. /\ r.disk = e.disk
      /\ r.ptr = [e.ptr EXCEPT ![s] = v]
      /\ r.index = [e.index EXCEPT ![s] = Tag(b)]
      /\ r.dirty = [e.dirty EXCEPT ![s] = d]
      /\ r \in Caches
  <2>1. Tag(b) \in Nat \cup {-1} /\ s \in Slots /\ e \in Caches
    BY <1>s, <1>e
  <2> HIDE DEF s
  <2>2. r \in Caches
    BY <2>1, FillType
  <2> QED
    BY <2>2 DEF Fill
<1> HIDE DEF r
<1>3. /\ r.ptr[s] = v /\ r.index[s] = Tag(b) /\ r.dirty[s] = d
      /\ \A q \in Slots \ {s} : /\ r.ptr[q] = k.ptr[q]
                                 /\ r.index[q] = k.index[q]
                                 /\ r.dirty[q] = k.dirty[q]
  BY <1>1, <1>s, <1>e, <1>f
<1>4. CacheOK(r)
  <2> SUFFICES ASSUME NEW q \in Slots
               PROVE  IF r.index[q] = -1 THEN r.dirty[q] = 0
                      ELSE /\ Held(r, q) \in Blocks
                           /\ r.dirty[q] = 0 => r.ptr[q] = r.disk[Held(r, q)]
    BY DEF CacheOK
  <2>1. CASE q = s
    <3>0. r.index[q] # -1 /\ r.index[q] = Tag(b)
      BY <1>3, <1>s, <2>1
    <3>1. Held(r, q) = b
      <4>1. Slot(b) = q /\ r \in Caches
        BY <1>1, <2>1
      <4> QED
        BY <3>0, <4>1, HeldBlock, Zenon
    <3> QED
      BY <1>1, <1>3, <2>1, <3>0, <3>1 DEF e
  <2>2. CASE q # s
    <3>1. CASE k.index[q] = -1
      BY <1>3, <2>2, <3>1 DEF CacheOK
    <3>2. CASE k.index[q] # -1
      <4>1. Held(r, q) = Held(k, q) /\ Held(k, q) \in Blocks
        BY <1>3, <2>2, <3>2 DEF CacheOK, Held
      <4>2. Slot(Held(k, q)) = q
        BY <3>2, <4>1, HeldBlock
      <4>3. r.disk[Held(k, q)] = k.disk[Held(k, q)]
        BY <1>1, <1>e, <2>2, <4>1, <4>2
      <4> QED
        BY <1>3, <2>2, <3>2, <4>1, <4>3 DEF CacheOK
    <3> QED
      BY <3>1, <3>2
  <2> QED
    BY <2>1, <2>2
<1>5. ASSUME NEW x \in Blocks
      PROVE  CurrentContents(r, x) = IF x = b THEN v ELSE CurrentContents(k, x)
  <2>1. CASE x = b
    BY <1>3, <2>1 DEF CurrentContents
  <2>2. CASE x # b /\ Slot(x) = s
    <3>1. Tag(x) # Tag(b)
      BY <2>2, SlotTag
    <3>2. CurrentContents(r, x) = e.disk[x]
      BY <1>1, <1>3, <2>2, <3>1 DEF CurrentContents
    <3>3. Tag(x) # -1
      BY SlotTag
    <3> QED
      BY <1>e, <2>2, <3>1, <3>2, <3>3 DEF CurrentContents, Conflict
  <2>3. CASE Slot(x) # s
    BY <1>1, <1>3, <1>e, <2>3, SlotTag DEF CurrentContents
  <2> QED
    BY <2>1, <2>2, <2>3
<1> QED
  BY <1>1, <1>3, <1>4, <1>5 DEF e, r

-----------------------------------------------------------------------------
\* A cached read returns the current contents of the block and changes the
\* current contents of none, whatever it evicts.
LEMMA ReadLemma ==
  ASSUME NEW k \in Caches, CacheOK(k), NEW b \in Blocks
  PROVE  LET r == cache_blk_read(k, b) IN
         /\ r \in Caches
         /\ CacheOK(r)
         /\ r.ptr[Slot(b)] = CurrentContents(k, b)
         /\ \A x \in Blocks : CurrentContents(r, x) = CurrentContents(k, x)
<1> DEFINE s == Slot(b)
           e == Evict(k, b)
           r == cache_blk_read(k, b)
<1>s. s \in Slots
  BY SlotTag
<1>1. CASE k.index[s] = Tag(b)
  <2>1. r = k
    BY <1>1 DEF cache_blk_read
  <2> QED
    BY <1>1, <2>1 DEF CurrentContents
<1>2. CASE k.index[s] # Tag(b)
  <2>1. r = Fill(e, s, e.disk[b], Tag(b), e.dirty[s])
    BY <1>2 DEF cache_blk_read, read_block
  <2>2. /\ e.disk[b] = CurrentContents(k, b)
        /\ e.disk[b] \in Contents
        /\ e.dirty[s] \in {0, 1}
    <3>1. e \in Caches /\ e.disk[b] = k.disk[b]
      BY <1>2, EvictLemma
    <3> QED
      BY <1>2, <1>s, <3>1, CacheFields DEF CurrentContents
  <2>3. /\ r \in Caches
        /\ CacheOK(r)
        /\ r.ptr[s] = e.disk[b]
        /\ \A x \in Blocks : CurrentContents(r, x) =
                              IF x = b THEN e.disk[b] ELSE CurrentContents(k, x)
    BY <2>1, <2>2, FillLemma
  <2> QED
    BY <2>2, <2>3
<1> QED
  BY <1>1, <1>2

\* A cached write changes the current contents of its block and of no other.
LEMMA WriteLemma ==
  ASSUME NEW k \in Caches, CacheOK(k), NEW b \in Blocks, NEW v \in Contents
  PROVE  LET r == cache_blk_write(k, b, v) IN
         /\ r \in Caches
         /\ CacheOK(r)
         /\ \A x \in Blocks : CurrentContents(r, x) =
                               IF x = b THEN v ELSE CurrentContents(k, x)
BY FillLemma DEF cache_blk_write

\* Dropping a block changes the current contents of no other block.
LEMMA InvalidateLemma ==
  ASSUME NEW k \in Caches, CacheOK(k), NEW b \in Blocks
  PROVE  LET r == invalidate(k, b) IN
         /\ r \in Caches
         /\ CacheOK(r)
         /\ \A x \in Blocks \ {b} : CurrentContents(r, x) = CurrentContents(k, x)
<1> DEFINE s == Slot(b)
           r == invalidate(k, b)
<1>s. s \in Slots
  BY SlotTag
<1>f. /\ k.disk \in [Blocks -> Contents]
      /\ k.ptr \in [Slots -> Contents]
      /\ k.index \in [Slots -> Nat \cup {-1}]
      /\ k.dirty \in [Slots -> {0, 1}]
  BY CacheFields
<1>1. CASE k.index[s] # Tag(b)
  BY <1>1 DEF invalidate
<1>2. CASE k.index[s] = Tag(b)
  <2>0. r = Fill(k, s, k.ptr[s], -1, 0)
    BY <1>2 DEF invalidate
  <2>1. r \in Caches
    BY <1>s, <1>f, <2>0, FillType
  <2>2. /\ r.disk = k.disk
        /\ r.index[s] = -1 /\ r.dirty[s] = 0
        /\ \A q \in Slots \ {s} : /\ r.ptr[q] = k.ptr[q]
                                   /\ r.index[q] = k.index[q]
                                   /\ r.dirty[q] = k.dirty[q]
    BY <1>s, <1>f, <2>0 DEF Fill
  <2> HIDE DEF r
  <2>3. CacheOK(r)
    BY <2>2 DEF CacheOK, Held
  <2>4. ASSUME NEW x \in Blocks \ {b}
        PROVE  CurrentContents(r, x) = CurrentContents(k, x)
    <3>1. CASE Slot(x) = s
      <4>1. Tag(x) # Tag(b) /\ Tag(x) # -1
        BY <3>1, SlotTag
      <4> QED
        BY <1>2, <2>2, <3>1, <4>1 DEF CurrentContents
    <3>2. CASE Slot(x) # s
      BY <2>2, <3>2, SlotTag DEF CurrentContents
    <3> QED
      BY <3>1, <3>2
  <2> QED
    BY <2>1, <2>3, <2>4 DEF r
<1> QED
  BY <1>1, <1>2

\* Unmounting writes the current contents of every block to the disk.
LEMMA FlushLemma ==
  ASSUME NEW k \in Caches, CacheOK(k)
  PROVE  LET r == empty_cache(flush(k)) IN
         /\ r \in Caches
         /\ CacheOK(r)
         /\ \A x \in Blocks : CurrentContents(r, x) = CurrentContents(k, x)
<1> DEFINE r == empty_cache(flush(k))
           D == [b \in Blocks |-> IF k.dirty[Slot(b)] = 1 /\ Held(k, Slot(b)) = b
                                  THEN k.ptr[Slot(b)] ELSE k.disk[b]]
<1>f. /\ k.disk \in [Blocks -> Contents]
      /\ k.ptr \in [Slots -> Contents]
      /\ k.index \in [Slots -> Nat \cup {-1}]
      /\ k.dirty \in [Slots -> {0, 1}]
  BY CacheFields
<1>1. r = [disk |-> D, ptr |-> k.ptr, index |-> [s \in Slots |-> -1],
           dirty |-> [s \in Slots |-> 0]]
  <2>1. flush(k).disk = D /\ flush(k).ptr = k.ptr
    BY DEF Caches, flush
  <2> QED
    BY <2>1 DEF empty_cache
<1>2. D \in [Blocks -> Contents]
  BY <1>f, SlotTag
<1>3. ASSUME NEW x \in Blocks PROVE D[x] = CurrentContents(k, x)
  <2>1. Slot(x) \in Slots /\ Tag(x) \in Nat
    BY SlotTag
  <2>2. CASE k.index[Slot(x)] = -1
    <3>1. k.dirty[Slot(x)] = 0
      BY <2>1, <2>2 DEF CacheOK
    <3> QED
      BY <2>1, <2>2, <3>1 DEF CurrentContents
  <2>3. CASE k.index[Slot(x)] # -1
    <3>1. Held(k, Slot(x)) = x <=> k.index[Slot(x)] = Tag(x)
      BY <2>1, <2>3, HeldBlock
    <3>2. k.dirty[Slot(x)] = 0 => k.ptr[Slot(x)] = k.disk[Held(k, Slot(x))]
      BY <2>1, <2>3 DEF CacheOK
    <3> QED
      BY <1>f, <2>1, <3>1, <3>2 DEF CurrentContents
  <2> QED
    BY <2>2, <2>3
<1> HIDE DEF D
<1>4. r \in Caches
  BY <1>1, <1>2, <1>f DEF Caches
<1>5. r.disk = D /\ \A s \in Slots : r.index[s] = -1 /\ r.dirty[s] = 0
  BY <1>1
<1> HIDE DEF r
<1>6. \A x \in Blocks : CurrentContents(r, x) = D[x]
  BY <1>5, SlotTag DEF CurrentContents
<1> QED
  BY <1>3, <1>4, <1>5, <1>6 DEF r, CacheOK

-----------------------------------------------------------------------------
(***************************************************************************)
(* The component.  Inv is inductive: in Spec no block is ever half         *)
(* dropped, the cache is well formed and coherent.                         *)
(***************************************************************************)
Inv == c \in Caches /\ Coherent /\ victim = NoBlock /\ Idle

\* A mounted, empty cache satisfies the invariant.
LEMMA CacheInit == Init => Inv
<1> SUFFICES ASSUME Init PROVE Inv
  OBVIOUS
<1>1. PICK disk \in [Blocks -> Contents], ptr \in [Slots -> Contents] :
        c = [disk |-> disk, ptr |-> ptr,
             index |-> [s \in Slots |-> -1], dirty |-> [s \in Slots |-> 0]]
  BY DEF Init
<1>2. c \in Caches
  BY <1>1 DEF Caches
<1>3. \A s \in Slots : c.index[s] = -1 /\ c.dirty[s] = 0
  BY <1>1
<1> QED
  BY <1>2, <1>3 DEF Init, Inv, Coherent, CacheOK, Idle

\* Every call that goes through the cache preserves it.
LEMMA CacheNext == Inv /\ [Next]_vars => Inv'
<1> SUFFICES ASSUME Inv, [Next]_vars PROVE Inv'
  OBVIOUS
<1> USE DEF Inv, Coherent, Idle
<1>1. ASSUME NEW b \in Blocks, Read(b) PROVE Inv'
  BY <1>1, ReadLemma DEF Read
<1>2. ASSUME NEW b \in Blocks, Discard(b) PROVE Inv'
  BY <1>2, InvalidateLemma DEF Discard
<1>3. ASSUME NEW b \in Blocks, NEW v \in Contents, Write(b, v) PROVE Inv'
  BY <1>3, WriteLemma DEF Write
<1>4. CASE Remount
  BY <1>4, FlushLemma DEF Remount
<1>5. CASE UNCHANGED vars
  BY <1>5 DEF vars
<1> QED
  BY <1>1, <1>2, <1>3, <1>4, <1>5 DEF Next

\* The cache record stays well formed and its clean slots agree with the disk,
\* as long as no block is dropped while another call runs.
THEOREM CacheInvariance == Spec => []Inv
BY CacheInit, CacheNext, PTL DEF Spec

\* The cache record, the block being dropped and the step of the drop keep
\* their types.
THEOREM CacheTypeCorrect == Spec => []TypeOK
<1>1. Inv => TypeOK
  BY DEF Inv, TypeOK, Idle
<1> QED
  BY <1>1, CacheInvariance, PTL

\* A slot that is not dirty agrees with the disk: eviction without write-back
\* loses nothing.
THEOREM CacheCoherent == Spec => []Coherent
<1>1. Inv => Coherent
  BY DEF Inv
<1> QED
  BY <1>1, CacheInvariance, PTL

\* An empty cache shows the disk.
LEMMA RefinesInit == Init => Abs!AbsInit
<1> SUFFICES ASSUME Init PROVE Abs!AbsInit
  OBVIOUS
<1>1. c \in Caches
  BY CacheInit DEF Inv
<1>2. \A b \in Blocks : CurrentContents(c, b) \in Contents
  BY <1>1, CacheFields, SlotTag DEF CurrentContents
<1> QED
  BY <1>2 DEF Abs!AbsInit, Init

\* Every call maps to the same call on an array of blocks.
LEMMA RefinesNext == Inv /\ [Next]_vars => [Abs!AbsNext]_(Abs!absvars)
<1> SUFFICES ASSUME Inv, [Next]_vars
             PROVE  Abs!AbsNext \/ UNCHANGED Abs!absvars
  OBVIOUS
<1> USE DEF Inv, Coherent, Idle
<1>1. ASSUME NEW b \in Blocks, Read(b) PROVE Abs!AbsNext
  <2>1. /\ c' = cache_blk_read(c, b)
        /\ last' = <<"read", b, c'.ptr[Slot(b)]>>
    BY <1>1 DEF Read
  <2>2. /\ c'.ptr[Slot(b)] = CurrentContents(c, b)
        /\ \A x \in Blocks : CurrentContents(c, x)' = CurrentContents(c, x)
    BY <2>1, ReadLemma
  <2>3. Abs!AbsRead(b)
    BY <2>1, <2>2 DEF Abs!AbsRead
  <2> QED
    BY <2>3 DEF Abs!AbsNext
<1>2. ASSUME NEW b \in Blocks, Discard(b) PROVE Abs!AbsNext
  <2>1. c' = invalidate(c, b) /\ last' = <<"discard", b>>
    BY <1>2 DEF Discard
  <2>2. c' \in Caches
        /\ \A x \in Blocks \ {b} : CurrentContents(c, x)' = CurrentContents(c, x)
    BY <2>1, InvalidateLemma
  <2>3. CurrentContents(c, b)' \in Contents
    BY <2>2, CacheFields, SlotTag DEF CurrentContents
  <2>4. Abs!AbsDiscard(b)
    BY <2>1, <2>2, <2>3 DEF Abs!AbsDiscard
  <2> QED
    BY <2>4 DEF Abs!AbsNext
<1>3. ASSUME NEW b \in Blocks, NEW v \in Contents, Write(b, v)
      PROVE  Abs!AbsNext
  <2>1. c' = cache_blk_write(c, b, v) /\ last' = <<"write", b, v>>
    BY <1>3 DEF Write
  <2>2. \A x \in Blocks : CurrentContents(c, x)' =
                          IF x = b THEN v ELSE CurrentContents(c, x)
    BY <2>1, WriteLemma
  <2>3. Abs!AbsWrite(b, v)
    BY <2>1, <2>2 DEF Abs!AbsWrite
  <2> QED
    BY <2>3 DEF Abs!AbsNext
<1>4. CASE Remount
  <2>1. c' = empty_cache(flush(c)) /\ last' = <<"mount">>
    BY <1>4 DEF Remount
  <2>2. \A x \in Blocks : CurrentContents(c, x)' = CurrentContents(c, x)
    BY <2>1, FlushLemma
  <2>3. Abs!AbsRemount
    BY <2>1, <2>2 DEF Abs!AbsRemount
  <2> QED
    BY <2>3 DEF Abs!AbsNext
<1>5. CASE UNCHANGED vars
  BY <1>5 DEF vars, Abs!absvars, CurrentContents
<1> QED
  BY <1>1, <1>2, <1>3, <1>4, <1>5 DEF Next

\* For every number of slots and blocks, the cache behaves like an array of
\* blocks: a read returns what was last written, also after a remount.
THEOREM CacheImplementsStore == Spec => StoreSpec
BY RefinesInit, RefinesNext, CacheInvariance, PTL
   DEF Spec, StoreSpec, Abs!AbsSpec
=============================================================================
