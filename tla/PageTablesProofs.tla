-------------------------- MODULE PageTablesProofs --------------------------
(***************************************************************************)
(* What allocate() does to page tables, for every set of pages, size of a  *)
(* table and number of frames.                                             *)
(***************************************************************************)
EXTENDS PageTables, FiniteSetTheorems, TLAPS

Bit  == {0, 1}
Mems == [pt : PageTableType, user : [UserFrames -> Bit], ospt : [OsFrames -> Bit]]

\* The pool an entry's frame comes from.
Pool(M, e) == IF e[1] = 1 THEN M.user ELSE M.ospt

\* A present entry is reached through present ones.
TreeInv(M) ==
  \A e, n \in Entries : InTable(n, e) /\ M.pt[n] # NoEntry => M.pt[e] # NoEntry

\* No frame in an entry is free, and none is in two entries.
UsedInv(M) ==
  /\ \A e \in Entries : M.pt[e] # NoEntry => Pool(M, e)[M.pt[e].pfn] = 0
  /\ \A e, n \in Entries :
       /\ M.pt[e] # NoEntry /\ M.pt[n] # NoEntry
       /\ e[1] = 1 <=> n[1] = 1
       /\ M.pt[e].pfn = M.pt[n].pfn
       => e = n

MemInv(M) == M \in Mems /\ TreeInv(M) /\ UsedInv(M)

(***************************************************************************)
(* From M to N: entries stay and at most get the write bit, pages stay as  *)
(* they are, and the frames taken are those in the new entries.            *)
(***************************************************************************)
Stays(M, N) ==
  \A e \in Entries : M.pt[e] # NoEntry =>
    /\ N.pt[e] # NoEntry /\ N.pt[e].pfn = M.pt[e].pfn
    /\ M.pt[e].w => N.pt[e].w
    /\ e[1] = 1 => N.pt[e] = M.pt[e]

Fresh(M, N) ==
  \A e \in Entries : M.pt[e] = NoEntry /\ N.pt[e] # NoEntry =>
    Pool(M, e)[N.pt[e].pfn] = 1

Spent(M, N) ==
  /\ \A f \in UserFrames : N.user[f] # M.user[f] =>
       /\ M.user[f] = 1 /\ N.user[f] = 0
       /\ \E e \in Entries : e[1] = 1 /\ N.pt[e] # NoEntry /\ N.pt[e].pfn = f
  /\ \A f \in OsFrames : N.ospt[f] # M.ospt[f] =>
       /\ M.ospt[f] = 1 /\ N.ospt[f] = 0
       /\ \E e \in Entries : e[1] # 1 /\ N.pt[e] # NoEntry /\ N.pt[e].pfn = f

Grows(M, N) == Stays(M, N) /\ Fresh(M, N) /\ Spent(M, N)

-----------------------------------------------------------------------------
\* The entries of a page at the four levels, and their places in the tables.
LEMMA EntryIs ==
  ASSUME NEW p \in Pages
  PROVE  /\ Entry(1, p) = <<1, p>> /\ Entry(2, p) = <<2, Above(p)>>
         /\ Entry(3, p) = <<3, Above(Above(p))>>
         /\ Entry(4, p) = <<4, Above(Above(Above(p)))>>
         /\ \A l \in 1 .. 4 : Entry(l, p) \in Entries /\ Entry(l, p)[1] = l
<1>1. /\ Entry(1, p) = <<1, p>> /\ Entry(2, p) = <<2, Above(p)>>
      /\ Entry(3, p) = <<3, Above(Above(p))>>
      /\ Entry(4, p) = <<4, Above(Above(Above(p)))>>
  BY DEF Entry
<1>2. \A l \in 1 .. 4 : l \in {1, 2, 3, 4}
  OBVIOUS
<1>3. \A l \in 1 .. 4 : Entry(l, p)[1] = l
  BY <1>1, <1>2
<1> QED
  BY <1>1, <1>3 DEF Entries

\* Every entry is one of some page.
LEMMA EntryOf ==
  ASSUME NEW e \in Entries
  PROVE  \E l \in 1 .. 4, p \in Pages : e = Entry(l, p) /\ e[1] = l
<1>1. PICK l \in 1 .. 4, p \in Pages : e = Entry(l, p)
  BY DEF Entries
<1> QED
  BY <1>1, EntryIs

\* Different pages have different entries at level 1.
LEMMA PageEntry ==
  /\ \A p, q \in Pages : Entry(1, p) = Entry(1, q) => p = q
  /\ \A e \in Entries : e[1] = 1 => \E p \in Pages : e = Entry(1, p)
<1>1. \A p, q \in Pages : Entry(1, p) = Entry(1, q) => p = q
  BY EntryIs
<1>2. \A e \in Entries : e[1] = 1 => \E p \in Pages : e = Entry(1, p)
  BY EntryOf
<1> QED
  BY <1>1, <1>2

\* The table that holds an entry of a page is that of the page's entry above.
LEMMA TableAbove ==
  ASSUME NEW p \in Pages
  PROVE  /\ \A l \in 1 .. 3 : InTable(Entry(l, p), Entry(l + 1, p))
         /\ \A l \in 1 .. 3, e \in Entries :
              InTable(Entry(l, p), e) => e = Entry(l + 1, p)
         /\ \A e \in Entries : ~InTable(Entry(4, p), e)
<1>1. \A e \in Entries : e[1] \in 1 .. 4 /\ e = <<e[1], e[2]>>
  <2> SUFFICES ASSUME NEW e \in Entries PROVE e[1] \in 1 .. 4 /\ e = <<e[1], e[2]>>
    OBVIOUS
  <2>1. PICK l \in 1 .. 4, q \in Pages : e = Entry(l, q) /\ e[1] = l
    BY EntryOf
  <2>2. PICK x : e = <<l, x>>
    BY <2>1 DEF Entry
  <2> QED
    BY <2>1, <2>2
<1>2. \A l \in 1 .. 3 : l \in {1, 2, 3}
  OBVIOUS
<1>3. \A l \in 1 .. 3 : InTable(Entry(l, p), Entry(l + 1, p))
  <2> SUFFICES ASSUME NEW l \in 1 .. 3 PROVE InTable(Entry(l, p), Entry(l + 1, p))
    OBVIOUS
  <2>1. l = 1 \/ l = 2 \/ l = 3
    OBVIOUS
  <2>2. /\ InTable(Entry(1, p), Entry(2, p)) /\ InTable(Entry(2, p), Entry(3, p))
        /\ InTable(Entry(3, p), Entry(4, p))
    BY EntryIs DEF InTable
  <2>3. 1 + 1 = 2 /\ 2 + 1 = 3 /\ 3 + 1 = 4
    OBVIOUS
  <2> QED
    BY <2>1, <2>2, <2>3
<1>4. \A l \in 1 .. 3, e \in Entries : InTable(Entry(l, p), e) => e = Entry(l + 1, p)
  <2> SUFFICES ASSUME NEW l \in 1 .. 3, NEW e \in Entries, InTable(Entry(l, p), e)
               PROVE  e = Entry(l + 1, p)
    OBVIOUS
  <2>1. e[1] - 1 = l /\ e[1] = l + 1 /\ e[2] = Above(Entry(l, p)[2])
    BY <1>1, EntryIs DEF InTable
  <2>2. l = 1 \/ l = 2 \/ l = 3
    OBVIOUS
  <2>3. CASE l = 1
    <3>1. l + 1 = 2 /\ Entry(l, p) = <<1, p>>
      BY <2>3, EntryIs
    <3> QED
      BY <1>1, <2>1, <3>1, EntryIs
  <2>4. CASE l = 2
    <3>1. l + 1 = 3 /\ Entry(l, p) = <<2, Above(p)>>
      BY <2>4, EntryIs
    <3> QED
      BY <1>1, <2>1, <3>1, EntryIs
  <2>5. CASE l = 3
    <3>1. l + 1 = 4 /\ Entry(l, p) = <<3, Above(Above(p))>>
      BY <2>5, EntryIs
    <3> QED
      BY <1>1, <2>1, <3>1, EntryIs
  <2> QED
    BY <2>2, <2>3, <2>4, <2>5
<1>5. \A e \in Entries : ~InTable(Entry(4, p), e)
  <2>1. Entry(4, p)[1] = 4
    BY EntryIs
  <2> QED
    BY <1>1, <2>1 DEF InTable
<1> QED
  BY <1>3, <1>4, <1>5

\* A page table is a function whose entries have their types.
LEMMA PageTableIs ==
  /\ \A t \in PageTableType : t = [e \in Entries |-> t[e]] /\ DOMAIN t = Entries
  /\ \A t \in PageTableType, e \in Entries : t[e] \in EntryType(e)
  /\ \A t : t = [e \in Entries |-> t[e]] /\ (\A e \in Entries : t[e] \in EntryType(e))
       => t \in PageTableType
BY DEF PageTableType

\* The frame of an entry is in the pool of its level.
LEMMA EntryFrame ==
  ASSUME NEW e \in Entries, NEW x \in EntryType(e), x # NoEntry
  PROVE  /\ x.pfn \in IF e[1] = 1 THEN UserFrames ELSE OsFrames
         /\ x.w \in BOOLEAN
         /\ x = [pfn |-> x.pfn, w |-> x.w]
BY DEF EntryType

\* An entry with a frame of its pool is present.
LEMMA MadeEntry ==
  ASSUME NEW e \in Entries, NEW f \in IF e[1] = 1 THEN UserFrames ELSE OsFrames,
         NEW w \in BOOLEAN
  PROVE  [pfn |-> f, w |-> w] \in EntryType(e) /\ [pfn |-> f, w |-> w] # NoEntry
BY PageTableAssumptions DEF EntryType

\* The allocator takes a free frame and no other.
LEMMA TakenIs ==
  ASSUME NEW F, NEW pool \in [F -> Bit], Free(pool) # {}
  PROVE  /\ os_pfn_alloc(pool) \in F /\ pool[os_pfn_alloc(pool)] = 1
         /\ Taken(pool) \in [F -> Bit] /\ Taken(pool)[os_pfn_alloc(pool)] = 0
         /\ \A f \in F \ {os_pfn_alloc(pool)} : Taken(pool)[f] = pool[f]
         /\ Free(Taken(pool)) = Free(pool) \ {os_pfn_alloc(pool)}
         /\ os_pfn_alloc(pool) \in Free(pool)
<1>1. PICK g : g = os_pfn_alloc(pool)
  OBVIOUS
<1>2. g \in Free(pool)
  BY <1>1 DEF os_pfn_alloc
<1>3. g \in F /\ pool[g] = 1
  BY <1>2 DEF Free, Bit
<1>4. Taken(pool) = [pool EXCEPT ![g] = 0]
  BY <1>1, <1>3 DEF Taken
<1>5. /\ Taken(pool) \in [F -> Bit] /\ Taken(pool)[g] = 0
      /\ \A f \in F \ {g} : Taken(pool)[f] = pool[f]
  BY <1>3, <1>4 DEF Bit
<1>6. \A f : f \in Free(Taken(pool)) <=> f \in Free(pool) \ {g}
  BY <1>3, <1>5 DEF Free
<1>7. Free(Taken(pool)) = Free(pool) \ {g}
  BY <1>6
<1> QED
  BY <1>1, <1>2, <1>3, <1>5, <1>7

\* The parts of a memory.
LEMMA MemIs ==
  ASSUME NEW M \in Mems
  PROVE  /\ M.pt \in PageTableType /\ M.user \in [UserFrames -> Bit]
         /\ M.ospt \in [OsFrames -> Bit] /\ M \in Memories
         /\ \A e \in Entries : M.pt[e] # NoEntry =>
              M.pt[e].pfn \in IF e[1] = 1 THEN UserFrames ELSE OsFrames
<1>1. /\ M.pt \in PageTableType /\ M.user \in [UserFrames -> Bit]
      /\ M.ospt \in [OsFrames -> Bit]
  BY DEF Mems
<1>2. M \in Memories
  BY DEF Mems, Memories, Bit
<1>3. \A e \in Entries : M.pt[e] \in EntryType(e)
  BY <1>1, PageTableIs
<1> QED
  BY <1>1, <1>2, <1>3, EntryFrame

\* A memory that stays grows by nothing.
LEMMA GrowsSelf ==
  ASSUME NEW M \in Mems
  PROVE  Grows(M, M)
BY DEF Grows, Stays, Fresh, Spent

\* What grows in two steps grows.
LEMMA GrowsTrans ==
  ASSUME NEW L, NEW M, NEW N, MemInv(L), MemInv(M), MemInv(N), Grows(L, M), Grows(M, N)
  PROVE  Grows(L, N)
<1>1. Stays(L, N)
  BY DEF Grows, Stays
<1>2. L \in Mems /\ M \in Mems /\ N \in Mems
  BY DEF MemInv
<1>3. Spent(L, N)
  <2>1. \A f \in UserFrames : N.user[f] # L.user[f] =>
          /\ L.user[f] = 1 /\ N.user[f] = 0
          /\ \E e \in Entries : e[1] = 1 /\ N.pt[e] # NoEntry /\ N.pt[e].pfn = f
    <3> SUFFICES ASSUME NEW f \in UserFrames, N.user[f] # L.user[f]
                 PROVE  /\ L.user[f] = 1 /\ N.user[f] = 0
                        /\ \E e \in Entries : e[1] = 1 /\ N.pt[e] # NoEntry /\ N.pt[e].pfn = f
      OBVIOUS
    <3>1. CASE N.user[f] # M.user[f]
      BY <3>1 DEF Grows, Spent
    <3>2. CASE N.user[f] = M.user[f]
      <4>1. PICK e \in Entries : e[1] = 1 /\ M.pt[e] # NoEntry /\ M.pt[e].pfn = f
        BY <3>2 DEF Grows, Spent
      <4>2. N.pt[e] # NoEntry /\ N.pt[e].pfn = f
        BY <4>1 DEF Grows, Stays
      <4> QED
        BY <3>2, <4>1, <4>2 DEF Grows, Spent
    <3> QED
      BY <3>1, <3>2
  <2>2. \A f \in OsFrames : N.ospt[f] # L.ospt[f] =>
          /\ L.ospt[f] = 1 /\ N.ospt[f] = 0
          /\ \E e \in Entries : e[1] # 1 /\ N.pt[e] # NoEntry /\ N.pt[e].pfn = f
    <3> SUFFICES ASSUME NEW f \in OsFrames, N.ospt[f] # L.ospt[f]
                 PROVE  /\ L.ospt[f] = 1 /\ N.ospt[f] = 0
                        /\ \E e \in Entries : e[1] # 1 /\ N.pt[e] # NoEntry /\ N.pt[e].pfn = f
      OBVIOUS
    <3>1. CASE N.ospt[f] # M.ospt[f]
      BY <3>1 DEF Grows, Spent
    <3>2. CASE N.ospt[f] = M.ospt[f]
      <4>1. PICK e \in Entries : e[1] # 1 /\ M.pt[e] # NoEntry /\ M.pt[e].pfn = f
        BY <3>2 DEF Grows, Spent
      <4>2. N.pt[e] # NoEntry /\ N.pt[e].pfn = f
        BY <4>1 DEF Grows, Stays
      <4> QED
        BY <3>2, <4>1, <4>2 DEF Grows, Spent
    <3> QED
      BY <3>1, <3>2
  <2> QED
    BY <2>1, <2>2 DEF Spent
<1>4. Fresh(L, N)
  <2> SUFFICES ASSUME NEW e \in Entries, L.pt[e] = NoEntry, N.pt[e] # NoEntry
               PROVE  Pool(L, e)[N.pt[e].pfn] = 1
    BY DEF Fresh
  <2>1. CASE M.pt[e] # NoEntry
    <3>1. N.pt[e].pfn = M.pt[e].pfn
      BY <2>1 DEF Grows, Stays
    <3> QED
      BY <2>1, <3>1 DEF Grows, Fresh
  <2>2. CASE M.pt[e] = NoEntry
    <3>1. PICK f : f = N.pt[e].pfn
      OBVIOUS
    <3>2. Pool(M, e)[f] = 1 /\ f \in IF e[1] = 1 THEN UserFrames ELSE OsFrames
      BY <1>2, <2>2, <3>1, MemIs DEF Grows, Fresh
    <3>3. CASE e[1] = 1
      <4>1. f \in UserFrames /\ M.user[f] = 1 /\ 1 # 0
        BY <3>2, <3>3 DEF Pool
      <4>2. L.user[f] = 1
        BY <4>1 DEF Grows, Spent
      <4> QED
        BY <3>1, <3>3, <4>2 DEF Pool
    <3>4. CASE e[1] # 1
      <4>1. f \in OsFrames /\ M.ospt[f] = 1 /\ 1 # 0
        BY <3>2, <3>4 DEF Pool
      <4>2. L.ospt[f] = 1
        BY <4>1 DEF Grows, Spent
      <4> QED
        BY <3>1, <3>4, <4>2 DEF Pool
    <3> QED
      BY <3>3, <3>4
  <2> QED
    BY <2>1, <2>2
<1> QED
  BY <1>1, <1>3, <1>4 DEF Grows

\* One more entry, with a frame that was free, in a table that is there.
LEMMA PutEntry ==
  ASSUME NEW M, NEW N, MemInv(M), N \in Mems, NEW e \in Entries,
         M.pt[e] = NoEntry, N.pt[e] # NoEntry,
         \A n \in Entries \ {e} : N.pt[n] = M.pt[n],
         \A x \in Entries : InTable(e, x) => M.pt[x] # NoEntry,
         NEW g, g = N.pt[e].pfn,
         Pool(M, e)[g] = 1, Pool(N, e)[g] = 0,
         e[1] = 1 => N.ospt = M.ospt /\ \A f \in UserFrames \ {g} : N.user[f] = M.user[f],
         e[1] # 1 => N.user = M.user /\ \A f \in OsFrames \ {g} : N.ospt[f] = M.ospt[f]
  PROVE  MemInv(N) /\ Grows(M, N)
<1>1. M \in Mems /\ TreeInv(M) /\ UsedInv(M)
  BY DEF MemInv
<1>2. g \in IF e[1] = 1 THEN UserFrames ELSE OsFrames
  BY MemIs
<1>3. TreeInv(N)
  <2> SUFFICES ASSUME NEW x \in Entries, NEW n \in Entries, InTable(n, x), N.pt[n] # NoEntry
               PROVE  N.pt[x] # NoEntry
    BY DEF TreeInv
  <2>1. CASE x = e
    BY <2>1
  <2>2. CASE x # e
    <3>1. M.pt[x] # NoEntry
      BY <1>1 DEF TreeInv
    <3> QED
      BY <2>2, <3>1
  <2> QED
    BY <2>1, <2>2
<1>4. \A n \in Entries \ {e} : N.pt[n] # NoEntry /\ (n[1] = 1 <=> e[1] = 1) =>
         /\ M.pt[n] # NoEntry /\ N.pt[n].pfn # g /\ Pool(M, n)[M.pt[n].pfn] = 0
  BY <1>1 DEF UsedInv, Pool
<1>5. UsedInv(N)
  <2>1. \A n \in Entries : N.pt[n] # NoEntry => Pool(N, n)[N.pt[n].pfn] = 0
    <3> SUFFICES ASSUME NEW n \in Entries, N.pt[n] # NoEntry
                 PROVE  Pool(N, n)[N.pt[n].pfn] = 0
      OBVIOUS
    <3>1. CASE n = e
      BY <3>1
    <3>2. CASE n # e
      <4>1. M.pt[n] # NoEntry /\ N.pt[n] = M.pt[n] /\ Pool(M, n)[M.pt[n].pfn] = 0
        BY <1>1, <3>2 DEF UsedInv
      <4>2. M.pt[n].pfn \in IF n[1] = 1 THEN UserFrames ELSE OsFrames
        BY <1>1, <4>1, MemIs
      <4> QED
        BY <1>4, <3>2, <4>1, <4>2 DEF Pool
    <3> QED
      BY <3>1, <3>2
  <2>2. \A x, n \in Entries :
          /\ N.pt[x] # NoEntry /\ N.pt[n] # NoEntry
          /\ x[1] = 1 <=> n[1] = 1
          /\ N.pt[x].pfn = N.pt[n].pfn
          => x = n
    <3> SUFFICES ASSUME NEW x \in Entries, NEW n \in Entries,
                        N.pt[x] # NoEntry, N.pt[n] # NoEntry,
                        x[1] = 1 <=> n[1] = 1, N.pt[x].pfn = N.pt[n].pfn
                 PROVE  x = n
      OBVIOUS
    <3>1. CASE x = e \/ n = e
      BY <1>4, <3>1
    <3>2. CASE x # e /\ n # e
      <4>1. N.pt[x] = M.pt[x] /\ N.pt[n] = M.pt[n]
        BY <3>2
      <4> QED
        BY <1>1, <4>1 DEF UsedInv
    <3> QED
      BY <3>1, <3>2
  <2> QED
    BY <2>1, <2>2 DEF UsedInv
<1>6. Stays(M, N) /\ Fresh(M, N)
  BY DEF Stays, Fresh
<1>7. Spent(M, N)
  BY <1>1, <1>2 DEF Spent, Pool
<1> QED
  BY <1>3, <1>5, <1>6, <1>7 DEF MemInv, Grows

\* Without one frame of n + 1, n are left.
LEMMA FreeLeft ==
  ASSUME NEW F, IsFiniteSet(F), NEW pool \in [F -> Bit], NEW left \in [F -> Bit],
         NEW x, Free(pool) \ {x} \subseteq Free(left), NEW n \in Nat,
         Cardinality(Free(pool)) >= n + 1
  PROVE  Cardinality(Free(left)) >= n
<1>1. IsFiniteSet(Free(pool)) /\ IsFiniteSet(Free(left))
  <2>1. Free(pool) \subseteq F /\ Free(left) \subseteq F
    BY DEF Free
  <2> QED
    BY <2>1, FS_Subset
<1>2. /\ Cardinality(Free(pool)) \in Nat /\ Cardinality(Free(left)) \in Nat
  BY <1>1, FS_CardinalityType
<1>3. /\ IsFiniteSet(Free(pool) \ {x})
      /\ Cardinality(Free(pool) \ {x}) \in Nat /\ Cardinality(Free(pool) \ {x}) >= n
  <2>1. PICK S, c : S = Free(pool) \ {x} /\ c = Cardinality(Free(pool))
    OBVIOUS
  <2>2. IsFiniteSet(S) /\ (Cardinality(S) = c \/ Cardinality(S) = c - 1)
    BY <1>1, <2>1, FS_RemoveElement
  <2>3. Cardinality(S) \in Nat /\ c \in Nat /\ c >= n + 1
    BY <1>2, <2>1, <2>2, FS_CardinalityType
  <2>4. Cardinality(S) >= n
    BY <2>2, <2>3
  <2> QED
    BY <2>1, <2>2, <2>3, <2>4
<1>4. Cardinality(Free(pool) \ {x}) <= Cardinality(Free(left))
  BY <1>1, FS_Subset
<1> QED
  BY <1>2, <1>3, <1>4

\* Where some frame is counted there is one.
LEMMA SomeFree ==
  ASSUME NEW pool, NEW n \in Nat, Cardinality(Free(pool)) >= n + 1
  PROVE  Free(pool) # {}
<1>1. Cardinality({}) = 0
  BY FS_EmptySet
<1> QED
  BY <1>1

\* Only entries of page p change.
Along(M, N, p) ==
  \A n \in Entries : (\A l \in 1 .. 4 : n # Entry(l, p)) => N.pt[n] = M.pt[n]

LevelDone(M, N, l, p, w) ==
  /\ MemInv(N) /\ Grows(M, N) /\ N.user = M.user
  /\ N.pt[Entry(l, p)] # NoEntry /\ (w => N.pt[Entry(l, p)].w)
  /\ Free(M.ospt) \ {os_pfn_alloc(M.ospt)} \subseteq Free(N.ospt)
  /\ \A n \in Entries \ {Entry(l, p)} : N.pt[n] = M.pt[n]

\* One level of allocate(): the table is there, writable if asked for.
LEMMA DescendOK ==
  ASSUME NEW M, MemInv(M), NEW l \in 2 .. 4, NEW p \in Pages, NEW w \in BOOLEAN,
         l # 4 => M.pt[Entry(l + 1, p)] # NoEntry, Free(M.ospt) # {},
         NEW N, N = Descend(M, l, p, w)
  PROVE  LevelDone(M, N, l, p, w)
<1>1. M \in Mems /\ TreeInv(M) /\ UsedInv(M)
  BY DEF MemInv
<1>2. /\ M.pt \in PageTableType /\ M.user \in [UserFrames -> Bit]
      /\ M.ospt \in [OsFrames -> Bit]
  BY <1>1, MemIs
<1>3. PICK e : e = Entry(l, p)
  OBVIOUS
<1>4. e \in Entries /\ e[1] = l /\ e[1] # 1
  BY <1>3, EntryIs
<1>5. M.pt[e] \in EntryType(e) /\ DOMAIN M.pt = Entries
  BY <1>2, <1>4, PageTableIs
<1>6. CASE M.pt[e] = NoEntry
  <2>1. PICK g, r, t : /\ g = os_pfn_alloc(M.ospt)
                       /\ r = [pfn |-> g, w |-> w]
                       /\ t = [n \in Entries |-> IF n = e THEN r
                                                 ELSE IF InTable(n, e) THEN NoEntry
                                                 ELSE M.pt[n]]
    OBVIOUS
  <2>2. N = [pt |-> t, user |-> M.user, ospt |-> Taken(M.ospt)]
    BY <1>3, <1>6, <2>1 DEF Descend
  <2>3. N.pt = t /\ N.user = M.user /\ N.ospt = Taken(M.ospt)
    BY <2>2
  <2>4. /\ g \in OsFrames /\ M.ospt[g] = 1 /\ g \in Free(M.ospt)
        /\ Taken(M.ospt) \in [OsFrames -> Bit] /\ Taken(M.ospt)[g] = 0
        /\ \A f \in OsFrames \ {g} : Taken(M.ospt)[f] = M.ospt[f]
        /\ Free(Taken(M.ospt)) = Free(M.ospt) \ {g}
    BY <1>2, <2>1, TakenIs
  <2>5. r \in EntryType(e) /\ r # NoEntry /\ r.pfn = g /\ (w => r.w)
    BY <1>4, <2>1, <2>4, MadeEntry
  <2>6. /\ t = [n \in Entries |-> t[n]] /\ t[e] = r
        /\ \A n \in Entries \ {e} : t[n] = IF InTable(n, e) THEN NoEntry ELSE M.pt[n]
    BY <1>4, <2>1
  <2>7. \A n \in Entries \ {e} : t[n] = M.pt[n]
    BY <1>1, <1>4, <1>6, <2>6 DEF TreeInv
  <2>8. t \in PageTableType
    <3>1. \A n \in Entries : t[n] \in EntryType(n)
      BY <1>2, <2>5, <2>6, <2>7, PageTableIs
    <3> QED
      BY <2>6, <3>1, PageTableIs
  <2>9. N \in Mems
    BY <1>2, <2>2, <2>4, <2>8 DEF Mems
  <2>10. \A x \in Entries : InTable(e, x) => M.pt[x] # NoEntry
    <3>1. CASE l = 4
      BY <1>3, <3>1, TableAbove
    <3>2. CASE l # 4
      <4>1. l \in 1 .. 3
        BY <3>2
      <4> QED
        BY <1>3, <3>2, <4>1, TableAbove
    <3> QED
      BY <3>1, <3>2
  <2>11. /\ N.pt[e] # NoEntry /\ g = N.pt[e].pfn
         /\ \A n \in Entries \ {e} : N.pt[n] = M.pt[n]
         /\ Pool(M, e)[g] = 1 /\ Pool(N, e)[g] = 0
         /\ \A f \in OsFrames \ {g} : N.ospt[f] = M.ospt[f]
    BY <1>4, <2>3, <2>4, <2>5, <2>6, <2>7 DEF Pool
  <2>12. MemInv(N) /\ Grows(M, N)
    BY <1>4, <1>6, <2>3, <2>9, <2>10, <2>11, PutEntry
  <2>13. w => N.pt[e].w
    BY <2>3, <2>5, <2>6
  <2> QED
    BY <1>3, <2>1, <2>3, <2>4, <2>11, <2>12, <2>13 DEF LevelDone
<1>7. CASE M.pt[e] # NoEntry
  <2>1. PICK r, t : /\ r = [pfn |-> M.pt[e].pfn, w |-> M.pt[e].w \/ w]
                    /\ t = [M.pt EXCEPT ![e] = r]
    OBVIOUS
  <2>2. N = [pt |-> t, user |-> M.user, ospt |-> M.ospt]
    BY <1>3, <1>4, <1>5, <1>7, <2>1 DEF Descend
  <2>3. N.pt = t /\ N.user = M.user /\ N.ospt = M.ospt
    BY <2>2
  <2>4. M.pt[e].pfn \in OsFrames /\ M.pt[e].w \in BOOLEAN
    BY <1>4, <1>5, <1>7, EntryFrame
  <2>5. r \in EntryType(e) /\ r # NoEntry
    <3>1. PICK v \in BOOLEAN : v = (M.pt[e].w \/ w)
      BY <2>4
    <3> QED
      BY <1>4, <2>1, <2>4, <3>1, MadeEntry
  <2>6. r.pfn = M.pt[e].pfn /\ (w => r.w) /\ (M.pt[e].w => r.w)
    BY <2>1
  <2>7. t = [n \in Entries |-> t[n]] /\ t[e] = r /\ \A n \in Entries \ {e} : t[n] = M.pt[n]
    BY <1>2, <1>4, <1>5, <2>1, PageTableIs
  <2>8. t \in PageTableType
    <3>1. \A n \in Entries : t[n] \in EntryType(n)
      BY <1>2, <2>5, <2>7, PageTableIs
    <3> QED
      BY <2>7, <3>1, PageTableIs
  <2>9. N \in Mems
    BY <1>2, <2>2, <2>8 DEF Mems
  <2>10. \A n \in Entries : (N.pt[n] = NoEntry <=> M.pt[n] = NoEntry)
                            /\ (M.pt[n] # NoEntry => N.pt[n].pfn = M.pt[n].pfn)
    BY <1>7, <2>3, <2>5, <2>6, <2>7
  <2>11. TreeInv(N) /\ UsedInv(N)
    BY <1>1, <2>3, <2>10 DEF TreeInv, UsedInv, Pool
  <2>12. \A n \in Entries : M.pt[n] # NoEntry => (M.pt[n].w => N.pt[n].w)
                                                 /\ (n[1] = 1 => N.pt[n] = M.pt[n])
    BY <1>4, <2>3, <2>6, <2>7
  <2>13. Grows(M, N)
    BY <2>3, <2>10, <2>12 DEF Grows, Stays, Fresh, Spent
  <2>14. w => N.pt[e].w
    BY <2>3, <2>6, <2>7
  <2> QED
    BY <1>3, <2>3, <2>5, <2>7, <2>9, <2>11, <2>13, <2>14 DEF MemInv, LevelDone
<1> QED
  BY <1>6, <1>7

\* The three levels of tables: each is there, writable if asked for, and at most
\* three frames are taken.
LEMMA TablesOK ==
  ASSUME NEW M, MemInv(M), NEW p \in Pages, NEW w \in BOOLEAN, NEW k \in Nat,
         Cardinality(Free(M.ospt)) >= k + 3,
         NEW N, N = Tables(M, p, w)
  PROVE  /\ MemInv(N) /\ Grows(M, N) /\ N.user = M.user
         /\ \A l \in 2 .. 4 : N.pt[Entry(l, p)] # NoEntry /\ (w => N.pt[Entry(l, p)].w)
         /\ Cardinality(Free(N.ospt)) >= k /\ Along(M, N, p)
         /\ \A n \in Entries : n[1] = 1 => N.pt[n] = M.pt[n]
<1>1. PICK A, B : A = Descend(M, 4, p, w) /\ B = Descend(A, 3, p, w)
  OBVIOUS
<1>2. N = Descend(B, 2, p, w)
  BY <1>1 DEF Tables
<1>3. IsFiniteSet(OsFrames)
  BY PageTableAssumptions
<1>4. /\ Entry(4, p) \in Entries /\ Entry(3, p) \in Entries /\ Entry(2, p) \in Entries
      /\ Entry(4, p)[1] # 1 /\ Entry(3, p)[1] # 1 /\ Entry(2, p)[1] # 1
  BY EntryIs
<1>5. /\ MemInv(A) /\ Grows(M, A) /\ A.user = M.user
      /\ A.pt[Entry(4, p)] # NoEntry /\ (w => A.pt[Entry(4, p)].w)
      /\ Cardinality(Free(A.ospt)) >= k + 2
      /\ \A n \in Entries \ {Entry(4, p)} : A.pt[n] = M.pt[n]
      /\ \A n \in Entries : n[1] = 1 => A.pt[n] = M.pt[n]
  <2>1. Cardinality(Free(M.ospt)) >= (k + 2) + 1 /\ k + 2 \in Nat
    OBVIOUS
  <2>2. Free(M.ospt) # {}
    BY <2>1, SomeFree
  <2>3. 4 \in 2 .. 4
    OBVIOUS
  <2>4. /\ MemInv(A) /\ Grows(M, A) /\ A.user = M.user
        /\ A.pt[Entry(4, p)] # NoEntry /\ (w => A.pt[Entry(4, p)].w)
        /\ Free(M.ospt) \ {os_pfn_alloc(M.ospt)} \subseteq Free(A.ospt)
        /\ \A n \in Entries \ {Entry(4, p)} : A.pt[n] = M.pt[n]
    BY <1>1, <2>2, <2>3, DescendOK DEF LevelDone
  <2>5. M.ospt \in [OsFrames -> Bit] /\ A.ospt \in [OsFrames -> Bit]
    BY <2>4, MemIs DEF MemInv
  <2>6. Cardinality(Free(A.ospt)) >= k + 2
    BY <1>3, <2>1, <2>4, <2>5, FreeLeft
  <2> QED
    BY <1>4, <2>4, <2>6
<1>6. /\ MemInv(B) /\ Grows(A, B) /\ B.user = A.user
      /\ B.pt[Entry(3, p)] # NoEntry /\ (w => B.pt[Entry(3, p)].w)
      /\ Cardinality(Free(B.ospt)) >= k + 1
      /\ \A n \in Entries \ {Entry(3, p)} : B.pt[n] = A.pt[n]
      /\ \A n \in Entries : n[1] = 1 => B.pt[n] = A.pt[n]
  <2>1. Cardinality(Free(A.ospt)) >= (k + 1) + 1 /\ k + 1 \in Nat
    BY <1>5
  <2>2. Free(A.ospt) # {}
    BY <2>1, SomeFree
  <2>3. PICK l \in 2 .. 4 : l = 3
    OBVIOUS
  <2>7. A.pt[Entry(l + 1, p)] # NoEntry
    <3>1. l + 1 = 4
      BY <2>3
    <3> QED
      BY <1>5, <3>1
  <2>9. B = Descend(A, l, p, w)
    BY <1>1, <2>3
  <2>10. MemInv(A)
    BY <1>5
  <2>8. LevelDone(A, B, l, p, w)
    BY <2>2, <2>7, <2>9, <2>10, DescendOK
  <2>4. /\ MemInv(B) /\ Grows(A, B) /\ B.user = A.user
        /\ B.pt[Entry(3, p)] # NoEntry /\ (w => B.pt[Entry(3, p)].w)
        /\ Free(A.ospt) \ {os_pfn_alloc(A.ospt)} \subseteq Free(B.ospt)
        /\ \A n \in Entries \ {Entry(3, p)} : B.pt[n] = A.pt[n]
    BY <2>3, <2>8 DEF LevelDone
  <2>5. A.ospt \in [OsFrames -> Bit] /\ B.ospt \in [OsFrames -> Bit]
    BY <1>5, <2>4, MemIs DEF MemInv
  <2>6. Cardinality(Free(B.ospt)) >= k + 1
    BY <1>3, <2>1, <2>4, <2>5, FreeLeft
  <2> QED
    BY <1>4, <2>4, <2>6
<1>7. /\ MemInv(N) /\ Grows(B, N) /\ N.user = B.user
      /\ N.pt[Entry(2, p)] # NoEntry /\ (w => N.pt[Entry(2, p)].w)
      /\ Cardinality(Free(N.ospt)) >= k
      /\ \A n \in Entries \ {Entry(2, p)} : N.pt[n] = B.pt[n]
      /\ \A n \in Entries : n[1] = 1 => N.pt[n] = B.pt[n]
  <2>1. Cardinality(Free(B.ospt)) >= k + 1
    BY <1>6
  <2>2. Free(B.ospt) # {}
    BY <2>1, SomeFree
  <2>3. PICK l \in 2 .. 4 : l = 2
    OBVIOUS
  <2>7. B.pt[Entry(l + 1, p)] # NoEntry
    <3>1. l + 1 = 3
      BY <2>3
    <3> QED
      BY <1>6, <3>1
  <2>9. N = Descend(B, l, p, w)
    BY <1>2, <2>3
  <2>10. MemInv(B)
    BY <1>6
  <2>8. LevelDone(B, N, l, p, w)
    BY <2>2, <2>7, <2>9, <2>10, DescendOK
  <2>4. /\ MemInv(N) /\ Grows(B, N) /\ N.user = B.user
        /\ N.pt[Entry(2, p)] # NoEntry /\ (w => N.pt[Entry(2, p)].w)
        /\ Free(B.ospt) \ {os_pfn_alloc(B.ospt)} \subseteq Free(N.ospt)
        /\ \A n \in Entries \ {Entry(2, p)} : N.pt[n] = B.pt[n]
    BY <2>3, <2>8 DEF LevelDone
  <2>5. B.ospt \in [OsFrames -> Bit] /\ N.ospt \in [OsFrames -> Bit]
    BY <1>6, <2>4, MemIs DEF MemInv
  <2>6. Cardinality(Free(N.ospt)) >= k
    BY <1>3, <2>1, <2>4, <2>5, FreeLeft
  <2> QED
    BY <1>4, <2>4, <2>6
<1>8. Grows(A, N) /\ Grows(M, N)
  BY <1>5, <1>6, <1>7, GrowsTrans
<1>9. \A l \in 2 .. 4 : N.pt[Entry(l, p)] # NoEntry /\ (w => N.pt[Entry(l, p)].w)
  <2> SUFFICES ASSUME NEW l \in 2 .. 4
               PROVE  N.pt[Entry(l, p)] # NoEntry /\ (w => N.pt[Entry(l, p)].w)
    OBVIOUS
  <2>1. CASE l = 2
    BY <1>7, <2>1
  <2>2. CASE l = 3
    BY <1>4, <1>6, <1>7, <2>2 DEF Grows, Stays
  <2>3. CASE l = 4
    BY <1>4, <1>5, <1>8, <2>3 DEF Grows, Stays
  <2> QED
    BY <2>1, <2>2, <2>3
<1>10. Along(M, N, p)
  <2> SUFFICES ASSUME NEW n \in Entries, \A l \in 1 .. 4 : n # Entry(l, p)
               PROVE  N.pt[n] = M.pt[n]
    BY DEF Along
  <2>1. n # Entry(2, p) /\ n # Entry(3, p) /\ n # Entry(4, p)
    OBVIOUS
  <2> QED
    BY <1>5, <1>6, <1>7, <2>1
<1> QED
  BY <1>5, <1>6, <1>7, <1>8, <1>9, <1>10

PageDone(M, N, p, w) ==
  /\ MemInv(N) /\ Grows(M, N) /\ N.ospt = M.ospt
  /\ N.pt[Entry(1, p)] # NoEntry
  /\ M.pt[Entry(1, p)] = NoEntry => N.pt[Entry(1, p)].w = w
  /\ Free(M.user) \ {os_pfn_alloc(M.user)} \subseteq Free(N.user)
  /\ \A n \in Entries \ {Entry(1, p)} : N.pt[n] = M.pt[n]

\* The page: it keeps the frame it has, or gets one that was free.
LEMMA MapNewOK ==
  ASSUME NEW M, MemInv(M), NEW p \in Pages, NEW w \in BOOLEAN,
         M.pt[Entry(2, p)] # NoEntry, Free(M.user) # {},
         NEW N, N = MapNew(M, p, w)
  PROVE  PageDone(M, N, p, w)
<1>1. M \in Mems /\ TreeInv(M) /\ UsedInv(M)
  BY DEF MemInv
<1>2. /\ M.pt \in PageTableType /\ M.user \in [UserFrames -> Bit]
      /\ M.ospt \in [OsFrames -> Bit]
  BY <1>1, MemIs
<1>3. PICK e : e = Entry(1, p)
  OBVIOUS
<1>4. e \in Entries /\ e[1] = 1
  BY <1>3, EntryIs
<1>5. DOMAIN M.pt = Entries
  BY <1>2, PageTableIs
<1>6. CASE M.pt[e] # NoEntry
  <2>1. N = M
    BY <1>3, <1>6 DEF MapNew
  <2> QED
    BY <1>1, <1>3, <1>6, <2>1, GrowsSelf DEF PageDone
<1>7. CASE M.pt[e] = NoEntry
  <2>1. PICK g, r, t : /\ g = os_pfn_alloc(M.user)
                       /\ r = [pfn |-> g, w |-> w]
                       /\ t = [M.pt EXCEPT ![e] = r]
    OBVIOUS
  <2>2. N = [pt |-> t, user |-> Taken(M.user), ospt |-> M.ospt]
    BY <1>3, <1>7, <2>1 DEF MapNew
  <2>3. N.pt = t /\ N.user = Taken(M.user) /\ N.ospt = M.ospt
    BY <2>2
  <2>4. /\ g \in UserFrames /\ M.user[g] = 1 /\ g \in Free(M.user)
        /\ Taken(M.user) \in [UserFrames -> Bit] /\ Taken(M.user)[g] = 0
        /\ \A f \in UserFrames \ {g} : Taken(M.user)[f] = M.user[f]
        /\ Free(Taken(M.user)) = Free(M.user) \ {g}
    BY <1>2, <2>1, TakenIs
  <2>5. r \in EntryType(e) /\ r # NoEntry /\ r.pfn = g /\ r.w = w
    BY <1>4, <2>1, <2>4, MadeEntry
  <2>6. t = [n \in Entries |-> t[n]] /\ t[e] = r /\ \A n \in Entries \ {e} : t[n] = M.pt[n]
    BY <1>2, <1>4, <1>5, <2>1, PageTableIs
  <2>7. t \in PageTableType
    <3>1. \A n \in Entries : t[n] \in EntryType(n)
      BY <1>2, <2>5, <2>6, PageTableIs
    <3> QED
      BY <2>6, <3>1, PageTableIs
  <2>8. N \in Mems
    BY <1>2, <2>2, <2>4, <2>7 DEF Mems
  <2>9. \A x \in Entries : InTable(e, x) => M.pt[x] # NoEntry
    <3>1. 1 \in 1 .. 3 /\ 1 + 1 = 2
      OBVIOUS
    <3> QED
      BY <1>3, <3>1, TableAbove
  <2>10. /\ N.pt[e] # NoEntry /\ g = N.pt[e].pfn
         /\ \A n \in Entries \ {e} : N.pt[n] = M.pt[n]
         /\ Pool(M, e)[g] = 1 /\ Pool(N, e)[g] = 0
         /\ \A f \in UserFrames \ {g} : N.user[f] = M.user[f]
    BY <1>4, <2>3, <2>4, <2>5, <2>6 DEF Pool
  <2>11. MemInv(N) /\ Grows(M, N)
    BY <1>4, <1>7, <2>3, <2>8, <2>9, <2>10, PutEntry
  <2>12. N.pt[e].w = w
    BY <2>3, <2>5, <2>6
  <2> QED
    BY <1>3, <2>1, <2>3, <2>4, <2>10, <2>11, <2>12 DEF PageDone
<1> QED
  BY <1>6, <1>7

Allocated(M, N, p, v, w) ==
  /\ MemInv(N) /\ Grows(M, N) /\ Along(M, N, p)
  /\ \A l \in 1 .. 4 : N.pt[Entry(l, p)] # NoEntry
  /\ v => \A l \in 2 .. 4 : N.pt[Entry(l, p)].w
  /\ M.pt[Entry(1, p)] = NoEntry => N.pt[Entry(1, p)].w = w
  /\ \A q \in Pages \ {p} : N.pt[Entry(1, q)] = M.pt[Entry(1, q)]
  /\ Free(M.user) \ {os_pfn_alloc(M.user)} \subseteq Free(N.user)

\* allocate() as a whole, with v for the tables and w for the page.
LEMMA AllocateOK ==
  ASSUME NEW M, MemInv(M), NEW p \in Pages, NEW v \in BOOLEAN,
         NEW w \in BOOLEAN, NEW k \in Nat,
         Cardinality(Free(M.ospt)) >= k + 3, Free(M.user) # {},
         NEW N, N = MapNew(Tables(M, p, v), p, w)
  PROVE  Allocated(M, N, p, v, w) /\ Cardinality(Free(N.ospt)) >= k
<1>1. PICK T : T = Tables(M, p, v)
  OBVIOUS
<1>2. /\ MemInv(T) /\ Grows(M, T) /\ T.user = M.user
      /\ \A l \in 2 .. 4 : T.pt[Entry(l, p)] # NoEntry /\ (v => T.pt[Entry(l, p)].w)
      /\ Cardinality(Free(T.ospt)) >= k /\ Along(M, T, p)
      /\ \A n \in Entries : n[1] = 1 => T.pt[n] = M.pt[n]
  BY <1>1, TablesOK
<1>3. PageDone(T, N, p, w)
  <2>1. 2 \in 2 .. 4
    OBVIOUS
  <2>2. T.pt[Entry(2, p)] # NoEntry
    BY <1>2, <2>1
  <2>3. N = MapNew(T, p, w)
    BY <1>1
  <2>4. MemInv(T)
    BY <1>2
  <2>5. Free(T.user) # {}
    BY <1>2
  <2> QED
    BY <2>2, <2>3, <2>4, <2>5, MapNewOK
<1>4. /\ MemInv(N) /\ Grows(T, N) /\ N.ospt = T.ospt
      /\ N.pt[Entry(1, p)] # NoEntry
      /\ T.pt[Entry(1, p)] = NoEntry => N.pt[Entry(1, p)].w = w
      /\ Free(T.user) \ {os_pfn_alloc(T.user)} \subseteq Free(N.user)
      /\ \A n \in Entries \ {Entry(1, p)} : N.pt[n] = T.pt[n]
  BY <1>3 DEF PageDone
<1>5. Grows(M, N)
  BY <1>2, <1>4, GrowsTrans
<1>6. \A l \in 2 .. 4 : /\ Entry(l, p) \in Entries \ {Entry(1, p)}
                        /\ N.pt[Entry(l, p)] = T.pt[Entry(l, p)]
  <2>1. \A l \in 2 .. 4 : l \in 1 .. 4 /\ l # 1
    OBVIOUS
  <2>2. \A l \in 2 .. 4 : Entry(l, p) \in Entries /\ Entry(l, p)[1] = l /\ Entry(1, p)[1] = 1
    BY <2>1, EntryIs
  <2>3. \A l \in 2 .. 4 : Entry(l, p) # Entry(1, p)
    BY <2>1, <2>2
  <2> QED
    BY <1>4, <2>2, <2>3
<1>7. \A l \in 1 .. 4 : N.pt[Entry(l, p)] # NoEntry
  <2>1. \A l \in 1 .. 4 : l = 1 \/ l \in 2 .. 4
    OBVIOUS
  <2> QED
    BY <1>2, <1>4, <1>6, <2>1
<1>8. v => \A l \in 2 .. 4 : N.pt[Entry(l, p)].w
  BY <1>2, <1>6
<1>9. \A q \in Pages : Entry(1, q) \in Entries /\ Entry(1, q)[1] = 1
  BY EntryIs
<1>10. \A q \in Pages \ {p} : N.pt[Entry(1, q)] = M.pt[Entry(1, q)]
  BY <1>2, <1>4, <1>9, PageEntry
<1>11. M.pt[Entry(1, p)] = NoEntry => N.pt[Entry(1, p)].w = w
  BY <1>2, <1>4, <1>9
<1>12. Along(M, N, p)
  <2>1. 1 \in 1 .. 4
    OBVIOUS
  <2> QED
    BY <1>2, <1>4, <2>1 DEF Along
<1> QED
  BY <1>2, <1>4, <1>5, <1>7, <1>8, <1>9, <1>10, <1>11, <1>12 DEF Allocated
=============================================================================
