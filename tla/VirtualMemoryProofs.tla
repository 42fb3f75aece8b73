------------------------- MODULE VirtualMemoryProofs -------------------------
(***************************************************************************)
(* Proofs about the lazy memory of the init process, for every layout of   *)
(* the segments, size of a table, and number of frames.                    *)
(***************************************************************************)
EXTENDS VirtualMemory, PageTablesProofs

\* A frame that is not in its pool is in an entry.
NoLeak(M) ==
  /\ \A f \in UserFrames : M.user[f] = 0 =>
       \E e \in Entries : e[1] = 1 /\ M.pt[e] # NoEntry /\ M.pt[e].pfn = f
  /\ \A f \in OsFrames : M.ospt[f] = 0 =>
       \E e \in Entries : e[1] # 1 /\ M.pt[e] # NoEntry /\ M.pt[e].pfn = f

\* The write bits of a page and of its tables, which other pages may share.
WriteBits(M) ==
  \A p \in Mapped(M) \ {CODE} :
    /\ M.pt[Entry(1, p)].w <=> p >= DATA_START
    /\ p >= DATA_START => \A l \in 2 .. 4 : M.pt[Entry(l, p)].w

EndsInv ==
  /\ next_free \in [Growing -> Nat]
  /\ \A s \in Growing : Start(s) <= next_free[s] /\ next_free[s] <= End(s)

Placed(p) == InGrowing(p, "DATA") \/ InGrowing(p, "RODATA") \/ InStack(p, TRUE)

PlaceInv == \A p \in Mapped(m) \ {CODE} : Placed(p)

Inv ==
  /\ MemInv(m) /\ NoLeak(m) /\ WriteBits(m)
  /\ EndsInv
  /\ alive \in BOOLEAN

\* No product of a size in shrink overflows.
SmallSizes == \A size \in Sizes : 2 * size < WRAP

-----------------------------------------------------------------------------
\* The segments lie one after the other, and in the pages.
LEMMA Layout ==
  /\ CODE \in Pages /\ DATA_START \in Pages /\ STACK_END - 1 \in Pages
  /\ CODE \in Nat /\ RODATA_START \in Nat /\ RODATA_END \in Nat /\ DATA_START \in Nat
  /\ DATA_END \in Nat /\ STACK_START \in Nat /\ STACK_END \in Nat
  /\ CODE < RODATA_START /\ RODATA_START <= RODATA_END /\ RODATA_END <= DATA_START
  /\ DATA_START < DATA_END /\ DATA_END <= STACK_START /\ STACK_START < STACK_END
  /\ Pages \subseteq Nat
<1>1. /\ CODE \in Nat /\ RODATA_START \in Nat /\ RODATA_END \in Nat /\ DATA_START \in Nat
      /\ DATA_END \in Nat /\ STACK_START \in Nat /\ STACK_END \in Nat
  BY VMAssumptions
<1>2. /\ CODE < RODATA_START /\ RODATA_START <= RODATA_END /\ RODATA_END <= DATA_START
      /\ DATA_START < DATA_END /\ DATA_END <= STACK_START /\ STACK_START < STACK_END
  BY VMAssumptions
<1>3. CODE \in Pages
  BY VMAssumptions
<1>4. DATA_START \in DATA_START .. DATA_END - 1 /\ STACK_END - 1 \in STACK_START .. STACK_END
  BY <1>1, <1>2
<1>5. DATA_START \in Pages /\ STACK_END - 1 \in Pages
  BY <1>4, VMAssumptions
<1> QED
  BY <1>1, <1>2, <1>3, <1>5, PageTableAssumptions

\* The two segments that grow.
LEMMA GrowingIs ==
  /\ Growing = {"RODATA", "DATA"} /\ "RODATA" # "DATA"
  /\ Start("RODATA") = RODATA_START /\ End("RODATA") = RODATA_END
  /\ Start("DATA") = DATA_START /\ End("DATA") = DATA_END
  /\ \A flags : SegmentOf(flags) \in Growing
BY DEF Growing, Start, End, SegmentOf

\* Where the segments end.
LEMMA EndsAre ==
  ASSUME EndsInv
  PROVE  /\ next_free["RODATA"] \in Nat /\ next_free["DATA"] \in Nat
         /\ RODATA_START <= next_free["RODATA"] /\ next_free["RODATA"] <= RODATA_END
         /\ DATA_START <= next_free["DATA"] /\ next_free["DATA"] <= DATA_END
BY GrowingIs DEF EndsInv

\* A page in a segment has a region, RODATA below the data.
LEMMA RegionIs ==
  ASSUME EndsInv, NEW p \in Nat
  PROVE  /\ Placed(p) <=> Region(p, TRUE) # "none"
         /\ Placed(p) => (Region(p, TRUE) # "RODATA" <=> p >= DATA_START)
         /\ \A base \in BOOLEAN :
              Region(p, base) # "none" => Region(p, TRUE) = Region(p, base)
         /\ p = CODE => ~Placed(p)
<1>1. PICK r, d : r = next_free["RODATA"] /\ d = next_free["DATA"]
  OBVIOUS
<1>2. /\ r \in Nat /\ d \in Nat /\ RODATA_START <= r /\ r <= RODATA_END
      /\ DATA_START <= d /\ d <= DATA_END
  BY <1>1, EndsAre
<1>3. /\ InGrowing(p, "DATA") <=> DATA_START <= p /\ p < d
      /\ InGrowing(p, "RODATA") <=> RODATA_START <= p /\ p < r
      /\ InStack(p, TRUE) <=> STACK_START <= p /\ p <= STACK_END
      /\ \A base \in BOOLEAN : InStack(p, base) => InStack(p, TRUE)
  BY <1>1, GrowingIs, Layout DEF InGrowing, InStack
<1>4. Placed(p) <=> Region(p, TRUE) # "none"
  BY DEF Placed, Region
<1>5. Placed(p) => (Region(p, TRUE) # "RODATA" <=> p >= DATA_START)
  <2>1. CASE InGrowing(p, "DATA")
    BY <1>3, <2>1 DEF Region
  <2>2. CASE ~InGrowing(p, "DATA") /\ InGrowing(p, "RODATA")
    <3>1. Region(p, TRUE) = "RODATA"
      BY <2>2 DEF Region
    <3>2. ~(p >= DATA_START)
      BY <1>2, <1>3, <2>2, Layout
    <3> QED
      BY <3>1, <3>2
  <2>3. CASE ~InGrowing(p, "DATA") /\ ~InGrowing(p, "RODATA") /\ InStack(p, TRUE)
    <3>1. Region(p, TRUE) = "STACK"
      BY <2>3 DEF Region
    <3>2. STACK_START <= p
      BY <1>3, <2>3
    <3>3. p >= DATA_START
      BY <3>2, Layout
    <3> QED
      BY <3>1, <3>3
  <2> QED
    BY <2>1, <2>2, <2>3 DEF Placed
<1>6. \A base \in BOOLEAN : Region(p, base) # "none" => Region(p, TRUE) = Region(p, base)
  BY <1>3 DEF Region
<1>7. p = CODE => ~Placed(p)
  <2>1. CODE < DATA_START /\ CODE < STACK_START
    BY Layout
  <2>2. p = CODE => /\ ~(DATA_START <= p) /\ ~(RODATA_START <= p) /\ ~(STACK_START <= p)
    BY <2>1, Layout
  <2> QED
    BY <1>3, <2>2 DEF Placed
<1> QED
  BY <1>4, <1>5, <1>6, <1>7

\* A page with a frame is present at all four levels.
LEMMA MappedPresent ==
  ASSUME NEW M, MemInv(M), NEW p \in Mapped(M)
  PROVE  p \in Pages /\ Present(M, p) /\ M.pt[Entry(1, p)] # NoEntry
<1>1. p \in Pages /\ M.pt[Entry(1, p)] # NoEntry
  BY DEF Mapped
<1>2. /\ InTable(Entry(1, p), Entry(2, p)) /\ InTable(Entry(2, p), Entry(3, p))
      /\ InTable(Entry(3, p), Entry(4, p))
  BY <1>1, EntryIs DEF InTable
<1>3. /\ Entry(1, p) \in Entries /\ Entry(2, p) \in Entries /\ Entry(3, p) \in Entries
      /\ Entry(4, p) \in Entries
  BY <1>1, EntryIs
<1>4. M.pt[Entry(2, p)] # NoEntry
  BY <1>1, <1>2, <1>3 DEF MemInv, TreeInv
<1>5. M.pt[Entry(3, p)] # NoEntry
  BY <1>2, <1>3, <1>4 DEF MemInv, TreeInv
<1>6. M.pt[Entry(4, p)] # NoEntry
  BY <1>2, <1>3, <1>5 DEF MemInv, TreeInv
<1>7. \A l \in 1 .. 4 : M.pt[Entry(l, p)] # NoEntry
  <2>1. \A l \in 1 .. 4 : l = 1 \/ l = 2 \/ l = 3 \/ l = 4
    OBVIOUS
  <2> QED
    BY <1>1, <1>4, <1>5, <1>6, <2>1
<1> QED
  BY <1>1, <1>7 DEF Present

\* What memory looks like, apart from where the segments end.
MemoryInv(M) == MemInv(M) /\ NoLeak(M) /\ WriteBits(M)

\* A new page: the frames taken are in the tables, the page has its write bit
\* and the tables it shares keep theirs.
LEMMA NewPage ==
  ASSUME NEW M, MemoryInv(M), NEW p \in Pages, NEW v \in BOOLEAN, NEW w \in BOOLEAN,
         w => v, p = CODE \/ (w <=> p >= DATA_START), M.pt[Entry(1, p)] = NoEntry,
         NEW k \in Nat, Cardinality(Free(M.ospt)) >= k + 3, Free(M.user) # {},
         NEW N, N = MapNew(Tables(M, p, v), p, w)
  PROVE  /\ MemoryInv(N) /\ Mapped(N) = Mapped(M) \cup {p}
         /\ Cardinality(Free(N.ospt)) >= k
         /\ Free(M.user) \ {os_pfn_alloc(M.user)} \subseteq Free(N.user)
<1>1. MemInv(M) /\ NoLeak(M) /\ WriteBits(M)
  BY DEF MemoryInv
<1>2. /\ MemInv(N) /\ Grows(M, N)
      /\ \A l \in 1 .. 4 : N.pt[Entry(l, p)] # NoEntry
      /\ v => \A l \in 2 .. 4 : N.pt[Entry(l, p)].w
      /\ N.pt[Entry(1, p)].w = w
      /\ \A q \in Pages \ {p} : N.pt[Entry(1, q)] = M.pt[Entry(1, q)]
      /\ Cardinality(Free(N.ospt)) >= k
      /\ Free(M.user) \ {os_pfn_alloc(M.user)} \subseteq Free(N.user)
  <2>1. MemInv(M)
    BY <1>1
  <2>2. Allocated(M, N, p, v, w) /\ Cardinality(Free(N.ospt)) >= k
    BY <2>1, AllocateOK
  <2> QED
    BY <2>2 DEF Allocated
<1>3. N.pt[Entry(1, p)] # NoEntry
  <2>1. 1 \in 1 .. 4
    OBVIOUS
  <2> QED
    BY <1>2, <2>1
<1>4. Mapped(N) = Mapped(M) \cup {p}
  BY <1>2, <1>3 DEF Mapped
<1>5. NoLeak(N)
  <2>1. \A f \in UserFrames : N.user[f] = 0 =>
          \E e \in Entries : e[1] = 1 /\ N.pt[e] # NoEntry /\ N.pt[e].pfn = f
    <3> SUFFICES ASSUME NEW f \in UserFrames, N.user[f] = 0
                 PROVE  \E e \in Entries : e[1] = 1 /\ N.pt[e] # NoEntry /\ N.pt[e].pfn = f
      OBVIOUS
    <3>1. CASE M.user[f] = 0
      BY <1>1, <1>2, <3>1 DEF NoLeak, Grows, Stays
    <3>2. CASE M.user[f] # 0
      BY <1>2, <3>2 DEF Grows, Spent
    <3> QED
      BY <3>1, <3>2
  <2>2. \A f \in OsFrames : N.ospt[f] = 0 =>
          \E e \in Entries : e[1] # 1 /\ N.pt[e] # NoEntry /\ N.pt[e].pfn = f
    <3> SUFFICES ASSUME NEW f \in OsFrames, N.ospt[f] = 0
                 PROVE  \E e \in Entries : e[1] # 1 /\ N.pt[e] # NoEntry /\ N.pt[e].pfn = f
      OBVIOUS
    <3>1. CASE M.ospt[f] = 0
      BY <1>1, <1>2, <3>1 DEF NoLeak, Grows, Stays
    <3>2. CASE M.ospt[f] # 0
      BY <1>2, <3>2 DEF Grows, Spent
    <3> QED
      BY <3>1, <3>2
  <2> QED
    BY <2>1, <2>2 DEF NoLeak
<1>6. WriteBits(N)
  <2> SUFFICES ASSUME NEW q \in Mapped(N) \ {CODE}
               PROVE  /\ N.pt[Entry(1, q)].w <=> q >= DATA_START
                      /\ q >= DATA_START => \A l \in 2 .. 4 : N.pt[Entry(l, q)].w
    BY DEF WriteBits
  <2>1. CASE q = p
    <3>1. N.pt[Entry(1, q)].w <=> q >= DATA_START
      BY <1>2, <2>1
    <3>2. q >= DATA_START => \A l \in 2 .. 4 : N.pt[Entry(l, q)].w
      BY <1>2, <2>1
    <3> QED
      BY <3>1, <3>2
  <2>2. CASE q # p
    <3>1. q \in Mapped(M) \ {CODE} /\ q \in Pages
      BY <1>4, <2>2 DEF Mapped
    <3>2. N.pt[Entry(1, q)] = M.pt[Entry(1, q)]
      BY <1>2, <2>2, <3>1
    <3>3. N.pt[Entry(1, q)].w <=> q >= DATA_START
      BY <1>1, <3>1, <3>2 DEF WriteBits
    <3>4. \A l \in 2 .. 4 : Entry(l, q) \in Entries /\ M.pt[Entry(l, q)] # NoEntry
      <4>1. \A l \in 2 .. 4 : l \in 1 .. 4
        OBVIOUS
      <4>2. Present(M, q)
        BY <1>1, <3>1, MappedPresent
      <4> QED
        BY <3>1, <4>1, <4>2, EntryIs DEF Present
    <3>5. q >= DATA_START => \A l \in 2 .. 4 : M.pt[Entry(l, q)].w
      BY <1>1, <3>1 DEF WriteBits
    <3>6. q >= DATA_START => \A l \in 2 .. 4 : N.pt[Entry(l, q)].w
      BY <1>2, <3>4, <3>5 DEF Grows, Stays
    <3> QED
      BY <3>3, <3>6
  <2> QED
    BY <2>1, <2>2
<1> QED
  BY <1>2, <1>4, <1>5, <1>6 DEF MemoryInv

NewDone(M, N, p, k) ==
  /\ MemoryInv(N) /\ Mapped(N) = Mapped(M) \cup {p}
  /\ Cardinality(Free(N.ospt)) >= k

\* A page of the program that exec_init loads; at least k frames of each pool
\* are left.
LEMMA LoadedOK ==
  ASSUME NEW M, MemoryInv(M), NEW p \in Pages, NEW w \in BOOLEAN,
         p = CODE \/ (w <=> p >= DATA_START), M.pt[Entry(1, p)] = NoEntry,
         NEW j \in Nat, NEW k \in Nat,
         Cardinality(Free(M.ospt)) >= k + 3, Cardinality(Free(M.user)) >= j + 1,
         NEW N, N = Loaded(M, p, w)
  PROVE  NewDone(M, N, p, k) /\ Cardinality(Free(N.user)) >= j
<1>1. Free(M.user) # {}
  BY SomeFree
<1>2. N = MapNew(Tables(M, p, TRUE), p, w)
  BY DEF Loaded
<1>3. PICK v \in BOOLEAN : v = TRUE
  OBVIOUS
<1>4. N = MapNew(Tables(M, p, v), p, w) /\ (w => v)
  BY <1>2, <1>3
<1>5. /\ MemoryInv(N) /\ Mapped(N) = Mapped(M) \cup {p}
      /\ Cardinality(Free(N.ospt)) >= k
      /\ Free(M.user) \ {os_pfn_alloc(M.user)} \subseteq Free(N.user)
  BY <1>1, <1>4, NewPage
<1>6. M.user \in [UserFrames -> Bit] /\ N.user \in [UserFrames -> Bit]
  BY <1>5, MemIs DEF MemoryInv, MemInv
<1>7. Cardinality(Free(N.user)) >= j
  BY <1>5, <1>6, FreeLeft, PageTableAssumptions
<1> QED
  BY <1>5, <1>7 DEF NewDone

\* Before the program is loaded every frame is free.
LEMMA NoPagesOK ==
  /\ MemoryInv(NoPages) /\ Mapped(NoPages) = {}
  /\ Cardinality(Free(NoPages.ospt)) >= 9 /\ Cardinality(Free(NoPages.user)) >= 3
<1>1. PICK t, u, o : /\ t = [e \in Entries |-> NoEntry]
                     /\ u = [f \in UserFrames |-> 1] /\ o = [f \in OsFrames |-> 1]
  OBVIOUS
<1>2. PICK M : M = [pt |-> t, user |-> u, ospt |-> o]
  OBVIOUS
<1>3. M = NoPages /\ M.pt = t /\ M.user = u /\ M.ospt = o
  BY <1>1, <1>2 DEF NoPages
<1>4. \A e \in Entries : t[e] = NoEntry
  BY <1>1
<1>5. t \in PageTableType
  <2>1. \A e \in Entries : t[e] \in EntryType(e)
    BY <1>4 DEF EntryType
  <2>2. t = [e \in Entries |-> t[e]]
    BY <1>1
  <2> QED
    BY <2>1, <2>2, PageTableIs
<1>6. u \in [UserFrames -> Bit] /\ o \in [OsFrames -> Bit]
  BY <1>1 DEF Bit
<1>7. MemInv(M)
  <2>1. M \in Mems
    BY <1>2, <1>5, <1>6 DEF Mems
  <2> QED
    BY <1>3, <1>4, <2>1 DEF MemInv, TreeInv, UsedInv
<1>8. NoLeak(M)
  BY <1>1, <1>3 DEF NoLeak
<1>9. Mapped(M) = {}
  BY <1>3, <1>4, EntryIs DEF Mapped
<1>10. WriteBits(M)
  BY <1>9 DEF WriteBits
<1>11. Free(M.user) = UserFrames /\ Free(M.ospt) = OsFrames
  BY <1>1, <1>3 DEF Free
<1> QED
  BY <1>3, <1>7, <1>8, <1>9, <1>10, <1>11, VMAssumptions DEF MemoryInv

\* The invariants hold when the init process starts.
LEMMA InitInv == Init => Inv /\ PlaceInv
<1> SUFFICES ASSUME Init PROVE Inv /\ PlaceInv
  OBVIOUS
<1>1. PICK A, B : /\ A = Loaded(NoPages, CODE, FALSE)
                  /\ B = Loaded(A, DATA_START, TRUE)
  OBVIOUS
<1>2. m = Loaded(B, STACK_END - 1, TRUE)
  BY <1>1 DEF Init
<1>3. PICK x, y, z : x = CODE /\ y = DATA_START /\ z = STACK_END - 1
  OBVIOUS
<1>4. /\ x \in Pages /\ y \in Pages /\ z \in Pages /\ x # y /\ x # z /\ y # z
      /\ y >= DATA_START /\ z >= DATA_START
  <2>1. x \in Pages /\ y \in Pages /\ z \in Pages
    BY <1>3, Layout
  <2>2. x < DATA_START /\ y >= DATA_START /\ z >= DATA_START /\ y < z
    BY <1>3, Layout
  <2>3. x \in Nat /\ y \in Nat /\ z \in Nat /\ DATA_START \in Nat
    BY <2>1, Layout
  <2> QED
    BY <2>1, <2>2, <2>3
<1>5. NewDone(NoPages, A, x, 6) /\ Cardinality(Free(A.user)) >= 2
  <2>1. Cardinality(Free(NoPages.ospt)) >= 6 + 3 /\ Cardinality(Free(NoPages.user)) >= 2 + 1
    BY NoPagesOK
  <2>2. NoPages.pt[Entry(1, x)] = NoEntry
    BY <1>4, NoPagesOK DEF Mapped
  <2>3. A = Loaded(NoPages, x, FALSE) /\ x = CODE
    BY <1>1, <1>3
  <2>4. MemoryInv(NoPages)
    BY NoPagesOK
  <2> QED
    BY <1>4, <2>1, <2>2, <2>3, <2>4, LoadedOK
<1>6. NewDone(A, B, y, 3) /\ Cardinality(Free(B.user)) >= 1
  <2>1. Cardinality(Free(A.ospt)) >= 3 + 3 /\ Cardinality(Free(A.user)) >= 1 + 1
    BY <1>5 DEF NewDone
  <2>2. A.pt[Entry(1, y)] = NoEntry
    BY <1>4, <1>5, NoPagesOK DEF Mapped, NewDone
  <2>3. B = Loaded(A, y, TRUE)
    BY <1>1, <1>3
  <2>4. MemoryInv(A)
    BY <1>5 DEF NewDone
  <2>5. PICK w \in BOOLEAN : w = TRUE
    OBVIOUS
  <2>6. B = Loaded(A, y, w) /\ (w <=> y >= DATA_START)
    BY <1>4, <2>3, <2>5
  <2> QED
    BY <1>4, <2>1, <2>2, <2>4, <2>6, LoadedOK
<1>7. NewDone(B, m, z, 0)
  <2>1. Cardinality(Free(B.ospt)) >= 0 + 3 /\ Cardinality(Free(B.user)) >= 0 + 1
    BY <1>6 DEF NewDone
  <2>2. B.pt[Entry(1, z)] = NoEntry
    BY <1>4, <1>5, <1>6, NoPagesOK DEF Mapped, NewDone
  <2>3. m = Loaded(B, z, TRUE)
    BY <1>2, <1>3
  <2>4. MemoryInv(B)
    BY <1>6 DEF NewDone
  <2>5. PICK w \in BOOLEAN : w = TRUE
    OBVIOUS
  <2>6. m = Loaded(B, z, w) /\ (w <=> z >= DATA_START)
    BY <1>4, <2>3, <2>5
  <2> QED
    BY <1>4, <2>1, <2>2, <2>4, <2>6, LoadedOK
<1>8. MemoryInv(m) /\ Mapped(m) = {x, y, z}
  BY <1>5, <1>6, <1>7, NoPagesOK DEF NewDone
<1>9. EndsInv
  <2>1. /\ next_free = [RODATA |-> RODATA_START, DATA |-> DATA_START + 1]
    BY DEF Init
  <2>2. /\ next_free["RODATA"] = RODATA_START /\ next_free["DATA"] = DATA_START + 1
    BY <2>1
  <2>3. next_free \in [Growing -> Nat]
    BY <2>1, GrowingIs, Layout
  <2> QED
    BY <2>2, <2>3, GrowingIs, Layout DEF EndsInv
<1>10. PlaceInv
  <2>1. Placed(y)
    <3>1. next_free["DATA"] = DATA_START + 1
      BY DEF Init
    <3>2. InGrowing(DATA_START, "DATA")
      BY <3>1, GrowingIs, Layout DEF InGrowing
    <3> QED
      BY <1>3, <3>2 DEF Placed
  <2>2. Placed(z)
    BY <1>3, Layout DEF Placed, InStack
  <2> QED
    BY <1>3, <1>8, <2>1, <2>2 DEF PlaceInv
<1> QED
  BY <1>8, <1>9, <1>10 DEF Inv, MemoryInv, Init

\* A frame is in at most one page.
LEMMA OnePage ==
  ASSUME NEW M, MemInv(M), NEW p \in Mapped(M), NEW q \in Mapped(M),
         M.pt[Entry(1, p)].pfn = M.pt[Entry(1, q)].pfn
  PROVE  p = q
<1>1. p \in Pages /\ q \in Pages /\ M.pt[Entry(1, p)] # NoEntry /\ M.pt[Entry(1, q)] # NoEntry
  BY DEF Mapped
<1>2. /\ Entry(1, p) \in Entries /\ Entry(1, q) \in Entries
      /\ Entry(1, p)[1] = 1 /\ Entry(1, q)[1] = 1
  BY <1>1, EntryIs
<1>3. Entry(1, p) = Entry(1, q)
  BY <1>1, <1>2 DEF MemInv, UsedInv
<1> QED
  BY <1>1, <1>3, PageEntry

\* The frame of a page is not free.
LEMMA PageFrame ==
  ASSUME NEW M, MemInv(M), NEW p \in Mapped(M)
  PROVE  M.pt[Entry(1, p)].pfn \in UserFrames /\ M.user[M.pt[Entry(1, p)].pfn] = 0
<1>1. p \in Pages /\ M.pt[Entry(1, p)] # NoEntry
  BY DEF Mapped
<1>2. Entry(1, p) \in Entries /\ Entry(1, p)[1] = 1
  BY <1>1, EntryIs
<1>3. M.pt[Entry(1, p)].pfn \in UserFrames
  BY <1>1, <1>2, MemIs DEF MemInv
<1> QED
  BY <1>1, <1>2, <1>3 DEF MemInv, UsedInv, Pool

\* What unmapping leaves: the pages in ps have no entry and their frames are
\* free again; the rest is as it was.
LEMMA UnmapIs ==
  ASSUME MemInv(m), NEW ps \in SUBSET Pages, NEW N, N = Unmap(ps)
  PROVE  /\ N = [pt |-> N.pt, user |-> N.user, ospt |-> m.ospt] /\ N.ospt = m.ospt
         /\ N.pt = [e \in Entries |-> N.pt[e]] /\ N.user = [f \in UserFrames |-> N.user[f]]
         /\ \A e \in Entries : IF \E p \in ps \cap Mapped(m) : e = Entry(1, p)
                               THEN N.pt[e] = NoEntry ELSE N.pt[e] = m.pt[e]
         /\ \A f \in UserFrames : IF \E p \in ps \cap Mapped(m) : m.pt[Entry(1, p)].pfn = f
                                  THEN N.user[f] = 1 ELSE N.user[f] = m.user[f]
<1>1. PICK gone : gone = {p \in ps : Present(m, p)}
  OBVIOUS
<1>2. gone = ps \cap Mapped(m)
  <2>1. \A p \in Pages : Present(m, p) => p \in Mapped(m)
    <3>1. 1 \in 1 .. 4
      OBVIOUS
    <3> QED
      BY <3>1 DEF Present, Mapped
  <2>2. \A p \in Mapped(m) : Present(m, p)
    BY MappedPresent
  <2> QED
    BY <1>1, <2>1, <2>2
<1>3. PICK t, u : /\ t = [e \in Entries |-> IF \E p \in gone : e = Entry(1, p)
                                            THEN NoEntry ELSE m.pt[e]]
                  /\ u = [f \in UserFrames |-> m.user[f]
                            + Cardinality({p \in gone : m.pt[Entry(1, p)].pfn = f})]
  OBVIOUS
<1>4. N = [pt |-> t, user |-> u, ospt |-> m.ospt]
  BY <1>1, <1>3 DEF Unmap
<1>5. N.pt = t /\ N.user = u /\ N.ospt = m.ospt
  BY <1>4
<1>6. \A e \in Entries : IF \E p \in gone : e = Entry(1, p)
                         THEN N.pt[e] = NoEntry ELSE N.pt[e] = m.pt[e]
  BY <1>3, <1>5
<1>7. \A f \in UserFrames : IF \E p \in gone : m.pt[Entry(1, p)].pfn = f
                            THEN N.user[f] = 1 ELSE N.user[f] = m.user[f]
  <2> SUFFICES ASSUME NEW f \in UserFrames
               PROVE  IF \E p \in gone : m.pt[Entry(1, p)].pfn = f
                      THEN N.user[f] = 1 ELSE N.user[f] = m.user[f]
    OBVIOUS
  <2>1. PICK G : G = {p \in gone : m.pt[Entry(1, p)].pfn = f}
    OBVIOUS
  <2>2. N.user[f] = m.user[f] + Cardinality(G)
    BY <1>3, <1>5, <2>1
  <2>3. m.user[f] \in Nat
    <3>1. m.user \in [UserFrames -> Bit]
      BY MemIs DEF MemInv
    <3> QED
      BY <3>1 DEF Bit
  <2>4. CASE \E p \in gone : m.pt[Entry(1, p)].pfn = f
    <3>1. PICK p \in gone : m.pt[Entry(1, p)].pfn = f
      BY <2>4
    <3>2. m.user[f] = 0
      BY <1>2, <3>1, PageFrame
    <3>3. \A q \in gone : m.pt[Entry(1, q)].pfn = f => q = p
      BY <1>2, <3>1, OnePage
    <3>4. G = {p}
      BY <2>1, <3>1, <3>3
    <3>5. Cardinality(G) = 1
      BY <3>4, FS_Singleton
    <3> QED
      BY <2>2, <2>4, <3>2, <3>5
  <2>5. CASE ~ \E p \in gone : m.pt[Entry(1, p)].pfn = f
    <3>1. Cardinality(G) = 0
      BY <2>1, <2>5, FS_EmptySet
    <3> QED
      BY <2>2, <2>3, <2>5, <3>1
  <2> QED
    BY <2>4, <2>5
<1>8. N.pt = [e \in Entries |-> N.pt[e]] /\ N.user = [f \in UserFrames |-> N.user[f]]
  BY <1>3, <1>5
<1> QED
  BY <1>2, <1>4, <1>5, <1>6, <1>7, <1>8

\* Unmapping keeps the accounts.
LEMMA UnmapOK ==
  ASSUME MemoryInv(m), NEW ps \in SUBSET Pages, NEW N, N = Unmap(ps)
  PROVE  MemoryInv(N) /\ Mapped(N) = Mapped(m) \ ps
<1>1. MemInv(m) /\ NoLeak(m) /\ WriteBits(m) /\ TreeInv(m) /\ UsedInv(m) /\ m \in Mems
  BY DEF MemoryInv, MemInv
<1>2. PICK gone : gone = ps \cap Mapped(m)
  OBVIOUS
<1>3. /\ N = [pt |-> N.pt, user |-> N.user, ospt |-> m.ospt] /\ N.ospt = m.ospt
      /\ N.pt = [e \in Entries |-> N.pt[e]] /\ N.user = [f \in UserFrames |-> N.user[f]]
      /\ \A e \in Entries : IF \E p \in gone : e = Entry(1, p)
                            THEN N.pt[e] = NoEntry ELSE N.pt[e] = m.pt[e]
      /\ \A f \in UserFrames : IF \E p \in gone : m.pt[Entry(1, p)].pfn = f
                               THEN N.user[f] = 1 ELSE N.user[f] = m.user[f]
  BY <1>1, <1>2, UnmapIs
<1>4. /\ m.pt \in PageTableType /\ m.user \in [UserFrames -> Bit]
      /\ m.ospt \in [OsFrames -> Bit]
  BY <1>1, MemIs
<1>5. \A p \in gone : /\ p \in Pages /\ p \in Mapped(m) /\ Entry(1, p) \in Entries
                      /\ Entry(1, p)[1] = 1 /\ m.pt[Entry(1, p)] # NoEntry
  BY <1>2, EntryIs DEF Mapped
<1>6. \A e \in Entries : /\ N.pt[e] = NoEntry \/ N.pt[e] = m.pt[e]
                         /\ e[1] # 1 => N.pt[e] = m.pt[e]
  BY <1>3, <1>5
<1>7. N \in Mems
  <2>1. \A e \in Entries : N.pt[e] \in EntryType(e)
    <3>1. \A e \in Entries : m.pt[e] \in EntryType(e) /\ NoEntry \in EntryType(e)
      BY <1>4, PageTableIs DEF EntryType
    <3> QED
      BY <1>6, <3>1
  <2>2. N.pt \in PageTableType
    BY <1>3, <2>1, PageTableIs
  <2>3. \A f \in UserFrames : N.user[f] \in Bit
    BY <1>3, <1>4 DEF Bit
  <2>4. N.user \in [UserFrames -> Bit]
    BY <1>3, <2>3
  <2> QED
    BY <1>3, <1>4, <2>2, <2>4 DEF Mems
<1>8. TreeInv(N)
  <2> SUFFICES ASSUME NEW e \in Entries, NEW n \in Entries, InTable(n, e), N.pt[n] # NoEntry
               PROVE  N.pt[e] # NoEntry
    BY DEF TreeInv
  <2>1. m.pt[n] # NoEntry
    BY <1>6
  <2>2. m.pt[e] # NoEntry
    BY <1>1, <2>1 DEF TreeInv
  <2>3. e[1] # 1
    <3>1. PICK l \in 1 .. 4, p \in Pages : n = Entry(l, p) /\ n[1] = l
      BY EntryOf
    <3>2. l = e[1] - 1
      BY <3>1 DEF InTable
    <3> QED
      BY <3>2
  <2> QED
    BY <1>6, <2>2, <2>3
<1>9. \A e \in Entries : N.pt[e] # NoEntry /\ e[1] = 1 =>
        N.pt[e] = m.pt[e] /\ N.user[m.pt[e].pfn] = m.user[m.pt[e].pfn]
  <2> SUFFICES ASSUME NEW e \in Entries, N.pt[e] # NoEntry, e[1] = 1
               PROVE  N.pt[e] = m.pt[e] /\ N.user[m.pt[e].pfn] = m.user[m.pt[e].pfn]
    OBVIOUS
  <2>1. PICK q \in Pages : e = Entry(1, q)
    BY PageEntry
  <2>2. N.pt[e] = m.pt[e] /\ m.pt[e] # NoEntry
    BY <1>6
  <2>3. q \in Mapped(m) /\ q \notin gone
    BY <1>3, <2>1, <2>2 DEF Mapped
  <2>4. m.pt[e].pfn \in UserFrames
    BY <1>1, <2>1, <2>3, PageFrame
  <2>5. ~ \E p \in gone : m.pt[Entry(1, p)].pfn = m.pt[e].pfn
    BY <1>1, <1>5, <2>1, <2>3, OnePage
  <2> QED
    BY <1>3, <2>2, <2>4, <2>5
<1>10. UsedInv(N)
  <2>1. \A e \in Entries : N.pt[e] # NoEntry => Pool(N, e)[N.pt[e].pfn] = 0
    <3> SUFFICES ASSUME NEW e \in Entries, N.pt[e] # NoEntry
                 PROVE  Pool(N, e)[N.pt[e].pfn] = 0
      OBVIOUS
    <3>1. N.pt[e] = m.pt[e] /\ Pool(m, e)[m.pt[e].pfn] = 0
      BY <1>1, <1>6 DEF UsedInv
    <3>2. CASE e[1] = 1
      BY <1>9, <3>1, <3>2 DEF Pool
    <3>3. CASE e[1] # 1
      BY <1>3, <3>1, <3>3 DEF Pool
    <3> QED
      BY <3>2, <3>3
  <2>2. \A e, n \in Entries :
          /\ N.pt[e] # NoEntry /\ N.pt[n] # NoEntry
          /\ e[1] = 1 <=> n[1] = 1
          /\ N.pt[e].pfn = N.pt[n].pfn
          => e = n
    BY <1>1, <1>6 DEF UsedInv
  <2> QED
    BY <2>1, <2>2 DEF UsedInv
<1>11. NoLeak(N)
  <2>1. \A f \in UserFrames : N.user[f] = 0 =>
          \E e \in Entries : e[1] = 1 /\ N.pt[e] # NoEntry /\ N.pt[e].pfn = f
    <3> SUFFICES ASSUME NEW f \in UserFrames, N.user[f] = 0
                 PROVE  \E e \in Entries : e[1] = 1 /\ N.pt[e] # NoEntry /\ N.pt[e].pfn = f
      OBVIOUS
    <3>1. (~ \E p \in gone : m.pt[Entry(1, p)].pfn = f) /\ m.user[f] = 0
      BY <1>3
    <3>2. PICK e \in Entries : e[1] = 1 /\ m.pt[e] # NoEntry /\ m.pt[e].pfn = f
      BY <1>1, <3>1 DEF NoLeak
    <3>3. N.pt[e] = m.pt[e]
      BY <1>3, <3>1, <3>2
    <3> QED
      BY <3>2, <3>3
  <2>2. \A f \in OsFrames : N.ospt[f] = 0 =>
          \E e \in Entries : e[1] # 1 /\ N.pt[e] # NoEntry /\ N.pt[e].pfn = f
    BY <1>1, <1>3, <1>6 DEF NoLeak
  <2> QED
    BY <2>1, <2>2 DEF NoLeak
<1>12. Mapped(N) = Mapped(m) \ ps
  <2>1. \A p \in Pages : N.pt[Entry(1, p)] = IF p \in gone THEN NoEntry ELSE m.pt[Entry(1, p)]
    BY <1>3, <1>5, PageEntry, EntryIs
  <2> QED
    BY <1>2, <2>1 DEF Mapped
<1>13. WriteBits(N)
  <2> SUFFICES ASSUME NEW p \in Mapped(N) \ {CODE}
               PROVE  /\ N.pt[Entry(1, p)].w <=> p >= DATA_START
                      /\ p >= DATA_START => \A l \in 2 .. 4 : N.pt[Entry(l, p)].w
    BY DEF WriteBits
  <2>1. p \in Mapped(m) \ {CODE} /\ p \in Pages /\ N.pt[Entry(1, p)] # NoEntry
    BY <1>12 DEF Mapped
  <2>2. N.pt[Entry(1, p)] = m.pt[Entry(1, p)]
    BY <1>6, <2>1, EntryIs
  <2>3. N.pt[Entry(1, p)].w <=> p >= DATA_START
    BY <1>1, <2>1, <2>2 DEF WriteBits
  <2>4. \A l \in 2 .. 4 : N.pt[Entry(l, p)] = m.pt[Entry(l, p)]
    <3>1. \A l \in 2 .. 4 : l \in 1 .. 4 /\ l # 1
      OBVIOUS
    <3> QED
      BY <1>6, <2>1, <3>1, EntryIs
  <2>5. p >= DATA_START => \A l \in 2 .. 4 : N.pt[Entry(l, p)].w
    BY <1>1, <2>1, <2>4 DEF WriteBits
  <2> QED
    BY <2>3, <2>5
<1> QED
  BY <1>7, <1>8, <1>10, <1>11, <1>12, <1>13 DEF MemoryInv, MemInv

\* What a 32-bit product leaves of a size is no more than the size.
LEMMA WrapLess ==
  ASSUME NEW size \in Nat
  PROVE  size % WRAP \in Nat /\ size % WRAP <= size
<1>1. WRAP \in Nat /\ WRAP > 0
  BY VMAssumptions
<1>2. size % WRAP \in Nat
  BY <1>1
<1>3. size % WRAP <= size
  BY <1>1
<1> QED
  BY <1>2, <1>3

\* Below half of WRAP neither the unsigned nor the int product overflows.
LEMMA SignedIs ==
  ASSUME NEW i \in Nat, 2 * i < WRAP
  PROVE  Signed(i) = i /\ i % WRAP = i
<1>1. WRAP \in Nat /\ WRAP > 0
  BY VMAssumptions
<1>2. i % WRAP = i
  BY <1>1
<1>3. ~(2 * i >= WRAP)
  BY <1>1
<1> QED
  BY <1>2, <1>3 DEF Signed

\* A shrink of that size releases the size pages below next_free.
LEMMA ReleasedIs ==
  ASSUME NEW size \in Nat, 2 * size < WRAP, NEW s
  PROVE  Released(s, size) = {next_free[s] - i : i \in 1 .. size} \cap Pages
<1>1. ASSUME NEW i \in 1 .. size
      PROVE  Signed(i) = i
  <2>1. WRAP \in Nat
    BY VMAssumptions
  <2>2. i \in Nat /\ 2 * i < WRAP
    BY <2>1
  <2> QED
    BY <2>2, SignedIs
<1>2. {next_free[s] - Signed(i) : i \in 1 .. size} = {next_free[s] - i : i \in 1 .. size}
  BY <1>1
<1> QED
  BY <1>2 DEF Released

\* Segments that only grow lose no page.
LEMMA GrowKeeps ==
  ASSUME EndsInv, EndsInv', \A s \in Growing : next_free[s] <= next_free'[s],
         NEW p \in Nat, Placed(p)
  PROVE  Placed(p)'
<1>1. \A s \in Growing : InGrowing(p, s) => InGrowing(p, s)'
  <2> SUFFICES ASSUME NEW s \in Growing, Start(s) <= p, p < next_free[s]
               PROVE  p < next_free'[s]
    BY DEF InGrowing, Start
  <2>1. next_free[s] \in Nat /\ next_free'[s] \in Nat /\ next_free[s] <= next_free'[s]
    BY DEF EndsInv
  <2> QED
    BY <2>1
<1>2. InStack(p, TRUE) => InStack(p, TRUE)'
  BY DEF InStack
<1> QED
  BY <1>1, <1>2, GrowingIs DEF Placed

\* expand, and write by running into it, move the end of a segment up, and not
\* past the segment's limit.
LEMMA GrowStep ==
  ASSUME Inv, NEW size \in Nat, NEW flags,
         next_free' = Expanded(size, flags) \/ next_free' = next_free,
         UNCHANGED <<m, alive>>
  PROVE  Inv' /\ (PlaceInv => PlaceInv')
<1>1. EndsInv' /\ \A s \in Growing : next_free[s] <= next_free'[s]
  <2>1. EndsInv
    BY DEF Inv
  <2>2. CASE next_free' = next_free
    BY <2>1, <2>2 DEF EndsInv, Start, End
  <2>3. CASE next_free' # next_free
    <3>1. PICK s \in Growing : s = SegmentOf(flags)
      BY GrowingIs
    <3>2. Fits(size, s) /\ next_free' = [next_free EXCEPT ![s] = @ + size]
      BY <2>3, <3>1 DEF Expanded
    <3>3. PICK a : a = next_free[s] + size
      OBVIOUS
    <3>4. next_free[s] \in Nat /\ Start(s) <= next_free[s] /\ a <= End(s)
      BY <2>1, <3>2, <3>3 DEF EndsInv, Fits
    <3>5. Start(s) \in Nat /\ End(s) \in Nat
      BY Layout DEF Start, End
    <3>6. a \in Nat /\ next_free[s] <= a /\ Start(s) <= a
      BY <3>3, <3>4, <3>5
    <3>7. /\ next_free' \in [Growing -> Nat] /\ next_free'[s] = a
          /\ \A r \in Growing \ {s} : next_free'[r] = next_free[r]
      BY <2>1, <3>2, <3>3, <3>6 DEF EndsInv
    <3>8. \A r \in Growing : /\ Start(r) <= next_free'[r] /\ next_free'[r] <= End(r)
                             /\ next_free[r] <= next_free'[r]
      <4> SUFFICES ASSUME NEW r \in Growing
                   PROVE  /\ Start(r) <= next_free'[r] /\ next_free'[r] <= End(r)
                          /\ next_free[r] <= next_free'[r]
        OBVIOUS
      <4>1. CASE r = s
        BY <3>4, <3>6, <3>7, <4>1
      <4>2. CASE r # s
        BY <2>1, <3>7, <4>2 DEF EndsInv
      <4> QED
        BY <4>1, <4>2
    <3> QED
      BY <3>7, <3>8 DEF EndsInv, Start, End
  <2> QED
    BY <2>2, <2>3
<1>2. MemInv(m)' /\ NoLeak(m)' /\ WriteBits(m)' /\ (alive \in BOOLEAN)'
  BY DEF Inv
<1>3. ASSUME PlaceInv PROVE PlaceInv'
  <2> SUFFICES ASSUME NEW p \in Mapped(m') \ {CODE} PROVE Placed(p)'
    BY DEF PlaceInv
  <2>1. p \in Mapped(m) \ {CODE}
    OBVIOUS
  <2>2. p \in Nat
    BY <2>1, Layout DEF Mapped
  <2>3. Placed(p) /\ EndsInv
    BY <1>3, <2>1 DEF Inv, PlaceInv
  <2> QED
    BY <1>1, <2>2, <2>3, GrowKeeps
<1> QED
  BY <1>1, <1>2, <1>3 DEF Inv

\* shrink keeps the accounts for every size.  It releases every page that leaves
\* the segment if no product overflows.
LEMMA ShrinkStep ==
  ASSUME Inv, NEW size \in Nat, NEW flags, shrink(size, flags)
  PROVE  Inv' /\ (PlaceInv /\ 2 * size < WRAP => PlaceInv')
<1>1. PICK s \in Growing : s = SegmentOf(flags)
  BY GrowingIs
<1>2. PICK to : to = next_free[s] - (size % WRAP)
  OBVIOUS
<1>3. CASE ~AboveStart(s, to)
  <2>1. m' = m /\ next_free' = next_free /\ alive' = alive
    BY <1>1, <1>2, <1>3 DEF shrink
  <2>2. next_free' = Expanded(0, flags) \/ next_free' = next_free
    BY <2>1
  <2> QED
    BY <2>1, <2>2, GrowStep
<1>4. CASE AboveStart(s, to)
  <2>1. /\ m' = Unmap(Released(s, size)) /\ alive' = alive
        /\ next_free' = [next_free EXCEPT ![s] = to]
    BY <1>1, <1>2, <1>4 DEF shrink
  <2>2. MemoryInv(m) /\ EndsInv /\ alive \in BOOLEAN
    BY DEF Inv, MemoryInv
  <2>3. Released(s, size) \in SUBSET Pages
    BY DEF Released
  <2>4. MemoryInv(m') /\ Mapped(m') = Mapped(m) \ Released(s, size)
    BY <2>1, <2>2, <2>3, UnmapOK
  <2>5. PICK a, b : a = next_free[s] /\ b = size % WRAP
    OBVIOUS
  <2>6. /\ a \in Nat /\ Start(s) <= a /\ a <= End(s) /\ b \in Nat /\ b <= size
        /\ to = a - b /\ Start(s) <= to /\ Start(s) \in Nat /\ End(s) \in Nat
    BY <1>2, <1>4, <2>2, <2>5, WrapLess, Layout DEF EndsInv, AboveStart, Start, End
  <2>7. to \in Nat /\ to <= End(s)
    BY <2>6
  <2>8. /\ next_free' \in [Growing -> Nat] /\ next_free'[s] = to
        /\ \A r \in Growing \ {s} : next_free'[r] = next_free[r]
    BY <2>1, <2>2, <2>7 DEF EndsInv
  <2>9. EndsInv'
    <3>1. \A r \in Growing : Start(r) <= next_free'[r] /\ next_free'[r] <= End(r)
      BY <2>2, <2>6, <2>7, <2>8 DEF EndsInv
    <3> QED
      BY <2>8, <3>1 DEF EndsInv, Start, End
  <2>10. ASSUME PlaceInv, 2 * size < WRAP PROVE PlaceInv'
    <3> SUFFICES ASSUME NEW p \in Mapped(m') \ {CODE} PROVE Placed(p)'
      BY DEF PlaceInv
    <3>1. p \in Mapped(m) \ {CODE} /\ p \notin Released(s, size)
      BY <2>4
    <3>2. p \in Nat /\ p \in Pages /\ Placed(p)
      BY <2>10, <3>1, Layout DEF Mapped, PlaceInv
    <3>3. \A r \in Growing : InGrowing(p, r) => InGrowing(p, r)'
      <4> SUFFICES ASSUME NEW r \in Growing, Start(r) <= p, p < next_free[r]
                   PROVE  p < next_free'[r]
        BY DEF InGrowing, Start
      <4>1. CASE r # s
        BY <2>8, <4>1
      <4>2. CASE r = s
        <5> SUFFICES ASSUME ~(p < to) PROVE FALSE
          BY <2>8, <4>2
        <5>1. PICK i : i = a - p
          OBVIOUS
        <5>2. i \in 1 .. size /\ p = a - i
          BY <2>5, <2>6, <3>2, <4>2, <5>1
        <5>3. p \in Released(s, size)
          BY <2>5, <2>10, <3>2, <5>2, ReleasedIs
        <5> QED
          BY <3>1, <5>3
      <4> QED
        BY <4>1, <4>2
    <3>4. InStack(p, TRUE) => InStack(p, TRUE)'
      BY DEF InStack
    <3> QED
      BY <3>2, <3>3, <3>4, GrowingIs DEF Placed
  <2>11. MemInv(m)' /\ NoLeak(m)' /\ WriteBits(m)'
    <3>1. MemInv(m') /\ NoLeak(m') /\ WriteBits(m')
      BY <2>4 DEF MemoryInv
    <3> QED
      BY <3>1
  <2> QED
    BY <2>1, <2>2, <2>9, <2>10, <2>11 DEF Inv
<1> QED
  BY <1>3, <1>4

\* A step that leaves memory and segments alone.
LEMMA IdleStep ==
  ASSUME Inv, m' = m, next_free' = next_free, alive' \in BOOLEAN
  PROVE  Inv' /\ (PlaceInv => PlaceInv')
<1>1. (MemInv(m) /\ NoLeak(m) /\ WriteBits(m))'
  BY DEF Inv
<1>2. EndsInv'
  BY DEF Inv, EndsInv, Start, End
<1>3. ASSUME PlaceInv PROVE PlaceInv'
  <2> SUFFICES ASSUME NEW p \in Mapped(m') \ {CODE} PROVE Placed(p)'
    BY DEF PlaceInv
  <2>1. Placed(p)
    BY <1>3 DEF PlaceInv
  <2> QED
    BY <2>1 DEF Placed, InGrowing, InStack, Start
<1> QED
  BY <1>1, <1>2, <1>3 DEF Inv

\* A fault maps one page, in a segment, with the rights of the segment.
LEMMA FaultStep ==
  ASSUME Inv, NEW p \in Pages, NEW w \in BOOLEAN, NEW base \in BOOLEAN,
         handle_page_fault(p, w, base)
  PROVE  Inv' /\ (PlaceInv => PlaceInv') /\ Mapped(m) \subseteq Mapped(m')
<1>1. PICK wr \in BOOLEAN : wr = (Region(p, base) # "RODATA")
  OBVIOUS
<1>2. CASE Refused(p, w, base)
  <2>1. m' = m /\ next_free' = next_free /\ alive' = FALSE
    BY <1>2 DEF handle_page_fault
  <2> QED
    BY <2>1, IdleStep
<1>3. CASE ~Refused(p, w, base)
  <2>1. /\ PoolsSuffice /\ next_free' = next_free /\ alive' = alive
        /\ m' = MapNew(Tables(m, p, wr), p, wr)
    BY <1>1, <1>3 DEF handle_page_fault
  <2>2. MemoryInv(m) /\ MemInv(m) /\ EndsInv /\ alive \in BOOLEAN
    BY DEF Inv, MemoryInv
  <2>3. ~Present(m, p) /\ Region(p, base) # "none"
    BY <1>3 DEF Refused
  <2>4. m.pt[Entry(1, p)] = NoEntry
    <3>1. p \notin Mapped(m)
      BY <2>2, <2>3, MappedPresent
    <3> QED
      BY <3>1 DEF Mapped
  <2>5. p \in Nat
    BY Layout
  <2>6. Region(p, TRUE) = Region(p, base) /\ Placed(p)
    BY <2>2, <2>3, <2>5, RegionIs
  <2>7. wr <=> p >= DATA_START
    BY <1>1, <2>2, <2>5, <2>6, RegionIs
  <2>8. Free(m.user) # {} /\ Cardinality(Free(m.ospt)) >= 0 + 3
    BY <2>1 DEF PoolsSuffice
  <2>9. MemoryInv(m') /\ Mapped(m') = Mapped(m) \cup {p}
    BY <2>1, <2>2, <2>4, <2>7, <2>8, NewPage
  <2>10. (MemInv(m) /\ NoLeak(m) /\ WriteBits(m))'
    <3>1. MemInv(m') /\ NoLeak(m') /\ WriteBits(m')
      BY <2>9 DEF MemoryInv
    <3> QED
      BY <3>1
  <2>11. EndsInv'
    BY <2>1, <2>2 DEF EndsInv, Start, End
  <2>12. ASSUME PlaceInv PROVE PlaceInv'
    <3> SUFFICES ASSUME NEW q \in Mapped(m') \ {CODE} PROVE Placed(q)'
      BY DEF PlaceInv
    <3>1. Placed(q)
      BY <2>6, <2>9, <2>12 DEF PlaceInv
    <3> QED
      BY <2>1, <3>1 DEF Placed, InGrowing, InStack, Start
  <2> QED
    BY <2>1, <2>2, <2>9, <2>10, <2>11, <2>12 DEF Inv
<1> QED
  BY <1>2, <1>3

\* Arguments are numbers.
LEMMA Arguments ==
  /\ Sizes \subseteq Nat
  /\ \A b : LowerHalf(b) \subseteq Nat
<1>1. MAX_SIZE \in Nat
  BY VMAssumptions
<1>2. \A b : LowerHalf(b) \subseteq Nat
  BY <1>1 DEF LowerHalf
<1> QED
  BY <1>2, VMAssumptions

\* Every step keeps the accounts, and the pages in their segments if no size
\* overflows.
LEMMA NextInv ==
  Inv /\ [Next]_vars => Inv' /\ (SmallSizes /\ PlaceInv => PlaceInv')
<1> DEFINE Kept == Inv' /\ (SmallSizes /\ PlaceInv => PlaceInv')
<1> SUFFICES ASSUME Inv, [Next]_vars PROVE Kept
  OBVIOUS
<1>1. ASSUME NEW size \in Sizes, NEW flags \in {0, 1}, expand(size, flags)
      PROVE  Kept
  <2>1. size \in Nat
    BY Arguments
  <2>2. next_free' = Expanded(size, flags) /\ UNCHANGED <<m, alive>>
    BY <1>1 DEF expand
  <2> QED
    BY <2>1, <2>2, GrowStep
<1>2. ASSUME NEW size \in Sizes, NEW flags \in {0, 1}, shrink(size, flags)
      PROVE  Kept
  <2>1. size \in Nat /\ (SmallSizes => 2 * size < WRAP)
    BY Arguments DEF SmallSizes
  <2> QED
    BY <1>2, <2>1, ShrinkStep
<1>3. ASSUME NEW b \in Pages, NEW spans \in BOOLEAN, NEW length \in Lengths,
             NEW size \in LowerHalf(b), write(b, spans, length, size)
      PROVE  Kept
  <2>1. size \in Nat
    BY Arguments
  <2>2. /\ next_free' = Expanded(size, length) \/ next_free' = next_free
        /\ UNCHANGED <<m, alive>>
    BY <1>3 DEF write
  <2> QED
    BY <2>1, <2>2, GrowStep
<1>4. ASSUME NEW p \in Pages, NEW w \in BOOLEAN, NEW base \in BOOLEAN,
             handle_page_fault(p, w, base)
      PROVE  Kept
  BY <1>4, FaultStep
<1>5. CASE do_exit
  BY <1>5, IdleStep DEF do_exit
<1>6. CASE UNCHANGED vars
  <2>1. m' = m /\ next_free' = next_free /\ alive' = alive /\ alive \in BOOLEAN
    BY <1>6 DEF vars, Inv
  <2> QED
    BY <2>1, IdleStep
<1> QED
  BY <1>1, <1>2, <1>3, <1>4, <1>5, <1>6 DEF Next

-----------------------------------------------------------------------------
\* The inductive invariant of the lazy memory holds in every behaviour, for every
\* size that user programs pass.
THEOREM MemoryInvariance == Spec => []Inv
<1> QED
  BY InitInv, NextInv, PTL DEF Spec

\* Page tables, pools and segment ends keep their types: in particular no count
\* of a pool ever goes below zero.
THEOREM MemoryTypeCorrect == Spec => []TypeOK
<1>1. Inv => TypeOK
  <2>1. Inv => m \in Memories
    BY MemIs DEF Inv, MemInv
  <2> QED
    BY <2>1 DEF Inv, EndsInv, TypeOK
<1> QED
  BY <1>1, MemoryInvariance, PTL

\* Every frame is in its pool or in exactly one entry, after any sequence of
\* expand, write, shrink and faults: no leak, no double free, no double mapping.
THEOREM MemoryFrames == Spec => []FrameAccounting
<1>1. Inv => FrameAccounting
  <2> SUFFICES ASSUME Inv PROVE FrameAccounting
    OBVIOUS
  <2>1. MemInv(m) /\ NoLeak(m) /\ UsedInv(m)
    BY DEF Inv, MemInv
  <2>2. m.user \in [UserFrames -> Bit] /\ m.ospt \in [OsFrames -> Bit]
    BY <2>1, MemIs DEF MemInv
  <2>3. ASSUME NEW f \in UserFrames
        PROVE  m.user[f] + Cardinality(PageRefs(m, f)) = 1
    <3>1. \A p : p \in PageRefs(m, f) <=> p \in Mapped(m) /\ m.pt[Entry(1, p)].pfn = f
      BY DEF PageRefs, Mapped
    <3>2. CASE m.user[f] = 0
      <4>1. PICK e \in Entries : e[1] = 1 /\ m.pt[e] # NoEntry /\ m.pt[e].pfn = f
        BY <2>1, <3>2 DEF NoLeak
      <4>2. PICK p \in Pages : e = Entry(1, p)
        BY <4>1, PageEntry
      <4>3. p \in PageRefs(m, f)
        BY <4>1, <4>2 DEF PageRefs
      <4>4. \A q \in PageRefs(m, f) : q = p
        BY <2>1, <3>1, <4>3, OnePage
      <4>5. PageRefs(m, f) = {p}
        BY <4>3, <4>4
      <4>6. Cardinality(PageRefs(m, f)) = 1
        BY <4>5, FS_Singleton
      <4> QED
        BY <3>2, <4>6
    <3>3. CASE m.user[f] = 1
      <4>1. PageRefs(m, f) = {}
        BY <2>1, <3>1, <3>3, PageFrame
      <4>2. Cardinality(PageRefs(m, f)) = 0
        BY <4>1, FS_EmptySet
      <4> QED
        BY <3>3, <4>2
    <3> QED
      BY <2>2, <3>2, <3>3 DEF Bit
  <2>4. ASSUME NEW f \in OsFrames
        PROVE  m.ospt[f] + Cardinality(TableRefs(m, f)) = 1
    <3>1. \A e \in Entries : e[1] > 1 <=> e[1] # 1
      <4> SUFFICES ASSUME NEW e \in Entries PROVE e[1] > 1 <=> e[1] # 1
        OBVIOUS
      <4>1. PICK l \in 1 .. 4, p \in Pages : e = Entry(l, p) /\ e[1] = l
        BY EntryOf
      <4> QED
        BY <4>1
    <3>2. CASE m.ospt[f] = 0
      <4>1. PICK e \in Entries : e[1] # 1 /\ m.pt[e] # NoEntry /\ m.pt[e].pfn = f
        BY <2>1, <3>2 DEF NoLeak
      <4>2. e \in TableRefs(m, f)
        BY <3>1, <4>1 DEF TableRefs
      <4>3. \A n \in TableRefs(m, f) : n = e
        BY <2>1, <3>1, <4>1 DEF TableRefs, UsedInv
      <4>4. TableRefs(m, f) = {e}
        BY <4>2, <4>3
      <4>5. Cardinality(TableRefs(m, f)) = 1
        BY <4>4, FS_Singleton
      <4> QED
        BY <3>2, <4>5
    <3>3. CASE m.ospt[f] = 1
      <4>1. TableRefs(m, f) = {}
        BY <2>1, <3>1, <3>3 DEF TableRefs, UsedInv, Pool
      <4>2. Cardinality(TableRefs(m, f)) = 0
        BY <4>1, FS_EmptySet
      <4> QED
        BY <3>3, <4>2
    <3> QED
      BY <2>2, <3>2, <3>3 DEF Bit
  <2> QED
    BY <2>3, <2>4 DEF FrameAccounting
<1> QED
  BY <1>1, MemoryInvariance, PTL

\* Pages stay in their segments as long as no product in shrink overflows.
LEMMA PlaceInvariance ==
  ASSUME SmallSizes
  PROVE  Spec => [](Inv /\ PlaceInv)
<1>1. Inv /\ PlaceInv /\ [Next]_vars => (Inv /\ PlaceInv)'
  BY NextInv
<1> QED
  BY <1>1, InitInv, PTL DEF Spec

\* Only pages of the segments, below their next_free, are mapped.  Sizes are below
\* 2^19 pages (SmallSizes): from there on i * 4096 overflows, other pages are
\* released, and pages that left the segment stay mapped.
THEOREM MemoryInSegments ==
  ASSUME SmallSizes
  PROVE  Spec => []MappedInSegments
<1>1. Inv /\ PlaceInv => MappedInSegments
  <2> SUFFICES ASSUME Inv, PlaceInv, NEW p \in Mapped(m) \ {CODE} PROVE Region(p, TRUE) # "none"
    BY DEF MappedInSegments
  <2>1. p \in Nat /\ EndsInv /\ Placed(p)
    BY Layout DEF Inv, PlaceInv, Mapped
  <2> QED
    BY <2>1, RegionIs
<1> QED
  BY <1>1, PlaceInvariance, PTL

\* A page is writable, at all four levels, if and only if its segment is; sizes
\* are below 2^19 pages, so that every mapped page has a segment.
THEOREM MemoryPermissions ==
  ASSUME SmallSizes
  PROVE  Spec => []Permissions
<1>1. Inv /\ PlaceInv => Permissions
  <2> SUFFICES ASSUME Inv, PlaceInv, NEW p \in Mapped(m) \ {CODE}
               PROVE  Writable(m, p) <=> Region(p, TRUE) # "RODATA"
    BY DEF Permissions
  <2>1. p \in Nat /\ EndsInv /\ Placed(p) /\ MemInv(m) /\ WriteBits(m)
    BY Layout DEF Inv, PlaceInv, Mapped
  <2>2. Region(p, TRUE) # "RODATA" <=> p >= DATA_START
    BY <2>1, RegionIs
  <2>3. Present(m, p)
    BY <2>1, MappedPresent
  <2>4. /\ m.pt[Entry(1, p)].w <=> p >= DATA_START
        /\ p >= DATA_START => \A l \in 2 .. 4 : m.pt[Entry(l, p)].w
    BY <2>1 DEF WriteBits
  <2>5. 1 \in 1 .. 4 /\ \A l \in 1 .. 4 : l = 1 \/ l \in 2 .. 4
    OBVIOUS
  <2>6. Writable(m, p) <=> p >= DATA_START
    <3>1. Writable(m, p) => p >= DATA_START
      BY <2>4, <2>5 DEF Writable
    <3>2. p >= DATA_START => \A l \in 1 .. 4 : m.pt[Entry(l, p)].w
      BY <2>4, <2>5
    <3> QED
      BY <2>3, <3>1, <3>2 DEF Writable
  <2> QED
    BY <2>2, <2>6
<1> QED
  BY <1>1, PlaceInvariance, PTL

\* If no product overflows, shrink unmaps only the pages that leave its segment,
\* and no other step unmaps any.  With an overflow it releases pages elsewhere, so
\* the condition is needed.
THEOREM MemoryShrink ==
  ASSUME SmallSizes
  PROVE  Spec => ShrinkUnmapsReleased
<1> DEFINE Leaves == \A p \in Mapped(m) \ Mapped(m') :
                       \E s \in Growing : next_free'[s] <= p /\ p < next_free[s]
<1>1. Inv /\ [Next]_vars => Leaves \/ UNCHANGED vars
  <2> SUFFICES ASSUME Inv, Next, NEW p \in Mapped(m) \ Mapped(m')
               PROVE  \E s \in Growing : next_free'[s] <= p /\ p < next_free[s]
    OBVIOUS
  <2>1. m' # m
    OBVIOUS
  <2>2. ASSUME NEW size \in Sizes, NEW flags \in {0, 1}, shrink(size, flags)
        PROVE  \E s \in Growing : next_free'[s] <= p /\ p < next_free[s]
    <3>1. PICK s \in Growing : s = SegmentOf(flags)
      BY GrowingIs
    <3>2. PICK a, to : a = next_free[s] /\ to = a - (size % WRAP)
      OBVIOUS
    <3>3. m' = Unmap(Released(s, size)) /\ next_free' = [next_free EXCEPT ![s] = to]
      BY <2>1, <2>2, <3>1, <3>2 DEF shrink
    <3>4. MemoryInv(m) /\ EndsInv /\ Released(s, size) \in SUBSET Pages
      BY DEF Inv, MemoryInv, Released
    <3>5. Mapped(m') = Mapped(m) \ Released(s, size)
      BY <3>3, <3>4, UnmapOK
    <3>6. size \in Nat /\ 2 * size < WRAP
      BY Arguments DEF SmallSizes
    <3>7. PICK i \in 1 .. size : p = a - i
      BY <3>2, <3>5, <3>6, ReleasedIs
    <3>8. next_free'[s] = to
      BY <3>3, <3>4 DEF EndsInv
    <3>9. to <= p /\ p < a
      <4>1. size % WRAP = size
        BY <3>6, SignedIs
      <4>2. a \in Nat
        BY <3>2, <3>4 DEF EndsInv
      <4> QED
        BY <3>2, <3>6, <3>7, <4>1, <4>2
    <3> QED
      BY <3>2, <3>8, <3>9
  <2>3. ASSUME NEW q \in Pages, NEW w \in BOOLEAN, NEW base \in BOOLEAN,
               handle_page_fault(q, w, base)
        PROVE  FALSE
    BY <2>3, FaultStep
  <2> QED
    BY <2>1, <2>2, <2>3 DEF Next, expand, write, do_exit
<1>2. Inv /\ [Next]_vars => [Leaves]_vars
  BY <1>1
<1> QED
  BY <1>2, MemoryInvariance, PTL DEF Spec, ShrinkUnmapsReleased
=============================================================================
