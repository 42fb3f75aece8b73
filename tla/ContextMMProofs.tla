--------------------------- MODULE ContextMMProofs ---------------------------
(***************************************************************************)
(* Proofs about the page tables of contexts, for every number of contexts, *)
(* placement of their pages, size of a table and number of frames.         *)
(***************************************************************************)
EXTENDS ContextMM, PageTablesProofs

\* The pgd is a table like the others, and its frame is in no entry: a level 5.
Root  == <<5, 0>>
Slots == Entries \cup {Root}

In(x, s)    == x \in Live /\ (s = Root \/ pt[x][s] # NoEntry)
Frame(x, s) == IF s = Root THEN ctx[x].pgd ELSE pt[x][s].pfn
PoolOf(s)   == IF s[1] = 1 THEN user ELSE ospt

PagesOf(c) == {c.code, c.data, c.stack}

\* The tables t of a context with description c: its three pages are mapped with
\* their rights, and there is nothing else.
Built(t, c) ==
  /\ c.code # c.data /\ c.code # c.stack /\ c.data # c.stack
  /\ \A p \in PagesOf(c), l \in 1 .. 4 : t[Entry(l, p)] # NoEntry
  /\ ~t[Entry(1, c.code)].w
  /\ \A l \in 1 .. 4 : t[Entry(l, c.data)].w /\ t[Entry(l, c.stack)].w
  /\ t[Entry(1, c.data)].pfn = c.arg_pfn
  /\ \A e \in Entries : t[e] # NoEntry =>
       \E p \in PagesOf(c), l \in 1 .. 4 : e = Entry(l, p)

TypeInv ==
  /\ ctx \in [Contexts -> {NoContext} \cup
                [code : Pages, data : Pages, stack : Pages,
                 arg_pfn : UserFrames, pgd : OsFrames]]
  /\ pt \in [Contexts -> PageTableType]
  /\ user \in [UserFrames -> Bit] /\ ospt \in [OsFrames -> Bit]

BuiltInv == \A x \in Live : Built(pt[x], ctx[x])

\* No frame of a context is free, and none is in two places.
NotFree == \A x \in Live, s \in Slots : In(x, s) => PoolOf(s)[Frame(x, s)] = 0

Once ==
  \A x, y \in Live, s, t \in Slots :
    /\ In(x, s) /\ In(y, t)
    /\ s[1] = 1 <=> t[1] = 1
    /\ Frame(x, s) = Frame(y, t)
    => x = y /\ s = t

\* A frame that is not free is in some place.
NoLeak ==
  /\ \A f \in UserFrames : user[f] = 0 =>
       \E x \in Live, s \in Slots : s[1] = 1 /\ In(x, s) /\ Frame(x, s) = f
  /\ \A f \in OsFrames : ospt[f] = 0 =>
       \E x \in Live, s \in Slots : s[1] # 1 /\ In(x, s) /\ Frame(x, s) = f

Inv == TypeInv /\ BuiltInv /\ NotFree /\ Once /\ NoLeak

-----------------------------------------------------------------------------
\* Memory as it would be had frame g not been taken.
Kept(M, g) == [pt |-> M.pt, user |-> [M.user EXCEPT ![g] = 1], ospt |-> M.ospt]

NotMapped(M, g) == \A e \in Entries : e[1] = 1 /\ M.pt[e] # NoEntry => M.pt[e].pfn # g

\* A frame that is in no page can be thought of as free.
LEMMA KeptInv ==
  ASSUME NEW M, MemInv(M), NEW g \in UserFrames, NotMapped(M, g),
         NEW K, K = Kept(M, g)
  PROVE  MemInv(K)
<1>1. M \in Mems /\ TreeInv(M) /\ UsedInv(M)
  BY DEF MemInv
<1>2. /\ M.pt \in PageTableType /\ M.user \in [UserFrames -> Bit]
      /\ M.ospt \in [OsFrames -> Bit]
      /\ \A e \in Entries : M.pt[e] # NoEntry =>
           M.pt[e].pfn \in IF e[1] = 1 THEN UserFrames ELSE OsFrames
  BY <1>1, MemIs
<1>3. PICK u : u = [M.user EXCEPT ![g] = 1]
  OBVIOUS
<1>4. u \in [UserFrames -> Bit] /\ \A f \in UserFrames \ {g} : u[f] = M.user[f]
  BY <1>2, <1>3 DEF Bit
<1>5. K = [pt |-> M.pt, user |-> u, ospt |-> M.ospt]
  BY <1>3 DEF Kept
<1>6. K.pt = M.pt /\ K.user = u /\ K.ospt = M.ospt
  BY <1>5
<1>7. K \in Mems
  BY <1>2, <1>4, <1>5 DEF Mems
<1>8. TreeInv(K)
  BY <1>1, <1>6 DEF TreeInv
<1>9. \A e \in Entries : K.pt[e] # NoEntry => Pool(K, e)[K.pt[e].pfn] = 0
  <2> SUFFICES ASSUME NEW e \in Entries, M.pt[e] # NoEntry
               PROVE  Pool(K, e)[M.pt[e].pfn] = 0
    BY <1>6
  <2>1. Pool(M, e)[M.pt[e].pfn] = 0
    BY <1>1 DEF UsedInv
  <2>2. CASE e[1] = 1
    BY <1>2, <1>4, <1>6, <2>1, <2>2 DEF NotMapped, Pool
  <2>3. CASE e[1] # 1
    BY <1>6, <2>1, <2>3 DEF Pool
  <2> QED
    BY <2>2, <2>3
<1>10. UsedInv(K)
  BY <1>1, <1>6, <1>9 DEF UsedInv
<1> QED
  BY <1>7, <1>8, <1>10 DEF MemInv

\* What grows without using g also grows beside a free g.
LEMMA KeptGrows ==
  ASSUME NEW L, NEW M, MemInv(L), MemInv(M), Grows(L, M), NEW g \in UserFrames,
         L.user[g] = 0, NotMapped(L, g),
         NEW K, K = Kept(L, g), NEW N, N = Kept(M, g)
  PROVE  Grows(K, N) /\ NotMapped(M, g) /\ M.user[g] = 0
<1>1. Stays(L, M) /\ Fresh(L, M) /\ Spent(L, M)
  BY DEF Grows
<1>2. /\ L.user \in [UserFrames -> Bit] /\ M.user \in [UserFrames -> Bit]
      /\ \A e \in Entries : M.pt[e] # NoEntry =>
           M.pt[e].pfn \in IF e[1] = 1 THEN UserFrames ELSE OsFrames
  BY MemIs DEF MemInv
<1>3. PICK u, v : u = [L.user EXCEPT ![g] = 1] /\ v = [M.user EXCEPT ![g] = 1]
  OBVIOUS
<1>4. /\ u[g] = 1 /\ v[g] = 1
      /\ \A f \in UserFrames \ {g} : u[f] = L.user[f] /\ v[f] = M.user[f]
  BY <1>2, <1>3
<1>5. /\ K.pt = L.pt /\ K.user = u /\ K.ospt = L.ospt
      /\ N.pt = M.pt /\ N.user = v /\ N.ospt = M.ospt
  BY <1>3 DEF Kept
<1>6. M.user[g] = 0
  BY <1>1 DEF Spent
<1>7. NotMapped(M, g)
  <2> SUFFICES ASSUME NEW e \in Entries, e[1] = 1, M.pt[e] # NoEntry, M.pt[e].pfn = g
               PROVE  FALSE
    BY DEF NotMapped
  <2>1. CASE L.pt[e] # NoEntry
    BY <1>1, <2>1 DEF Stays, NotMapped
  <2>2. CASE L.pt[e] = NoEntry
    BY <1>1, <2>2 DEF Fresh, Pool
  <2> QED
    BY <2>1, <2>2
<1>8. Stays(K, N)
  BY <1>1, <1>5 DEF Stays
<1>9. Fresh(K, N)
  <2> SUFFICES ASSUME NEW e \in Entries, L.pt[e] = NoEntry, M.pt[e] # NoEntry
               PROVE  Pool(K, e)[M.pt[e].pfn] = 1
    BY <1>5 DEF Fresh
  <2>1. Pool(L, e)[M.pt[e].pfn] = 1
    BY <1>1 DEF Fresh
  <2>2. CASE e[1] = 1
    BY <1>2, <1>4, <1>5, <2>1, <2>2 DEF Pool
  <2>3. CASE e[1] # 1
    BY <1>5, <2>1, <2>3 DEF Pool
  <2> QED
    BY <2>2, <2>3
<1>10. Spent(K, N)
  BY <1>1, <1>4, <1>5 DEF Spent
<1> QED
  BY <1>6, <1>7, <1>8, <1>9, <1>10 DEF Grows

MapDone(T, N, p, w, g) ==
  /\ MemInv(N) /\ Grows(Kept(T, g), N)
  /\ N.user = T.user /\ N.ospt = T.ospt
  /\ N.pt[Entry(1, p)] = [pfn |-> g, w |-> w] /\ N.pt[Entry(1, p)] # NoEntry
  /\ \A n \in Entries \ {Entry(1, p)} : N.pt[n] = T.pt[n]

\* The page of the arguments gets the frame that was taken for it.
LEMMA MapFrameOK ==
  ASSUME NEW T, MemInv(T), NEW p \in Pages, NEW w \in BOOLEAN, NEW g \in UserFrames,
         T.pt[Entry(1, p)] = NoEntry, T.pt[Entry(2, p)] # NoEntry,
         T.user[g] = 0, NotMapped(T, g),
         NEW N, N = MapFrame(T, p, w, g)
  PROVE  MapDone(T, N, p, w, g)
<1>1. PICK e, r, t, K : /\ e = Entry(1, p) /\ r = [pfn |-> g, w |-> w]
                        /\ t = [T.pt EXCEPT ![e] = r] /\ K = Kept(T, g)
  OBVIOUS
<1>2. e \in Entries /\ e[1] = 1
  BY <1>1, EntryIs
<1>3. /\ T.pt \in PageTableType /\ T.user \in [UserFrames -> Bit]
      /\ T.ospt \in [OsFrames -> Bit] /\ DOMAIN T.pt = Entries
  BY MemIs, PageTableIs DEF MemInv
<1>4. N = [pt |-> t, user |-> T.user, ospt |-> T.ospt]
  BY <1>1 DEF MapFrame
<1>5. N.pt = t /\ N.user = T.user /\ N.ospt = T.ospt
  BY <1>4
<1>6. r \in EntryType(e) /\ r # NoEntry /\ r.pfn = g
  BY <1>1, <1>2, MadeEntry
<1>7. t = [n \in Entries |-> t[n]] /\ t[e] = r /\ \A n \in Entries \ {e} : t[n] = T.pt[n]
  BY <1>1, <1>2, <1>3, PageTableIs
<1>8. t \in PageTableType
  <2>1. \A n \in Entries : t[n] \in EntryType(n)
    BY <1>3, <1>6, <1>7, PageTableIs
  <2> QED
    BY <1>7, <2>1, PageTableIs
<1>9. N \in Mems
  BY <1>3, <1>4, <1>8 DEF Mems
<1>10. MemInv(K)
  BY <1>1, KeptInv
<1>11. /\ K.pt = T.pt /\ K.ospt = T.ospt /\ K.user[g] = 1
       /\ \A f \in UserFrames \ {g} : K.user[f] = T.user[f]
  BY <1>1, <1>3 DEF Kept
<1>12. \A x \in Entries : InTable(e, x) => K.pt[x] # NoEntry
  <2>1. 1 \in 1 .. 3 /\ 1 + 1 = 2
    OBVIOUS
  <2> QED
    BY <1>1, <1>11, <2>1, TableAbove
<1>13. /\ K.pt[e] = NoEntry /\ N.pt[e] # NoEntry /\ g = N.pt[e].pfn
       /\ \A n \in Entries \ {e} : N.pt[n] = K.pt[n]
       /\ Pool(K, e)[g] = 1 /\ Pool(N, e)[g] = 0
       /\ N.ospt = K.ospt /\ \A f \in UserFrames \ {g} : N.user[f] = K.user[f]
  BY <1>1, <1>2, <1>5, <1>6, <1>7, <1>11 DEF Pool
<1>14. MemInv(N) /\ Grows(K, N)
  BY <1>2, <1>9, <1>10, <1>12, <1>13, PutEntry
<1> QED
  BY <1>1, <1>5, <1>6, <1>7, <1>14 DEF MapDone

-----------------------------------------------------------------------------
TablesDone(M, N, p, w, k) ==
  /\ MemInv(N) /\ Grows(M, N) /\ N.user = M.user
  /\ \A l \in 2 .. 4 : N.pt[Entry(l, p)] # NoEntry /\ (w => N.pt[Entry(l, p)].w)
  /\ Cardinality(Free(N.ospt)) >= k /\ Along(M, N, p)
  /\ \A n \in Entries : n[1] = 1 => N.pt[n] = M.pt[n]

\* TablesOK with a name for what it shows.
LEMMA TablesAreDone ==
  ASSUME NEW M, MemInv(M), NEW p \in Pages, NEW w \in BOOLEAN, NEW k \in Nat,
         Cardinality(Free(M.ospt)) >= k + 3,
         NEW N, N = Tables(M, p, w)
  PROVE  TablesDone(M, N, p, w, k)
BY TablesOK DEF TablesDone

\* No tables and pools with frames taken.
LEMMA NoTablesOK ==
  ASSUME NEW U \in [UserFrames -> Bit], NEW O \in [OsFrames -> Bit],
         NEW M, M = [pt |-> NoTables, user |-> U, ospt |-> O]
  PROVE  /\ MemInv(M) /\ M.pt = NoTables /\ M.user = U /\ M.ospt = O
         /\ \A e \in Entries : M.pt[e] = NoEntry
<1>1. PICK t : t = NoTables
  OBVIOUS
<1>2. t = [e \in Entries |-> t[e]] /\ \A e \in Entries : t[e] = NoEntry
  BY <1>1 DEF NoTables
<1>3. t \in PageTableType
  <2>1. \A e \in Entries : t[e] \in EntryType(e)
    BY <1>2 DEF EntryType
  <2> QED
    BY <1>2, <2>1, PageTableIs
<1>4. M.pt = t /\ M.user = U /\ M.ospt = O
  BY <1>1
<1>5. M \in Mems
  BY <1>1, <1>3 DEF Mems
<1> QED
  BY <1>1, <1>2, <1>4, <1>5 DEF MemInv, TreeInv, UsedInv

\* Entries that stay in two steps stay.
LEMMA StaysTrans ==
  ASSUME NEW L, NEW M, NEW N, Stays(L, M), Stays(M, N)
  PROVE  Stays(L, N)
BY DEF Stays

(***************************************************************************)
(* prepare_context_mm with pools U and O: the tables are built, with       *)
(* frames that were free, and no other frame leaves its pool but the pgd.  *)
(* The frame of the arguments is taken first but counts as free until it   *)
(* is mapped.                                                              *)
(***************************************************************************)
Prepared(U, O, N, c) ==
  /\ MemInv(N) /\ Built(N.pt, c)
  /\ Grows([pt |-> NoTables, user |-> U, ospt |-> Taken(O)], N)

\* Sums of frames.
LEMMA Sums == 0 + 1 = 1 /\ 0 + 3 = 3 /\ 3 + 3 = 6
OBVIOUS

\* What the three calls of allocate make.
LEMMA PrepareOK ==
  ASSUME NEW U \in [UserFrames -> Bit], NEW O \in [OsFrames -> Bit],
         Cardinality(Free(U)) >= 3, Cardinality(Free(O)) >= 10,
         NEW c, c.code \in Pages, c.data \in Pages, c.stack \in Pages,
         c.code # c.data, c.code # c.stack, c.data # c.stack,
         c.arg_pfn = os_pfn_alloc(U),
         NEW m0, m0 = [pt |-> NoTables, user |-> Taken(U), ospt |-> Taken(O)],
         NEW m1, m1 = allocate(m0, c.code, FALSE),
         NEW m2, m2 = allocate_data(m1, c.data, TRUE, c.arg_pfn),
         NEW m3, m3 = allocate(m2, c.stack, TRUE)
  PROVE  Prepared(U, O, m3, c)
<1>1. PICK g, x, y, z, no, yes : /\ g = os_pfn_alloc(U) /\ x = c.code
                                 /\ y = c.data /\ z = c.stack
                                 /\ no = FALSE /\ yes = TRUE
  OBVIOUS
<1>2. /\ x \in Pages /\ y \in Pages /\ z \in Pages /\ x # y /\ x # z /\ y # z
      /\ no \in BOOLEAN /\ yes \in BOOLEAN
  BY <1>1
<1>3. IsFiniteSet(UserFrames) /\ IsFiniteSet(OsFrames)
  BY PageTableAssumptions
<1>4. /\ g \in UserFrames /\ U[g] = 1 /\ Taken(U) \in [UserFrames -> Bit] /\ Taken(U)[g] = 0
      /\ \A f \in UserFrames \ {g} : Taken(U)[f] = U[f]
      /\ Cardinality(Free(Taken(U))) >= 2
  <2>1. Cardinality(Free(U)) >= 2 + 1
    OBVIOUS
  <2>2. Free(U) # {}
    BY <2>1, SomeFree
  <2>3. /\ g \in UserFrames /\ U[g] = 1 /\ Taken(U) \in [UserFrames -> Bit] /\ Taken(U)[g] = 0
        /\ \A f \in UserFrames \ {g} : Taken(U)[f] = U[f]
        /\ Free(Taken(U)) = Free(U) \ {g}
    BY <1>1, <2>2, TakenIs
  <2>4. Cardinality(Free(Taken(U))) >= 2
    BY <1>3, <2>1, <2>3, FreeLeft
  <2> QED
    BY <2>3, <2>4
<1>5. Taken(O) \in [OsFrames -> Bit] /\ Cardinality(Free(Taken(O))) >= 9
  <2>1. Cardinality(Free(O)) >= 9 + 1
    OBVIOUS
  <2>2. Free(O) # {}
    BY <2>1, SomeFree
  <2>3. Taken(O) \in [OsFrames -> Bit] /\ Free(Taken(O)) = Free(O) \ {os_pfn_alloc(O)}
    BY <2>2, TakenIs
  <2> QED
    BY <1>3, <2>1, <2>3, FreeLeft
<1>6. /\ MemInv(m0) /\ m0.pt = NoTables /\ m0.user = Taken(U) /\ m0.ospt = Taken(O)
      /\ \A e \in Entries : m0.pt[e] = NoEntry
  BY <1>4, <1>5, NoTablesOK
<1>7. NotMapped(m0, g) /\ m0.user[g] = 0
  BY <1>4, <1>6 DEF NotMapped
<1>8. \A p \in Pages : Entry(1, p) \in Entries /\ Entry(1, p)[1] = 1
  BY EntryIs
<1>9. Allocated(m0, m1, x, no, no) /\ Cardinality(Free(m1.ospt)) >= 6 /\ Free(m1.user) # {}
  <2>1. m1 = MapNew(Tables(m0, x, no), x, no)
    BY <1>1 DEF allocate
  <2>2. Cardinality(Free(m0.ospt)) >= 6 + 3
    BY <1>5, <1>6
  <2>3. Cardinality(Free(m0.user)) >= 1 + 1
    BY <1>4, <1>6
  <2>4. Free(m0.user) # {}
    BY <2>3, SomeFree
  <2>5. MemInv(m0)
    BY <1>6
  <2>6. Allocated(m0, m1, x, no, no) /\ Cardinality(Free(m1.ospt)) >= 6
    BY <1>2, <2>1, <2>2, <2>4, <2>5, AllocateOK
  <2>7. m0.user \in [UserFrames -> Bit] /\ m1.user \in [UserFrames -> Bit]
    BY <2>5, <2>6, MemIs DEF Allocated, MemInv
  <2>8. Free(m0.user) \ {os_pfn_alloc(m0.user)} \subseteq Free(m1.user)
    BY <2>6 DEF Allocated
  <2>9. Cardinality(Free(m1.user)) >= 1
    BY <1>3, <2>3, <2>7, <2>8, FreeLeft
  <2>11. Cardinality(Free(m1.user)) >= 0 + 1
    BY <2>9, Sums
  <2>10. Free(m1.user) # {}
    BY <2>11, SomeFree
  <2> QED
    BY <2>6, <2>10
<1>10. PICK T : T = Tables(m1, y, yes)
  OBVIOUS
<1>11. TablesDone(m1, T, y, yes, 3)
  <2>1. MemInv(m1)
    BY <1>9 DEF Allocated
  <2>2. Cardinality(Free(m1.ospt)) >= 3 + 3
    BY <1>9, Sums
  <2> QED
    BY <1>2, <1>10, <2>1, <2>2, TablesAreDone
<1>12. MemInv(T) /\ Grows(m0, T)
  <2>1. MemInv(m0) /\ MemInv(m1) /\ MemInv(T) /\ Grows(m0, m1) /\ Grows(m1, T)
    BY <1>6, <1>9, <1>11 DEF Allocated, TablesDone
  <2> QED
    BY <2>1, GrowsTrans
<1>13. PICK B, K : B = Kept(m0, g) /\ K = Kept(T, g)
  OBVIOUS
<1>14. Grows(B, K) /\ NotMapped(T, g) /\ T.user[g] = 0 /\ MemInv(B) /\ MemInv(K)
  <2>1. Grows(B, K) /\ NotMapped(T, g) /\ T.user[g] = 0
    BY <1>4, <1>6, <1>7, <1>12, <1>13, KeptGrows
  <2> QED
    BY <1>4, <1>6, <1>7, <1>12, <1>13, <2>1, KeptInv
<1>15. /\ m1.pt[Entry(1, y)] = NoEntry /\ m1.pt[Entry(1, z)] = NoEntry
       /\ T.pt[Entry(1, y)] = NoEntry /\ T.pt[Entry(1, z)] = NoEntry
       /\ T.pt[Entry(1, x)] = m1.pt[Entry(1, x)] /\ m0.pt[Entry(1, x)] = NoEntry
  <2>1. \A q \in Pages \ {x} : m1.pt[Entry(1, q)] = m0.pt[Entry(1, q)]
    BY <1>9 DEF Allocated
  <2>2. \A n \in Entries : n[1] = 1 => T.pt[n] = m1.pt[n]
    BY <1>11 DEF TablesDone
  <2>3. \A q \in Pages : m0.pt[Entry(1, q)] = NoEntry
    BY <1>6, <1>8
  <2>4. \A q \in Pages : T.pt[Entry(1, q)] = m1.pt[Entry(1, q)]
    BY <1>8, <2>2
  <2> QED
    BY <1>2, <2>1, <2>3, <2>4
<1>16. MapDone(T, m2, y, yes, g)
  <2>1. m2 = MapFrame(T, y, yes, g)
    BY <1>1, <1>10 DEF allocate_data
  <2>2. T.pt[Entry(2, y)] # NoEntry
    <3>1. 2 \in 2 .. 4
      OBVIOUS
    <3> QED
      BY <1>11, <3>1 DEF TablesDone
  <2> QED
    BY <1>2, <1>4, <1>12, <1>14, <1>15, <2>1, <2>2, MapFrameOK
<1>17. Allocated(m2, m3, z, yes, yes)
  <2>1. m3 = MapNew(Tables(m2, z, yes), z, yes)
    BY <1>1 DEF allocate
  <2>2. m2.ospt = T.ospt /\ m2.user = m1.user /\ MemInv(m2)
    BY <1>11, <1>16 DEF MapDone, TablesDone
  <2>3. Cardinality(Free(T.ospt)) >= 3
    BY <1>11 DEF TablesDone
  <2>4. Cardinality(Free(m2.ospt)) >= 0 + 3
    BY <2>2, <2>3, Sums
  <2>5. Free(m2.user) # {}
    BY <1>9, <2>2
  <2>6. MemInv(m2)
    BY <2>2
  <2> QED
    BY <1>2, <2>1, <2>4, <2>5, <2>6, AllocateOK
<1>18. MemInv(m3) /\ Grows(B, m3)
  <2>1. Grows(K, m2) /\ MemInv(m2) /\ Grows(m2, m3) /\ MemInv(m3)
    BY <1>13, <1>16, <1>17 DEF MapDone, Allocated
  <2>2. Grows(B, m2)
    BY <1>14, <2>1, GrowsTrans
  <2> QED
    BY <1>14, <2>1, <2>2, GrowsTrans
<1>19. B = [pt |-> NoTables, user |-> U, ospt |-> Taken(O)]
  <2>1. [Taken(U) EXCEPT ![g] = 1] = U
    <3>1. PICK u : u = [Taken(U) EXCEPT ![g] = 1]
      OBVIOUS
    <3>2. u \in [UserFrames -> Bit] /\ \A f \in UserFrames : u[f] = U[f]
      BY <1>4, <3>1 DEF Bit
    <3> QED
      BY <3>1, <3>2
  <2> QED
    BY <1>6, <1>13, <2>1 DEF Kept
<1>20. Stays(T, m2) /\ Stays(m2, m3) /\ Stays(T, m3) /\ Stays(m1, T) /\ Stays(m1, m3)
  <2>1. Stays(T, m2)
    BY <1>15, <1>16 DEF MapDone, Stays
  <2>2. Stays(m1, T) /\ Stays(m2, m3)
    BY <1>11, <1>17 DEF TablesDone, Allocated, Grows
  <2> QED
    BY <2>1, <2>2, StaysTrans
<1>21. Built(m3.pt, c)
  <2>1. \A l \in 1 .. 4 : /\ Entry(l, x) \in Entries /\ Entry(l, y) \in Entries
                          /\ Entry(l, z) \in Entries /\ (l = 1 \/ l \in 2 .. 4)
    BY <1>2, EntryIs
  <2>2. \A l \in 1 .. 4 : m3.pt[Entry(l, x)] # NoEntry
    BY <1>9, <1>20, <2>1 DEF Allocated, Stays
  <2>3. \A l \in 2 .. 4 : m3.pt[Entry(l, y)] # NoEntry /\ m3.pt[Entry(l, y)].w
    <3>1. \A l \in 2 .. 4 : T.pt[Entry(l, y)] # NoEntry /\ T.pt[Entry(l, y)].w
      BY <1>1, <1>11 DEF TablesDone
    <3>2. \A l \in 2 .. 4 : Entry(l, y) \in Entries
      <4>1. \A l \in 2 .. 4 : l \in 1 .. 4
        OBVIOUS
      <4> QED
        BY <2>1, <4>1
    <3> QED
      BY <1>20, <3>1, <3>2 DEF Stays
  <2>4. m3.pt[Entry(1, y)] = [pfn |-> g, w |-> yes] /\ m3.pt[Entry(1, y)] # NoEntry
    <3>1. Entry(1, y) \in Entries /\ Entry(1, y)[1] = 1
      BY <1>2, <1>8
    <3>2. m2.pt[Entry(1, y)] = [pfn |-> g, w |-> yes] /\ m2.pt[Entry(1, y)] # NoEntry
      BY <1>16 DEF MapDone
    <3>3. m3.pt[Entry(1, y)] = m2.pt[Entry(1, y)]
      BY <1>20, <3>1, <3>2 DEF Stays
    <3> QED
      BY <3>2, <3>3
  <2>5. m3.pt[Entry(1, y)].pfn = g /\ m3.pt[Entry(1, y)].w
    <3>1. PICK r : r = [pfn |-> g, w |-> yes]
      OBVIOUS
    <3>2. r.pfn = g /\ r.w = yes
      BY <3>1
    <3>3. m3.pt[Entry(1, y)] = r
      BY <2>4, <3>1
    <3> QED
      BY <1>1, <3>2, <3>3
  <2>6. \A l \in 1 .. 4 : m3.pt[Entry(l, y)] # NoEntry /\ m3.pt[Entry(l, y)].w
    BY <2>1, <2>3, <2>4, <2>5
  <2>7. ~m3.pt[Entry(1, x)].w
    <3>1. m1.pt[Entry(1, x)].w = no
      BY <1>9, <1>15 DEF Allocated
    <3>2. m2.pt[Entry(1, x)] = T.pt[Entry(1, x)]
      BY <1>2, <1>8, <1>16, PageEntry DEF MapDone
    <3>3. m3.pt[Entry(1, x)] = m2.pt[Entry(1, x)]
      BY <1>2, <1>17 DEF Allocated
    <3> QED
      BY <1>1, <1>15, <3>1, <3>2, <3>3
  <2>8. \A l \in 1 .. 4 : m3.pt[Entry(l, z)] # NoEntry /\ m3.pt[Entry(l, z)].w
    <3>1. m2.pt[Entry(1, z)] = NoEntry
      BY <1>2, <1>8, <1>15, <1>16, PageEntry DEF MapDone
    <3>2. m3.pt[Entry(1, z)].w = yes
      BY <1>17, <3>1 DEF Allocated
    <3>3. /\ \A l \in 2 .. 4 : m3.pt[Entry(l, z)].w
          /\ \A l \in 1 .. 4 : m3.pt[Entry(l, z)] # NoEntry
      BY <1>1, <1>17 DEF Allocated
    <3> QED
      BY <1>1, <2>1, <3>2, <3>3
  <2>9. \A e \in Entries : m3.pt[e] # NoEntry =>
          \E p \in PagesOf(c), l \in 1 .. 4 : e = Entry(l, p)
    <3> SUFFICES ASSUME NEW e \in Entries,
                        \A p \in PagesOf(c), l \in 1 .. 4 : e # Entry(l, p)
                 PROVE  m3.pt[e] = NoEntry
      OBVIOUS
    <3>1. \A l \in 1 .. 4 : e # Entry(l, x) /\ e # Entry(l, y) /\ e # Entry(l, z)
      BY <1>1 DEF PagesOf
    <3>2. m1.pt[e] = NoEntry
      BY <1>6, <1>9, <3>1 DEF Allocated, Along
    <3>3. T.pt[e] = NoEntry
      BY <1>11, <3>1, <3>2 DEF TablesDone, Along
    <3>4. m2.pt[e] = NoEntry
      <4>1. 1 \in 1 .. 4
        OBVIOUS
      <4> QED
        BY <1>16, <3>1, <3>3, <4>1 DEF MapDone
    <3> QED
      BY <1>17, <3>1, <3>4 DEF Allocated, Along
  <2>10. \A p \in PagesOf(c), l \in 1 .. 4 : m3.pt[Entry(l, p)] # NoEntry
    BY <1>1, <2>2, <2>6, <2>8 DEF PagesOf
  <2> QED
    BY <1>1, <1>2, <2>5, <2>6, <2>7, <2>8, <2>9, <2>10 DEF Built
<1> QED
  BY <1>18, <1>19, <1>21 DEF Prepared

-----------------------------------------------------------------------------
\* Frame f is in an entry of M, as a page or as a table.
HeldPage(M, f)  == \E e \in Entries : e[1] = 1 /\ M.pt[e] # NoEntry /\ M.pt[e].pfn = f
HeldTable(M, f) == \E e \in Entries : e[1] # 1 /\ M.pt[e] # NoEntry /\ M.pt[e].pfn = f

\* Freeing a frame in use.
LEMMA FreePageOK ==
  ASSUME NEW M \in Mems, NEW f \in UserFrames, M.user[f] = 0,
         NEW N, N = free_page(M, f)
  PROVE  /\ N \in Mems /\ N.pt = M.pt /\ N.ospt = M.ospt /\ N.user[f] = 1
         /\ \A g \in UserFrames \ {f} : N.user[g] = M.user[g]
<1>1. /\ M.pt \in PageTableType /\ M.user \in [UserFrames -> Bit]
      /\ M.ospt \in [OsFrames -> Bit]
  BY MemIs
<1>2. PICK u : u = os_pfn_free(M.user, f)
  OBVIOUS
<1>3. u = [M.user EXCEPT ![f] = 1]
  BY <1>1, <1>2 DEF os_pfn_free
<1>4. u \in [UserFrames -> Bit] /\ u[f] = 1 /\ \A g \in UserFrames \ {f} : u[g] = M.user[g]
  BY <1>1, <1>3 DEF Bit
<1>5. M = [pt |-> M.pt, user |-> M.user, ospt |-> M.ospt]
  BY DEF Mems
<1>6. N = [pt |-> M.pt, user |-> u, ospt |-> M.ospt]
  BY <1>2, <1>5 DEF free_page
<1>7. N.pt = M.pt /\ N.user = u /\ N.ospt = M.ospt
  BY <1>6
<1> QED
  BY <1>1, <1>4, <1>6, <1>7 DEF Mems

\* From M to N tables were freed: their entries are cleared and their frames are
\* in the pool.
Clears(M, N) ==
  /\ \A e \in Entries : N.pt[e] = M.pt[e] \/ N.pt[e] = NoEntry
  /\ \A f \in OsFrames :
       IF \E e \in Entries : /\ e[1] # 1 /\ M.pt[e] # NoEntry /\ M.pt[e].pfn = f
                             /\ N.pt[e] = NoEntry
       THEN N.ospt[f] = 1 ELSE N.ospt[f] = M.ospt[f]

Cleared(M, N, R) ==
  /\ R \in Mems /\ Clears(M, R) /\ R.user = N.user
  /\ \A e \in Entries : N.pt[e] = NoEntry => R.pt[e] = NoEntry

\* free_memory frees a table once: shared with another segment, the entry is
\* gone when the second one comes.
LEMMA FreeTableOK ==
  ASSUME NEW M, M \in Mems, UsedInv(M), NEW N, N \in Mems, Clears(M, N),
         NEW i \in 2 .. 4, NEW p \in Pages, NEW R, R = free_table(N, i, p)
  PROVE  Cleared(M, N, R) /\ R.pt[Entry(i, p)] = NoEntry
<1>1. PICK e : e = Entry(i, p)
  OBVIOUS
<1>2. e \in Entries /\ e[1] # 1
  BY <1>1, EntryIs
<1>3. CASE N.pt[e] = NoEntry
  <2>1. R = N
    BY <1>1, <1>3 DEF free_table
  <2> QED
    BY <1>1, <1>3, <2>1 DEF Cleared
<1>4. CASE N.pt[e] # NoEntry
  <2>1. PICK g : g = N.pt[e].pfn
    OBVIOUS
  <2>2. PICK t, o : t = [N.pt EXCEPT ![e] = NoEntry] /\ o = os_pfn_free(N.ospt, g)
    OBVIOUS
  <2>3. /\ N.pt \in PageTableType /\ N.user \in [UserFrames -> Bit]
        /\ N.ospt \in [OsFrames -> Bit] /\ DOMAIN N.pt = Entries /\ g \in OsFrames
    BY <1>2, <1>4, <2>1, MemIs, PageTableIs
  <2>4. N = [pt |-> N.pt, user |-> N.user, ospt |-> N.ospt]
    BY DEF Mems
  <2>5. R = [pt |-> t, user |-> N.user, ospt |-> o]
    BY <1>1, <1>4, <2>1, <2>2, <2>4 DEF free_table
  <2>6. R.pt = t /\ R.user = N.user /\ R.ospt = o
    BY <2>5
  <2>7. t = [n \in Entries |-> t[n]] /\ t[e] = NoEntry
        /\ \A n \in Entries \ {e} : t[n] = N.pt[n]
    BY <1>2, <2>2, <2>3, PageTableIs
  <2>8. t \in PageTableType
    <3>1. \A n \in Entries : t[n] \in EntryType(n)
      BY <2>3, <2>7, PageTableIs DEF EntryType
    <3> QED
      BY <2>7, <3>1, PageTableIs
  <2>9. M.pt[e] = N.pt[e]
    BY <1>2, <1>4 DEF Clears
  <2>10. \A n \in Entries : n[1] # 1 /\ M.pt[n] # NoEntry /\ M.pt[n].pfn = g => n = e
    BY <1>2, <1>4, <2>1, <2>9 DEF UsedInv
  <2>11. N.ospt[g] = 0
    <3>1. M.ospt[g] = 0
      BY <1>2, <1>4, <2>1, <2>9 DEF UsedInv, Pool
    <3>2. ~ \E n \in Entries : /\ n[1] # 1 /\ M.pt[n] # NoEntry /\ M.pt[n].pfn = g
                               /\ N.pt[n] = NoEntry
      BY <1>4, <2>10
    <3> QED
      BY <2>3, <3>1, <3>2 DEF Clears
  <2>12. /\ o \in [OsFrames -> Bit] /\ o[g] = 1
         /\ \A f \in OsFrames \ {g} : o[f] = N.ospt[f]
    <3>1. o = [N.ospt EXCEPT ![g] = 1]
      BY <2>2, <2>3, <2>11 DEF os_pfn_free
    <3> QED
      BY <2>3, <3>1 DEF Bit
  <2>13. R \in Mems
    BY <2>3, <2>5, <2>8, <2>12 DEF Mems
  <2>14. \A n \in Entries : R.pt[n] = M.pt[n] \/ R.pt[n] = NoEntry
    BY <2>6, <2>7 DEF Clears
  <2>15. ASSUME NEW f \in OsFrames
         PROVE  IF \E n \in Entries : /\ n[1] # 1 /\ M.pt[n] # NoEntry /\ M.pt[n].pfn = f
                                      /\ R.pt[n] = NoEntry
                THEN R.ospt[f] = 1 ELSE R.ospt[f] = M.ospt[f]
    <3>1. CASE f = g
      BY <1>2, <1>4, <2>1, <2>6, <2>7, <2>9, <2>12, <3>1
    <3>2. CASE f # g
      <4>1. R.ospt[f] = N.ospt[f]
        BY <2>6, <2>12, <3>2
      <4>2. \A n \in Entries : n[1] # 1 /\ M.pt[n] # NoEntry /\ M.pt[n].pfn = f =>
              (R.pt[n] = NoEntry <=> N.pt[n] = NoEntry)
        BY <2>1, <2>6, <2>7, <2>9, <3>2
      <4> QED
        BY <4>1, <4>2 DEF Clears
    <3> QED
      BY <3>1, <3>2
  <2>16. Clears(M, R)
    BY <2>14, <2>15 DEF Clears
  <2>17. \A n \in Entries : N.pt[n] = NoEntry => R.pt[n] = NoEntry
    BY <2>6, <2>7
  <2> QED
    BY <1>1, <2>6, <2>7, <2>13, <2>16, <2>17 DEF Cleared
<1> QED
  BY <1>3, <1>4

\* One level of the tables of the three segments.
LEMMA FreeTablesOK ==
  ASSUME NEW M, M \in Mems, UsedInv(M), NEW N, N \in Mems, Clears(M, N),
         NEW i \in 2 .. 4, NEW c, PagesOf(c) \subseteq Pages,
         NEW R, R = FreeTables(N, i, c)
  PROVE  Cleared(M, N, R) /\ \A p \in PagesOf(c) : R.pt[Entry(i, p)] = NoEntry
<1>1. PICK A, B : A = free_table(N, i, c.stack) /\ B = free_table(A, i, c.code)
  OBVIOUS
<1>2. R = free_table(B, i, c.data)
  BY <1>1 DEF FreeTables
<1>3. c.stack \in Pages /\ c.code \in Pages /\ c.data \in Pages
  BY DEF PagesOf
<1>4. Cleared(M, N, A) /\ A.pt[Entry(i, c.stack)] = NoEntry
  BY <1>1, <1>3, FreeTableOK
<1>5. A \in Mems /\ Clears(M, A)
  BY <1>4 DEF Cleared
<1>6. Cleared(M, A, B) /\ B.pt[Entry(i, c.code)] = NoEntry
  BY <1>1, <1>3, <1>5, FreeTableOK
<1>7. B \in Mems /\ Clears(M, B)
  BY <1>6 DEF Cleared
<1>8. Cleared(M, B, R) /\ R.pt[Entry(i, c.data)] = NoEntry
  BY <1>2, <1>3, <1>7, FreeTableOK
<1>9. Cleared(M, N, R)
  BY <1>4, <1>6, <1>8 DEF Cleared
<1>10. \A p \in PagesOf(c) : Entry(i, p) \in Entries
  <2>1. i \in 1 .. 4
    OBVIOUS
  <2> QED
    BY <1>3, <2>1, EntryIs DEF PagesOf
<1>11. \A p \in PagesOf(c) : R.pt[Entry(i, p)] = NoEntry
  BY <1>4, <1>6, <1>8, <1>10 DEF Cleared, PagesOf
<1> QED
  BY <1>9, <1>11

Given(M, N) ==
  /\ N \in Mems
  /\ \A f \in UserFrames : IF HeldPage(M, f) THEN N.user[f] = 1 ELSE N.user[f] = M.user[f]
  /\ \A f \in OsFrames : IF HeldTable(M, f) THEN N.ospt[f] = 1 ELSE N.ospt[f] = M.ospt[f]

\* The frames of the three pages, which differ, go back to the pool.
LEMMA FreePagesOK ==
  ASSUME NEW M, M \in Mems, UsedInv(M), NEW c, PagesOf(c) \subseteq Pages, Built(M.pt, c),
         NEW N, N = FreePages(M, c)
  PROVE  /\ N \in Mems /\ N.pt = M.pt /\ N.ospt = M.ospt
         /\ \A f \in UserFrames : IF HeldPage(M, f) THEN N.user[f] = 1
                                  ELSE N.user[f] = M.user[f]
<1>1. PICK x, y, z : x = Entry(1, c.code) /\ y = Entry(1, c.data) /\ z = Entry(1, c.stack)
  OBVIOUS
<1>2. c.stack \in Pages /\ c.code \in Pages /\ c.data \in Pages
  BY DEF PagesOf
<1>3. /\ x \in Entries /\ y \in Entries /\ z \in Entries
      /\ x[1] = 1 /\ y[1] = 1 /\ z[1] = 1
  BY <1>1, <1>2, EntryIs
<1>4. x # y /\ x # z /\ y # z
  BY <1>1, <1>2, PageEntry DEF Built
<1>5. M.pt[x] # NoEntry /\ M.pt[y] # NoEntry /\ M.pt[z] # NoEntry
  <2>1. 1 \in 1 .. 4
    OBVIOUS
  <2> QED
    BY <1>1, <2>1 DEF Built, PagesOf
<1>6. PICK a, b, d : a = M.pt[x].pfn /\ b = M.pt[y].pfn /\ d = M.pt[z].pfn
  OBVIOUS
<1>7. b = c.arg_pfn
  BY <1>1, <1>6 DEF Built
<1>8. a \in UserFrames /\ b \in UserFrames /\ d \in UserFrames
  BY <1>3, <1>5, <1>6, MemIs
<1>9. M.user[a] = 0 /\ M.user[b] = 0 /\ M.user[d] = 0 /\ a # b /\ a # d /\ b # d
  BY <1>3, <1>4, <1>5, <1>6 DEF UsedInv, Pool
<1>10. PICK A, B : A = free_page(M, d) /\ B = free_page(A, a)
  OBVIOUS
<1>11. N = free_page(B, b)
  BY <1>1, <1>6, <1>7, <1>10 DEF FreePages
<1>12. /\ A \in Mems /\ A.pt = M.pt /\ A.ospt = M.ospt /\ A.user[d] = 1
       /\ \A g \in UserFrames \ {d} : A.user[g] = M.user[g]
  BY <1>8, <1>9, <1>10, FreePageOK
<1>13. A \in Mems /\ A.user[a] = 0
  BY <1>8, <1>9, <1>12
<1>14. /\ B \in Mems /\ B.pt = A.pt /\ B.ospt = A.ospt /\ B.user[a] = 1
       /\ \A g \in UserFrames \ {a} : B.user[g] = A.user[g]
  BY <1>8, <1>10, <1>13, FreePageOK
<1>15. B \in Mems /\ B.user[b] = 0
  BY <1>8, <1>9, <1>12, <1>14
<1>16. /\ N \in Mems /\ N.pt = B.pt /\ N.ospt = B.ospt /\ N.user[b] = 1
       /\ \A g \in UserFrames \ {b} : N.user[g] = B.user[g]
  BY <1>8, <1>11, <1>15, FreePageOK
<1>17. \A f \in UserFrames : HeldPage(M, f) <=> f \in {a, b, d}
  <2> SUFFICES ASSUME NEW f \in UserFrames PROVE HeldPage(M, f) <=> f \in {a, b, d}
    OBVIOUS
  <2>1. ASSUME HeldPage(M, f) PROVE f \in {a, b, d}
    <3>1. PICK e \in Entries : e[1] = 1 /\ M.pt[e] # NoEntry /\ M.pt[e].pfn = f
      BY <2>1 DEF HeldPage
    <3>2. PICK p \in PagesOf(c), l \in 1 .. 4 : e = Entry(l, p)
      BY <3>1 DEF Built
    <3>3. p \in Pages /\ l = 1
      BY <3>1, <3>2, EntryIs
    <3> QED
      BY <1>1, <1>6, <3>1, <3>2, <3>3 DEF PagesOf
  <2>2. ASSUME f \in {a, b, d} PROVE HeldPage(M, f)
    BY <1>3, <1>5, <1>6, <2>2 DEF HeldPage
  <2> QED
    BY <2>1, <2>2
<1>18. \A f \in UserFrames : IF f \in {a, b, d} THEN N.user[f] = 1 ELSE N.user[f] = M.user[f]
  BY <1>8, <1>9, <1>12, <1>14, <1>16
<1> QED
  BY <1>12, <1>14, <1>16, <1>17, <1>18

\* cleanup_context_mm gives back every frame in the tables, each once, and no
\* other.
LEMMA CleanupOK ==
  ASSUME NEW M, M \in Mems, UsedInv(M), NEW c, PagesOf(c) \subseteq Pages, Built(M.pt, c),
         NEW m1, m1 = FreePages(M, c),
         NEW m2, m2 = FreeTables(FreeTables(FreeTables(m1, 2, c), 3, c), 4, c)
  PROVE  Given(M, m2)
<1>1. /\ m1 \in Mems /\ m1.pt = M.pt /\ m1.ospt = M.ospt
      /\ \A f \in UserFrames : IF HeldPage(M, f) THEN m1.user[f] = 1
                               ELSE m1.user[f] = M.user[f]
  BY FreePagesOK
<1>2. m1 \in Mems /\ Clears(M, m1)
  BY <1>1 DEF Clears
<1>3. PICK A, B : A = FreeTables(m1, 2, c) /\ B = FreeTables(A, 3, c)
  OBVIOUS
<1>4. m2 = FreeTables(B, 4, c)
  BY <1>3
<1>5. 2 \in 2 .. 4 /\ 3 \in 2 .. 4 /\ 4 \in 2 .. 4
  OBVIOUS
<1>6. Cleared(M, m1, A) /\ \A p \in PagesOf(c) : A.pt[Entry(2, p)] = NoEntry
  BY <1>2, <1>3, <1>5, FreeTablesOK
<1>7. A \in Mems /\ Clears(M, A)
  BY <1>6 DEF Cleared
<1>8. Cleared(M, A, B) /\ \A p \in PagesOf(c) : B.pt[Entry(3, p)] = NoEntry
  BY <1>3, <1>5, <1>7, FreeTablesOK
<1>9. B \in Mems /\ Clears(M, B)
  BY <1>8 DEF Cleared
<1>10. Cleared(M, B, m2) /\ \A p \in PagesOf(c) : m2.pt[Entry(4, p)] = NoEntry
  BY <1>4, <1>5, <1>9, FreeTablesOK
<1>11. \A p \in PagesOf(c) : /\ Entry(2, p) \in Entries /\ Entry(3, p) \in Entries
                             /\ Entry(4, p) \in Entries
  BY EntryIs
<1>12. \A e \in Entries : e[1] # 1 /\ M.pt[e] # NoEntry => m2.pt[e] = NoEntry
  <2> SUFFICES ASSUME NEW e \in Entries, e[1] # 1, M.pt[e] # NoEntry
               PROVE  m2.pt[e] = NoEntry
    OBVIOUS
  <2>1. PICK p \in PagesOf(c), l \in 1 .. 4 : e = Entry(l, p)
    BY DEF Built
  <2>2. l # 1
    BY <2>1, EntryIs
  <2>3. l = 2 \/ l = 3 \/ l = 4
    BY <2>2
  <2> QED
    BY <1>6, <1>8, <1>10, <1>11, <2>1, <2>3 DEF Cleared
<1>13. \A f \in OsFrames : IF HeldTable(M, f) THEN m2.ospt[f] = 1 ELSE m2.ospt[f] = M.ospt[f]
  <2>1. Clears(M, m2)
    BY <1>10 DEF Cleared
  <2> QED
    BY <1>12, <2>1 DEF Clears, HeldTable
<1>14. m2.user = m1.user /\ m2 \in Mems
  BY <1>6, <1>8, <1>10 DEF Cleared
<1> QED
  BY <1>1, <1>13, <1>14 DEF Given

-----------------------------------------------------------------------------
\* The places a frame can be in.
LEMMA SlotIs ==
  /\ Root[1] = 5 /\ Root \notin Entries /\ Root \in Slots
  /\ \A s \in Slots : s = Root \/ s \in Entries
  /\ \A s \in Slots : s[1] = 1 => s \in Entries
<1>1. Root[1] = 5
  BY DEF Root
<1>2. \A e \in Entries : e[1] \in 1 .. 4
  BY EntryOf
<1>3. Root \notin Entries
  BY <1>1, <1>2
<1> QED
  BY <1>1, <1>3 DEF Slots

\* The description of a live context.
LEMMA LiveIs ==
  ASSUME TypeInv, NEW x \in Live
  PROVE  /\ x \in Contexts /\ PagesOf(ctx[x]) \subseteq Pages
         /\ ctx[x].code \in Pages /\ ctx[x].data \in Pages /\ ctx[x].stack \in Pages
         /\ ctx[x].pgd \in OsFrames /\ pt[x] \in PageTableType
<1>1. x \in Contexts /\ ctx[x] # NoContext
  BY DEF Live
<1>2. ctx[x] \in [code : Pages, data : Pages, stack : Pages,
                  arg_pfn : UserFrames, pgd : OsFrames]
  BY <1>1 DEF TypeInv
<1>3. /\ ctx[x].code \in Pages /\ ctx[x].data \in Pages /\ ctx[x].stack \in Pages
      /\ ctx[x].pgd \in OsFrames
  BY <1>2
<1> QED
  BY <1>1, <1>3 DEF PagesOf, TypeInv

\* The frame in a place is one of its pool.
LEMMA FrameType ==
  ASSUME TypeInv, NEW x \in Live, NEW s \in Slots, In(x, s)
  PROVE  Frame(x, s) \in IF s[1] = 1 THEN UserFrames ELSE OsFrames
<1>1. CASE s = Root
  BY <1>1, LiveIs, SlotIs DEF Frame
<1>2. CASE s # Root
  <2>1. s \in Entries /\ pt[x][s] # NoEntry
    BY <1>2, SlotIs DEF In
  <2>2. pt[x][s] \in EntryType(s)
    BY <2>1, LiveIs, PageTableIs
  <2> QED
    BY <1>2, <2>1, <2>2, EntryFrame DEF Frame
<1> QED
  BY <1>1, <1>2

\* The memory of one context: its frames are not free and differ.
LEMMA OfIs ==
  ASSUME Inv, NEW x \in Live, NEW M, M = Of(x)
  PROVE  /\ M \in Mems /\ UsedInv(M) /\ Built(M.pt, ctx[x])
         /\ M.pt = pt[x] /\ M.user = user /\ M.ospt = ospt
<1>1. TypeInv /\ BuiltInv /\ NotFree /\ Once
  BY DEF Inv
<1>2. M.pt = pt[x] /\ M.user = user /\ M.ospt = ospt
  BY DEF Of
<1>3. M \in Mems
  BY <1>1, LiveIs DEF TypeInv, Of, Mems
<1>4. \A e \in Entries : M.pt[e] # NoEntry =>
        e \in Slots /\ In(x, e) /\ Frame(x, e) = M.pt[e].pfn
  BY <1>2, SlotIs DEF Slots, In, Frame
<1>5. \A e \in Entries : M.pt[e] # NoEntry => Pool(M, e)[M.pt[e].pfn] = 0
  BY <1>1, <1>2, <1>4 DEF NotFree, PoolOf, Pool
<1>6. \A e, n \in Entries :
        /\ M.pt[e] # NoEntry /\ M.pt[n] # NoEntry
        /\ e[1] = 1 <=> n[1] = 1
        /\ M.pt[e].pfn = M.pt[n].pfn
        => e = n
  BY <1>1, <1>4 DEF Once
<1> QED
  BY <1>1, <1>2, <1>3, <1>5, <1>6 DEF BuiltInv, UsedInv

\* Other contexts keep what they have.
LEMMA OthersStay ==
  ASSUME TypeInv, NEW x \in Contexts, NEW c, NEW t,
         ctx' = [ctx EXCEPT ![x] = c], pt' = [pt EXCEPT ![x] = t]
  PROVE  /\ ctx'[x] = c /\ pt'[x] = t
         /\ \A y \in Contexts \ {x} : /\ ctx'[y] = ctx[y] /\ pt'[y] = pt[y]
                                      /\ y \in Live' <=> y \in Live
         /\ \A y \in Contexts \ {x}, s \in Slots :
              (In(y, s)' <=> In(y, s)) /\ Frame(y, s)' = Frame(y, s)
         /\ Live' \subseteq Contexts /\ Live \subseteq Contexts
<1>1. /\ ctx'[x] = c /\ pt'[x] = t
      /\ \A y \in Contexts \ {x} : ctx'[y] = ctx[y] /\ pt'[y] = pt[y]
  BY DEF TypeInv
<1>2. \A y \in Contexts \ {x} : y \in Live' <=> y \in Live
  BY <1>1 DEF Live
<1>3. \A y \in Contexts \ {x}, s \in Slots : In(y, s)' <=> In(y, s)
  BY <1>1, <1>2 DEF In
<1>4. \A y \in Contexts \ {x}, s \in Slots : Frame(y, s)' = Frame(y, s)
  BY <1>1 DEF Frame
<1> QED
  BY <1>1, <1>2, <1>3, <1>4 DEF Live

\* Three pages are different.
LEMMA Different ==
  ASSUME NEW a, NEW b, NEW c, Cardinality({a, b, c}) = 3
  PROVE  a # b /\ a # c /\ b # c
<1>1. \A u, v : Cardinality({u, v}) \in {1, 2}
  <2> SUFFICES ASSUME NEW u, NEW v PROVE Cardinality({u, v}) \in {1, 2}
    OBVIOUS
  <2>1. IsFiniteSet({u}) /\ Cardinality({u}) = 1
    BY FS_Singleton
  <2>2. PICK S : S = {u} \cup {v}
    OBVIOUS
  <2>3. Cardinality(S) = 1 \/ Cardinality(S) = 2
    BY <2>1, <2>2, FS_AddElement
  <2>4. S = {u, v}
    BY <2>2
  <2> QED
    BY <2>3, <2>4
<1>2. CASE a = b
  <2>1. {a, b, c} = {b, c}
    BY <1>2
  <2> QED
    BY <1>1, <2>1
<1>3. CASE a = c
  <2>1. {a, b, c} = {b, c}
    BY <1>3
  <2> QED
    BY <1>1, <2>1
<1>4. CASE b = c
  <2>1. {a, b, c} = {a, b}
    BY <1>4
  <2> QED
    BY <1>1, <2>1
<1> QED
  BY <1>2, <1>3, <1>4

\* A new context gets frames that nobody has, and no other frame leaves its pool.
LEMMA PrepareStep ==
  ASSUME Inv, NEW x \in Contexts, NEW code \in Pages, NEW data \in Pages,
         NEW stack \in Pages, prepare_context_mm(x, code, data, stack)
  PROVE  Inv'
<1>1. PICK g, a, c : /\ g = os_pfn_alloc(user) /\ a = os_pfn_alloc(ospt)
                     /\ c = [code |-> code, data |-> data, stack |-> stack,
                             arg_pfn |-> g, pgd |-> a]
  OBVIOUS
<1>2. /\ c.code = code /\ c.data = data /\ c.stack = stack
      /\ c.arg_pfn = g /\ c.pgd = a
  BY <1>1
<1>3. PICK m0, m1, m2, N :
        /\ m0 = [pt |-> NoTables, user |-> Taken(user), ospt |-> Taken(ospt)]
        /\ m1 = allocate(m0, c.code, FALSE)
        /\ m2 = allocate_data(m1, c.data, TRUE, c.arg_pfn)
        /\ N = allocate(m2, c.stack, TRUE)
  OBVIOUS
<1>4. /\ x \notin Live /\ Cardinality({code, data, stack}) = 3
      /\ Cardinality(Free(user)) >= 3 /\ Cardinality(Free(ospt)) >= 10
      /\ ctx' = [ctx EXCEPT ![x] = c] /\ pt' = [pt EXCEPT ![x] = N.pt]
      /\ user' = N.user /\ ospt' = N.ospt
  BY <1>1, <1>2, <1>3 DEF prepare_context_mm
<1>5. TypeInv /\ BuiltInv /\ NotFree /\ Once /\ NoLeak
  BY DEF Inv
<1>6. user \in [UserFrames -> Bit] /\ ospt \in [OsFrames -> Bit]
  BY <1>5 DEF TypeInv
<1>7. Prepared(user, ospt, N, c)
  <2>1. c.code # c.data /\ c.code # c.stack /\ c.data # c.stack
    BY <1>2, <1>4, Different
  <2>2. c.code \in Pages /\ c.data \in Pages /\ c.stack \in Pages /\ c.arg_pfn = os_pfn_alloc(user)
    BY <1>1, <1>2
  <2>3. Cardinality(Free(user)) >= 3 /\ Cardinality(Free(ospt)) >= 10
    BY <1>4
  <2> QED
    BY <1>3, <1>6, <2>1, <2>2, <2>3, PrepareOK
<1>8. /\ g \in UserFrames /\ a \in OsFrames /\ ospt[a] = 1 /\ Taken(ospt)[a] = 0
      /\ \A f \in OsFrames \ {a} : Taken(ospt)[f] = ospt[f]
  <2>1. Cardinality(Free(user)) >= 2 + 1 /\ Cardinality(Free(ospt)) >= 9 + 1
    BY <1>4
  <2>2. Free(user) # {} /\ Free(ospt) # {}
    BY <2>1, SomeFree
  <2> QED
    BY <1>1, <1>6, <2>2, TakenIs
<1>9. PICK B : B = [pt |-> NoTables, user |-> user, ospt |-> Taken(ospt)]
  OBVIOUS
<1>10. /\ B.user = user /\ B.ospt = Taken(ospt)
       /\ \A e \in Entries : B.pt[e] = NoEntry
  BY <1>9 DEF NoTables
<1>11. MemInv(N) /\ Built(N.pt, c) /\ Fresh(B, N) /\ Spent(B, N)
  BY <1>7, <1>9 DEF Prepared, Grows
<1>12. /\ N.pt \in PageTableType /\ N.user \in [UserFrames -> Bit]
       /\ N.ospt \in [OsFrames -> Bit] /\ UsedInv(N)
       /\ \A e \in Entries : N.pt[e] # NoEntry =>
            N.pt[e].pfn \in IF e[1] = 1 THEN UserFrames ELSE OsFrames
  BY <1>11, MemIs DEF MemInv
<1>13. c \in [code : Pages, data : Pages, stack : Pages,
              arg_pfn : UserFrames, pgd : OsFrames]
  BY <1>1, <1>8
<1>14. TypeInv'
  BY <1>4, <1>5, <1>12, <1>13 DEF TypeInv
<1>15. /\ ctx'[x] = c /\ pt'[x] = N.pt
       /\ \A y \in Contexts \ {x} : /\ ctx'[y] = ctx[y] /\ pt'[y] = pt[y]
                                    /\ y \in Live' <=> y \in Live
       /\ \A y \in Contexts \ {x}, s \in Slots :
            (In(y, s)' <=> In(y, s)) /\ Frame(y, s)' = Frame(y, s)
       /\ Live' \subseteq Contexts /\ Live \subseteq Contexts
  BY <1>4, <1>5, OthersStay
<1>16. x \in Live'
  <2>1. c # NoContext
    BY <1>13, ContextAssumption
  <2> QED
    BY <1>15, <2>1 DEF Live
<1>17. BuiltInv'
  BY <1>4, <1>5, <1>11, <1>15 DEF BuiltInv
\* What the new context has.
<1>18. \A e \in Entries : N.pt[e] # NoEntry =>
         /\ e[1] = 1 => user[N.pt[e].pfn] = 1 /\ user'[N.pt[e].pfn] = 0
         /\ e[1] # 1 => /\ ospt[N.pt[e].pfn] = 1 /\ ospt'[N.pt[e].pfn] = 0
                        /\ N.pt[e].pfn # a
  <2> SUFFICES ASSUME NEW e \in Entries, N.pt[e] # NoEntry
               PROVE  /\ e[1] = 1 => user[N.pt[e].pfn] = 1 /\ user'[N.pt[e].pfn] = 0
                      /\ e[1] # 1 => /\ ospt[N.pt[e].pfn] = 1 /\ ospt'[N.pt[e].pfn] = 0
                                     /\ N.pt[e].pfn # a
    OBVIOUS
  <2>1. Pool(B, e)[N.pt[e].pfn] = 1 /\ Pool(N, e)[N.pt[e].pfn] = 0
    BY <1>10, <1>11, <1>12 DEF Fresh, UsedInv
  <2>2. CASE e[1] = 1
    BY <1>4, <1>10, <2>1, <2>2 DEF Pool
  <2>3. CASE e[1] # 1
    <3>1. Taken(ospt)[N.pt[e].pfn] = 1 /\ ospt'[N.pt[e].pfn] = 0
      BY <1>4, <1>10, <2>1, <2>3 DEF Pool
    <3>2. N.pt[e].pfn \in OsFrames /\ N.pt[e].pfn # a
      BY <1>8, <1>12, <2>3, <3>1
    <3> QED
      BY <1>8, <2>3, <3>1, <3>2
  <2> QED
    BY <2>2, <2>3
<1>19. ospt'[a] = 0
  BY <1>4, <1>8, <1>10, <1>11 DEF Spent
<1>20. /\ \A f \in UserFrames : user[f] = 0 => user'[f] = 0
       /\ \A f \in OsFrames : ospt[f] = 0 => ospt'[f] = 0
  BY <1>4, <1>8, <1>10, <1>11 DEF Spent
<1>21. \A s \in Slots : In(x, s)' => /\ s = Root \/ (s \in Entries /\ N.pt[s] # NoEntry)
                                     /\ s = Root => Frame(x, s)' = a
                                     /\ s # Root => Frame(x, s)' = N.pt[s].pfn
  BY <1>2, <1>15, SlotIs DEF In, Frame
<1>22. \A s \in Slots : In(x, s)' =>
         /\ s[1] = 1 => user[Frame(x, s)'] = 1 /\ user'[Frame(x, s)'] = 0
         /\ s[1] # 1 => ospt[Frame(x, s)'] = 1 /\ ospt'[Frame(x, s)'] = 0
  <2> SUFFICES ASSUME NEW s \in Slots, In(x, s)'
               PROVE  /\ s[1] = 1 => user[Frame(x, s)'] = 1 /\ user'[Frame(x, s)'] = 0
                      /\ s[1] # 1 => ospt[Frame(x, s)'] = 1 /\ ospt'[Frame(x, s)'] = 0
    OBVIOUS
  <2>1. CASE s = Root
    BY <1>8, <1>19, <1>21, <2>1, SlotIs
  <2>2. CASE s # Root
    BY <1>18, <1>21, <2>2
  <2> QED
    BY <2>1, <2>2
<1>23. \A y \in Live', s \in Slots : y # x /\ In(y, s)' =>
         /\ y \in Live /\ In(y, s) /\ Frame(y, s)' = Frame(y, s)
         /\ PoolOf(s)[Frame(y, s)] = 0
         /\ Frame(y, s) \in IF s[1] = 1 THEN UserFrames ELSE OsFrames
  BY <1>5, <1>15, FrameType DEF NotFree
<1>24. NotFree'
  <2> SUFFICES ASSUME NEW y \in Live', NEW s \in Slots, In(y, s)'
               PROVE  (PoolOf(s)[Frame(y, s)] = 0)'
    BY DEF NotFree
  <2>1. CASE y = x
    BY <1>22, <2>1 DEF PoolOf
  <2>2. CASE y # x
    BY <1>20, <1>23, <2>2 DEF PoolOf
  <2> QED
    BY <2>1, <2>2
<1>25. Once'
  <2> SUFFICES ASSUME NEW y \in Live', NEW z \in Live', NEW s \in Slots, NEW t \in Slots,
                      In(y, s)', In(z, t)', s[1] = 1 <=> t[1] = 1,
                      Frame(y, s)' = Frame(z, t)'
               PROVE  y = z /\ s = t
    BY DEF Once
  <2>1. CASE y # x /\ z # x
    BY <1>5, <1>23, <2>1 DEF Once
  <2>2. CASE y = x /\ z # x
    BY <1>22, <1>23, <2>2 DEF PoolOf
  <2>3. CASE y # x /\ z = x
    BY <1>22, <1>23, <2>3 DEF PoolOf
  <2>4. CASE y = x /\ z = x
    <3>1. CASE s = Root /\ t = Root
      BY <2>4, <3>1
    <3>2. CASE s # Root /\ t # Root
      BY <1>12, <1>21, <2>4, <3>2 DEF UsedInv
    <3>3. CASE s = Root /\ t # Root
      BY <1>18, <1>21, <2>4, <3>3, SlotIs
    <3>4. CASE s # Root /\ t = Root
      BY <1>18, <1>21, <2>4, <3>4, SlotIs
    <3> QED
      BY <3>1, <3>2, <3>3, <3>4
  <2> QED
    BY <2>1, <2>2, <2>3, <2>4
<1>26. \A e \in Entries : N.pt[e] # NoEntry =>
         e \in Slots /\ In(x, e)' /\ Frame(x, e)' = N.pt[e].pfn
  BY <1>15, <1>16, SlotIs DEF Slots, In, Frame
<1>27. In(x, Root)' /\ Frame(x, Root)' = a
  BY <1>2, <1>15, <1>16 DEF In, Frame
<1>28. \A y \in Live, s \in Slots : In(y, s) =>
         y \in Live' /\ In(y, s)' /\ Frame(y, s)' = Frame(y, s)
  BY <1>4, <1>15
<1>29. NoLeak'
  <2>1. ASSUME NEW f \in UserFrames, user'[f] = 0
        PROVE  \E y \in Live', s \in Slots : s[1] = 1 /\ In(y, s)' /\ Frame(y, s)' = f
    <3>1. CASE user[f] = 0
      BY <1>5, <1>28, <3>1 DEF NoLeak
    <3>2. CASE user[f] # 0
      <4>1. PICK e \in Entries : e[1] = 1 /\ N.pt[e] # NoEntry /\ N.pt[e].pfn = f
        BY <1>4, <1>10, <1>11, <2>1, <3>2 DEF Spent
      <4> QED
        BY <1>16, <1>26, <4>1
    <3> QED
      BY <3>1, <3>2
  <2>2. ASSUME NEW f \in OsFrames, ospt'[f] = 0
        PROVE  \E y \in Live', s \in Slots : s[1] # 1 /\ In(y, s)' /\ Frame(y, s)' = f
    <3>1. CASE ospt[f] = 0
      BY <1>5, <1>28, <3>1 DEF NoLeak
    <3>2. CASE f = a
      BY <1>16, <1>27, <3>2, SlotIs
    <3>3. CASE ospt[f] # 0 /\ f # a
      <4>1. PICK e \in Entries : e[1] # 1 /\ N.pt[e] # NoEntry /\ N.pt[e].pfn = f
        BY <1>4, <1>8, <1>10, <1>11, <2>2, <3>3 DEF Spent
      <4> QED
        BY <1>16, <1>26, <4>1
    <3> QED
      BY <3>1, <3>2, <3>3
  <2> QED
    BY <2>1, <2>2 DEF NoLeak
<1> QED
  BY <1>14, <1>17, <1>24, <1>25, <1>29 DEF Inv

\* A context that goes gives back what it has, and nobody else's frames.
LEMMA CleanupStep ==
  ASSUME Inv, NEW x \in Contexts, cleanup_context_mm(x)
  PROVE  Inv'
<1>1. TypeInv /\ BuiltInv /\ NotFree /\ Once /\ NoLeak
  BY DEF Inv
<1>2. x \in Live
  BY DEF cleanup_context_mm
<1>3. PICK c, M : c = ctx[x] /\ M = Of(x)
  OBVIOUS
<1>4. PICK m1, m2 : /\ m1 = FreePages(M, c)
                    /\ m2 = FreeTables(FreeTables(FreeTables(m1, 2, c), 3, c), 4, c)
  OBVIOUS
<1>5. /\ ctx' = [ctx EXCEPT ![x] = NoContext] /\ pt' = [pt EXCEPT ![x] = NoTables]
      /\ user' = m2.user /\ ospt' = os_pfn_free(m2.ospt, c.pgd)
  BY <1>3, <1>4 DEF cleanup_context_mm, Of
<1>6. /\ M \in Mems /\ UsedInv(M) /\ Built(M.pt, c)
      /\ M.pt = pt[x] /\ M.user = user /\ M.ospt = ospt
  BY <1>2, <1>3, OfIs
<1>7. PagesOf(c) \subseteq Pages /\ c.pgd \in OsFrames
  BY <1>1, <1>2, <1>3, LiveIs
<1>8. Given(M, m2)
  BY <1>4, <1>6, <1>7, CleanupOK
<1>9. /\ m2.user \in [UserFrames -> Bit] /\ m2.ospt \in [OsFrames -> Bit]
      /\ \A f \in UserFrames : IF HeldPage(M, f) THEN m2.user[f] = 1 ELSE m2.user[f] = user[f]
      /\ \A f \in OsFrames : IF HeldTable(M, f) THEN m2.ospt[f] = 1 ELSE m2.ospt[f] = ospt[f]
  BY <1>6, <1>8, MemIs DEF Given
<1>10. /\ \A f \in UserFrames : HeldPage(M, f) <=>
            \E s \in Slots : s[1] = 1 /\ In(x, s) /\ Frame(x, s) = f
       /\ \A f \in OsFrames : HeldTable(M, f) \/ f = c.pgd <=>
            \E s \in Slots : s[1] # 1 /\ In(x, s) /\ Frame(x, s) = f
  <2>1. \A s \in Entries : /\ s \in Slots /\ s # Root
                           /\ In(x, s) <=> M.pt[s] # NoEntry
                           /\ Frame(x, s) = M.pt[s].pfn
    BY <1>2, <1>6, SlotIs DEF Slots, In, Frame
  <2>2. In(x, Root) /\ Frame(x, Root) = c.pgd
    BY <1>2, <1>3 DEF In, Frame
  <2>3. \A f \in UserFrames : HeldPage(M, f) <=>
          \E s \in Slots : s[1] = 1 /\ In(x, s) /\ Frame(x, s) = f
    BY <2>1, SlotIs DEF HeldPage
  <2>4. \A f \in OsFrames : HeldTable(M, f) \/ f = c.pgd <=>
          \E s \in Slots : s[1] # 1 /\ In(x, s) /\ Frame(x, s) = f
    BY <2>1, <2>2, SlotIs DEF HeldTable
  <2> QED
    BY <2>3, <2>4
<1>11. m2.ospt[c.pgd] = 0
  <2>1. In(x, Root) /\ Frame(x, Root) = c.pgd /\ Root \in Slots /\ Root[1] # 1
    BY <1>2, <1>3, SlotIs DEF In, Frame
  <2>2. ospt[c.pgd] = 0
    BY <1>1, <1>2, <2>1 DEF NotFree, PoolOf
  <2>3. ~HeldTable(M, c.pgd)
    <3> SUFFICES ASSUME NEW e \in Entries, e[1] # 1, M.pt[e] # NoEntry, M.pt[e].pfn = c.pgd
                 PROVE  FALSE
      BY DEF HeldTable
    <3>1. e \in Slots /\ e # Root /\ In(x, e) /\ Frame(x, e) = c.pgd
      BY <1>2, <1>6, SlotIs DEF Slots, In, Frame
    <3> QED
      BY <1>1, <1>2, <2>1, <3>1 DEF Once
  <2> QED
    BY <1>7, <1>9, <2>2, <2>3
<1>12. /\ ospt' \in [OsFrames -> Bit] /\ ospt'[c.pgd] = 1
       /\ \A f \in OsFrames \ {c.pgd} : ospt'[f] = m2.ospt[f]
  <2>1. ospt' = [m2.ospt EXCEPT ![c.pgd] = 1]
    BY <1>5, <1>7, <1>9, <1>11 DEF os_pfn_free
  <2> QED
    BY <1>7, <1>9, <2>1 DEF Bit
<1>13. /\ \A f \in UserFrames :
            IF \E s \in Slots : s[1] = 1 /\ In(x, s) /\ Frame(x, s) = f
            THEN user'[f] = 1 ELSE user'[f] = user[f]
       /\ \A f \in OsFrames :
            IF \E s \in Slots : s[1] # 1 /\ In(x, s) /\ Frame(x, s) = f
            THEN ospt'[f] = 1 ELSE ospt'[f] = ospt[f]
  <2>1. \A f \in UserFrames : IF HeldPage(M, f) THEN user'[f] = 1 ELSE user'[f] = user[f]
    BY <1>5, <1>9
  <2>2. \A f \in OsFrames : IF HeldTable(M, f) \/ f = c.pgd
                            THEN ospt'[f] = 1 ELSE ospt'[f] = ospt[f]
    BY <1>9, <1>12
  <2> QED
    BY <1>10, <2>1, <2>2
<1>14. TypeInv'
  <2>1. NoTables \in PageTableType
    <3>1. PICK t : t = NoTables
      OBVIOUS
    <3>2. t = [e \in Entries |-> t[e]] /\ \A e \in Entries : t[e] \in EntryType(e)
      BY <3>1 DEF NoTables, EntryType
    <3> QED
      BY <3>1, <3>2, PageTableIs
  <2>2. ctx' \in [Contexts -> {NoContext} \cup
                    [code : Pages, data : Pages, stack : Pages,
                     arg_pfn : UserFrames, pgd : OsFrames]]
    BY <1>1, <1>5 DEF TypeInv
  <2>3. pt' \in [Contexts -> PageTableType]
    BY <1>1, <1>5, <2>1 DEF TypeInv
  <2>4. user' \in [UserFrames -> Bit]
    BY <1>5, <1>9
  <2> QED
    BY <1>12, <2>2, <2>3, <2>4 DEF TypeInv
<1>15. /\ ctx'[x] = NoContext
       /\ \A y \in Contexts \ {x} : /\ ctx'[y] = ctx[y] /\ pt'[y] = pt[y]
                                    /\ y \in Live' <=> y \in Live
       /\ \A y \in Contexts \ {x}, s \in Slots :
            (In(y, s)' <=> In(y, s)) /\ Frame(y, s)' = Frame(y, s)
       /\ Live' \subseteq Contexts /\ Live \subseteq Contexts
  BY <1>1, <1>5, OthersStay
<1>16. x \notin Live'
  BY <1>15 DEF Live
<1>17. BuiltInv'
  BY <1>1, <1>15, <1>16 DEF BuiltInv
<1>18. \A y \in Live', s \in Slots : In(y, s)' =>
         /\ y \in Live /\ y # x /\ In(y, s) /\ Frame(y, s)' = Frame(y, s)
         /\ PoolOf(s)[Frame(y, s)] = 0
         /\ Frame(y, s) \in IF s[1] = 1 THEN UserFrames ELSE OsFrames
  BY <1>1, <1>15, <1>16, FrameType DEF NotFree
<1>19. NotFree'
  <2> SUFFICES ASSUME NEW y \in Live', NEW s \in Slots, In(y, s)'
               PROVE  (PoolOf(s)[Frame(y, s)] = 0)'
    BY DEF NotFree
  <2>1. PICK f : f = Frame(y, s)
    OBVIOUS
  <2>2. /\ y \in Live /\ y # x /\ In(y, s) /\ Frame(y, s)' = f
        /\ PoolOf(s)[f] = 0 /\ f \in IF s[1] = 1 THEN UserFrames ELSE OsFrames
    BY <1>18, <2>1
  <2>3. ~ \E t \in Slots : (t[1] = 1 <=> s[1] = 1) /\ In(x, t) /\ Frame(x, t) = f
    BY <1>1, <1>2, <2>1, <2>2 DEF Once
  <2>4. CASE s[1] = 1
    BY <1>13, <2>2, <2>3, <2>4 DEF PoolOf
  <2>5. CASE s[1] # 1
    BY <1>13, <2>2, <2>3, <2>5 DEF PoolOf
  <2> QED
    BY <2>4, <2>5
<1>20. Once'
  <2> SUFFICES ASSUME NEW y \in Live', NEW z \in Live', NEW s \in Slots, NEW t \in Slots,
                      In(y, s)', In(z, t)', s[1] = 1 <=> t[1] = 1,
                      Frame(y, s)' = Frame(z, t)'
               PROVE  y = z /\ s = t
    BY DEF Once
  <2> QED
    BY <1>1, <1>18 DEF Once
<1>21. \A y \in Live, s \in Slots : y # x /\ In(y, s) =>
         y \in Live' /\ In(y, s)' /\ Frame(y, s)' = Frame(y, s)
  BY <1>15
<1>22. NoLeak'
  <2>1. ASSUME NEW f \in UserFrames, user'[f] = 0
        PROVE  \E y \in Live', s \in Slots : s[1] = 1 /\ In(y, s)' /\ Frame(y, s)' = f
    <3>1. ~(\E s \in Slots : s[1] = 1 /\ In(x, s) /\ Frame(x, s) = f) /\ user[f] = 0
      BY <1>13, <2>1
    <3>2. PICK y \in Live, s \in Slots : s[1] = 1 /\ In(y, s) /\ Frame(y, s) = f
      BY <1>1, <3>1 DEF NoLeak
    <3> QED
      BY <1>21, <3>1, <3>2
  <2>2. ASSUME NEW f \in OsFrames, ospt'[f] = 0
        PROVE  \E y \in Live', s \in Slots : s[1] # 1 /\ In(y, s)' /\ Frame(y, s)' = f
    <3>1. ~(\E s \in Slots : s[1] # 1 /\ In(x, s) /\ Frame(x, s) = f) /\ ospt[f] = 0
      BY <1>13, <2>2
    <3>2. PICK y \in Live, s \in Slots : s[1] # 1 /\ In(y, s) /\ Frame(y, s) = f
      BY <1>1, <3>1 DEF NoLeak
    <3> QED
      BY <1>21, <3>1, <3>2
  <2> QED
    BY <2>1, <2>2 DEF NoLeak
<1> QED
  BY <1>14, <1>17, <1>19, <1>20, <1>22 DEF Inv

-----------------------------------------------------------------------------
\* Contexts come and go, in any order, and the inductive invariant holds.
THEOREM ContextInvariance == Spec => []Inv
<1>1. Init => Inv
  <2> SUFFICES ASSUME Init PROVE Inv
    OBVIOUS
  <2>1. Live = {}
    BY DEF Init, Live
  <2>2. NoTables \in PageTableType
    <3>1. PICK t : t = NoTables
      OBVIOUS
    <3>2. t = [e \in Entries |-> t[e]] /\ \A e \in Entries : t[e] \in EntryType(e)
      BY <3>1 DEF NoTables, EntryType
    <3> QED
      BY <3>1, <3>2, PageTableIs
  <2>3. TypeInv
    BY <2>2 DEF Init, TypeInv, Bit
  <2>4. NoLeak
    BY DEF NoLeak, Init
  <2> QED
    BY <2>1, <2>3, <2>4 DEF Inv, BuiltInv, NotFree, Once
<1>2. Inv /\ [Next]_vars => Inv'
  <2> SUFFICES ASSUME Inv, [Next]_vars PROVE Inv'
    OBVIOUS
  <2>1. CASE UNCHANGED vars
    BY <2>1 DEF vars, Inv, TypeInv, BuiltInv, NotFree, Once, NoLeak, Live, In, Frame, PoolOf
  <2>2. CASE Next
    BY <2>2, PrepareStep, CleanupStep DEF Next
  <2> QED
    BY <2>1, <2>2
<1> QED
  BY <1>1, <1>2, PTL DEF Spec

\* Descriptions, page tables and pools keep their types.
THEOREM ContextTypeCorrect == Spec => []TypeOK
<1>1. Inv => TypeOK
  <2>1. Bit \subseteq Nat
    BY DEF Bit
  <2> QED
    BY <2>1 DEF Inv, TypeInv, TypeOK
<1> QED
  BY <1>1, ContextInvariance, PTL

\* A live context reaches its three pages with the rights of their segments, and
\* its data is the frame with the arguments.
THEOREM ContextSegments == Spec => []SegmentsMapped
<1>1. Inv => SegmentsMapped
  <2> SUFFICES ASSUME Inv, NEW x \in Live
               PROVE  /\ Present(Of(x), ctx[x].code) /\ ~Writable(Of(x), ctx[x].code)
                      /\ Writable(Of(x), ctx[x].data) /\ Writable(Of(x), ctx[x].stack)
                      /\ pt[x][Entry(1, ctx[x].data)].pfn = ctx[x].arg_pfn
    BY DEF SegmentsMapped
  <2>1. PICK M : M = Of(x)
    OBVIOUS
  <2>2. Built(M.pt, ctx[x]) /\ M.pt = pt[x]
    BY <2>1, OfIs
  <2>3. \A p \in PagesOf(ctx[x]) : Present(M, p)
    BY <2>2 DEF Built, Present
  <2>4. /\ Present(M, ctx[x].code) /\ Present(M, ctx[x].data) /\ Present(M, ctx[x].stack)
    BY <2>3 DEF PagesOf
  <2>5. ~Writable(M, ctx[x].code)
    <3>1. 1 \in 1 .. 4
      OBVIOUS
    <3> QED
      BY <2>2, <3>1 DEF Built, Writable
  <2>6. Writable(M, ctx[x].data) /\ Writable(M, ctx[x].stack)
    BY <2>2, <2>4 DEF Built, Writable
  <2> QED
    BY <2>1, <2>2, <2>4, <2>5, <2>6 DEF Built
<1> QED
  BY <1>1, ContextInvariance, PTL

\* The size of a set with one element and of an empty one.
LEMMA OneOrNone ==
  /\ \A S, o : o \in S /\ (\A u \in S : u = o) => Cardinality(S) = 1
  /\ \A S : (\A u : u \notin S) => Cardinality(S) = 0
<1>1. ASSUME NEW S, NEW o, o \in S, \A u \in S : u = o PROVE Cardinality(S) = 1
  <2>1. S = {o}
    BY <1>1
  <2> QED
    BY <2>1, FS_Singleton
<1>2. ASSUME NEW S, \A u : u \notin S PROVE Cardinality(S) = 0
  <2>1. S = {}
    BY <1>2
  <2> QED
    BY <2>1, FS_EmptySet
<1> QED
  BY <1>1, <1>2

\* Every frame is in its pool, in one entry of one context, or the pgd of one:
\* whichever tables the segments share, cleanup frees each once.
THEOREM ContextFrames == Spec => []FrameAccounting
<1>1. Inv => FrameAccounting
  <2> SUFFICES ASSUME Inv PROVE FrameAccounting
    OBVIOUS
  <2>1. TypeInv /\ NotFree /\ Once /\ NoLeak
    BY DEF Inv
  <2>2. user \in [UserFrames -> Bit] /\ ospt \in [OsFrames -> Bit]
    BY <2>1 DEF TypeInv
  <2>3. \A x : Of(x).pt = pt[x]
    BY DEF Of
  <2>4. \A x \in Live, e \in Entries : /\ e \in Slots /\ e # Root
                                       /\ In(x, e) <=> pt[x][e] # NoEntry
                                       /\ Frame(x, e) = pt[x][e].pfn
    BY SlotIs DEF Slots, In, Frame
  <2>5. \A x \in Live : Root \in Slots /\ In(x, Root) /\ Frame(x, Root) = ctx[x].pgd
    BY SlotIs DEF In, Frame
  <2>6. ASSUME NEW f \in UserFrames
        PROVE  user[f] + Cardinality({o \in Live \X Pages :
                                        o[2] \in PageRefs(Of(o[1]), f)}) = 1
    <3>1. PICK S : S = {o \in Live \X Pages : o[2] \in PageRefs(Of(o[1]), f)}
      OBVIOUS
    <3>2. \A o : o \in S <=> /\ o \in Live \X Pages
                             /\ In(o[1], Entry(1, o[2])) /\ Frame(o[1], Entry(1, o[2])) = f
      <4>1. \A o \in Live \X Pages : o[1] \in Live /\ o[2] \in Pages
        OBVIOUS
      <4>2. \A p \in Pages : Entry(1, p) \in Entries
        BY EntryIs
      <4>3. \A x \in Live, p \in Pages : p \in PageRefs(Of(x), f) <=>
              In(x, Entry(1, p)) /\ Frame(x, Entry(1, p)) = f
        BY <2>3, <2>4, <4>2 DEF PageRefs
      <4> QED
        BY <3>1, <4>1, <4>3
    <3>3. CASE user[f] = 0
      <4>1. PICK x \in Live, s \in Slots : s[1] = 1 /\ In(x, s) /\ Frame(x, s) = f
        BY <2>1, <3>3 DEF NoLeak
      <4>2. PICK p \in Pages : s = Entry(1, p)
        BY <4>1, SlotIs, PageEntry
      <4>3. <<x, p>> \in S
        BY <3>2, <4>1, <4>2
      <4>4. \A o \in S : o = <<x, p>>
        <5> SUFFICES ASSUME NEW o \in S PROVE o = <<x, p>>
          OBVIOUS
        <5>1. /\ o \in Live \X Pages /\ o[1] \in Live /\ o[2] \in Pages
              /\ In(o[1], Entry(1, o[2])) /\ Frame(o[1], Entry(1, o[2])) = f
          BY <3>2
        <5>2. Entry(1, o[2]) \in Slots /\ Entry(1, o[2])[1] = 1
          BY <5>1, EntryIs DEF Slots
        <5>3. o[1] = x /\ Entry(1, o[2]) = s
          BY <2>1, <4>1, <5>1, <5>2 DEF Once
        <5>4. o[2] = p
          BY <4>2, <5>1, <5>3, PageEntry
        <5> QED
          BY <5>1, <5>3, <5>4
      <4>5. Cardinality(S) = 1
        BY <4>3, <4>4, OneOrNone
      <4> QED
        BY <3>1, <3>3, <4>5
    <3>4. CASE user[f] = 1
      <4>1. \A o : o \notin S
        <5> SUFFICES ASSUME NEW o \in S PROVE FALSE
          OBVIOUS
        <5>1. /\ o[1] \in Live /\ o[2] \in Pages
              /\ In(o[1], Entry(1, o[2])) /\ Frame(o[1], Entry(1, o[2])) = f
          BY <3>2
        <5>2. Entry(1, o[2]) \in Slots /\ Entry(1, o[2])[1] = 1
          BY <5>1, EntryIs DEF Slots
        <5>3. user[f] = 0
          BY <2>1, <5>1, <5>2 DEF NotFree, PoolOf
        <5> QED
          BY <3>4, <5>3
      <4>2. Cardinality(S) = 0
        BY <4>1, OneOrNone
      <4> QED
        BY <3>1, <3>4, <4>2
    <3> QED
      BY <2>2, <3>3, <3>4 DEF Bit
  <2>7. ASSUME NEW f \in OsFrames
        PROVE  ospt[f] + Cardinality({o \in Live \X Entries :
                                        o[2] \in TableRefs(Of(o[1]), f)})
                       + Cardinality({x \in Live : ctx[x].pgd = f}) = 1
    <3>1. PICK S, P : /\ S = {o \in Live \X Entries : o[2] \in TableRefs(Of(o[1]), f)}
                      /\ P = {x \in Live : ctx[x].pgd = f}
      OBVIOUS
    <3>2. \A e \in Entries : e[1] > 1 <=> e[1] # 1
      <4> SUFFICES ASSUME NEW e \in Entries PROVE e[1] > 1 <=> e[1] # 1
        OBVIOUS
      <4>1. PICK l \in 1 .. 4, p \in Pages : e = Entry(l, p) /\ e[1] = l
        BY EntryOf
      <4> QED
        BY <4>1
    <3>3. \A o : o \in S <=> /\ o \in Live \X Entries /\ o[2][1] # 1
                             /\ In(o[1], o[2]) /\ Frame(o[1], o[2]) = f
      <4>1. \A o \in Live \X Entries : o[1] \in Live /\ o[2] \in Entries
        OBVIOUS
      <4>2. \A x \in Live, e \in Entries : e \in TableRefs(Of(x), f) <=>
              e[1] # 1 /\ In(x, e) /\ Frame(x, e) = f
        BY <2>3, <2>4, <3>2 DEF TableRefs
      <4> QED
        BY <3>1, <4>1, <4>2
    <3>4. \A x : x \in P <=> x \in Live /\ Frame(x, Root) = f
      BY <2>5, <3>1
    <3>5. \A o \in S : o[1] \in Live /\ o[2] \in Slots /\ o[2] # Root /\ o = <<o[1], o[2]>>
      BY <2>4, <3>3
    <3>6. CASE ospt[f] = 0
      <4>1. PICK x \in Live, s \in Slots : s[1] # 1 /\ In(x, s) /\ Frame(x, s) = f
        BY <2>1, <3>6 DEF NoLeak
      <4>2. \A o \in S : o = <<x, s>>
        BY <2>1, <3>3, <3>5, <4>1 DEF Once
      <4>3. \A y \in P : y = x /\ s = Root
        <5>1. Root[1] # 1
          BY SlotIs
        <5> QED
          BY <2>1, <2>5, <3>4, <4>1, <5>1 DEF Once
      <4>4. CASE s = Root
        <5>1. x \in P
          BY <3>4, <4>1, <4>4
        <5>2. Cardinality(P) = 1
          BY <4>3, <5>1, OneOrNone
        <5>3. \A o : o \notin S
          BY <3>5, <4>2, <4>4
        <5>4. Cardinality(S) = 0
          BY <5>3, OneOrNone
        <5> QED
          BY <3>1, <3>6, <5>2, <5>4
      <4>5. CASE s # Root
        <5>1. s \in Entries
          BY <4>5, SlotIs
        <5>2. <<x, s>> \in S
          BY <3>3, <4>1, <5>1
        <5>3. Cardinality(S) = 1
          BY <4>2, <5>2, OneOrNone
        <5>4. \A y : y \notin P
          BY <4>3, <4>5
        <5>5. Cardinality(P) = 0
          BY <5>4, OneOrNone
        <5> QED
          BY <3>1, <3>6, <5>3, <5>5
      <4> QED
        BY <4>4, <4>5
    <3>7. CASE ospt[f] = 1
      <4>1. \A o : o \notin S
        BY <2>1, <3>3, <3>5, <3>7 DEF NotFree, PoolOf
      <4>2. \A x : x \notin P
        <5>1. Root[1] # 1
          BY SlotIs
        <5> QED
          BY <2>1, <2>5, <3>4, <3>7, <5>1 DEF NotFree, PoolOf
      <4>3. Cardinality(S) = 0 /\ Cardinality(P) = 0
        BY <4>1, <4>2, OneOrNone
      <4> QED
        BY <3>1, <3>7, <4>3
    <3> QED
      BY <2>2, <3>6, <3>7 DEF Bit
  <2> QED
    BY <2>6, <2>7 DEF FrameAccounting
<1> QED
  BY <1>1, ContextInvariance, PTL
=============================================================================
