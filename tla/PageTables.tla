----------------------------- MODULE PageTables -----------------------------
(***************************************************************************)
(* The four-level page tables of gemOS and its frame pools, as operators   *)
(* on a record                                                             *)
(*                                                                         *)
(*   m.pt     entry -> what it holds; <<l, x>> is the level l entry of the *)
(*            pages whose number, without its l - 1 lower indices, is x    *)
(*   m.user   frame -> how often it is in the pool USER_REG                *)
(*   m.ospt   frame -> how often it is in the pool OS_PT_REG               *)
(*                                                                         *)
(* A frame in use has count 0, a free one 1; freeing it again would make 2.*)
(***************************************************************************)
EXTENDS Integers, FiniteSets

CONSTANTS
  Pages,       \* virtual page numbers
  Fan,         \* entries of a table (512)
  UserFrames, OsFrames,
  NoEntry      \* an entry without the present bit

ASSUME PageTableAssumptions ==
  /\ Pages \subseteq Nat
  /\ Fan \in Nat \ {0}
  /\ IsFiniteSet(UserFrames) /\ IsFiniteSet(OsFrames)
  /\ NoEntry \notin [pfn : UserFrames \cup OsFrames, w : BOOLEAN]

\* The address is shifted by 9 more bits at every level.
Above(x)    == x \div Fan
Entry(l, p) == <<l, CASE l = 1 -> p
                      [] l = 2 -> Above(p)
                      [] l = 3 -> Above(Above(p))
                      [] l = 4 -> Above(Above(Above(p)))>>

Entries == {Entry(l, p) : l \in 1 .. 4, p \in Pages}

\* Level 1 entries hold pages, the others tables.
EntryType(e) ==
  {NoEntry} \cup [pfn : IF e[1] = 1 THEN UserFrames ELSE OsFrames, w : BOOLEAN]

PageTableType ==
  {t \in [Entries -> UNION {EntryType(e) : e \in Entries}] :
     \A e \in Entries : t[e] \in EntryType(e)}

Memories ==
  [pt : PageTableType,
   user : [UserFrames -> Nat], ospt : [OsFrames -> Nat]]

\* The allocator (memory.o) takes some free frame.
Free(pool) == {f \in DOMAIN pool : pool[f] > 0}
os_pfn_alloc(pool) == CHOOSE f \in Free(pool) : TRUE
Taken(pool) == [pool EXCEPT ![os_pfn_alloc(pool)] = @ - 1]
os_pfn_free(pool, f) == [pool EXCEPT ![f] = @ + 1]

\* A new table is zeroed: the entries of the level below are not present.
InTable(n, e) == n[1] = e[1] - 1 /\ Above(n[2]) = e[2]

(***************************************************************************)
(* allocate() for page p, whose segment is writable if w: the levels 4 to  *)
(* 2, and then the page itself.                                            *)
(***************************************************************************)
\* Mutation: the write bit of a table that exists is not set.
Descend_KeepsW(m, l, p, w) ==
  LET e == Entry(l, p)
      f == os_pfn_alloc(m.ospt)
  IN  IF m.pt[e] = NoEntry
      THEN [pt |-> [n \in Entries |-> IF n = e THEN [pfn |-> f, w |-> w]
                                      ELSE IF InTable(n, e) THEN NoEntry
                                      ELSE m.pt[n]],
            user |-> m.user, ospt |-> Taken(m.ospt)]
      ELSE m

\* Mutation: the write bit of a new table is not set.
Descend_NewReadOnly(m, l, p, w) ==
  LET e == Entry(l, p)
      f == os_pfn_alloc(m.ospt)
  IN  IF m.pt[e] = NoEntry
      THEN [pt |-> [n \in Entries |-> IF n = e THEN [pfn |-> f, w |-> FALSE]
                                      ELSE IF InTable(n, e) THEN NoEntry
                                      ELSE m.pt[n]],
            user |-> m.user, ospt |-> Taken(m.ospt)]
      ELSE [pt |-> [m.pt EXCEPT ![e] = [pfn |-> @.pfn, w |-> @.w \/ w]],
            user |-> m.user, ospt |-> m.ospt]

Descend(m, l, p, w) ==
  LET e == Entry(l, p)
      f == os_pfn_alloc(m.ospt)
  IN  IF m.pt[e] = NoEntry
      THEN [pt |-> [n \in Entries |-> IF n = e THEN [pfn |-> f, w |-> w]
                                      ELSE IF InTable(n, e) THEN NoEntry
                                      ELSE m.pt[n]],
            user |-> m.user, ospt |-> Taken(m.ospt)]
      ELSE [pt |-> [m.pt EXCEPT ![e] = [pfn |-> @.pfn, w |-> @.w \/ w]],
            user |-> m.user, ospt |-> m.ospt]

Tables(m, p, w) == Descend(Descend(Descend(m, 4, p, w), 3, p, w), 2, p, w)

\* Mutation: the page is allocated in the region of the tables.
MapNew_WrongRegion(m, p, w) ==
  IF m.pt[Entry(1, p)] # NoEntry THEN m
  ELSE [pt |-> [m.pt EXCEPT ![Entry(1, p)] =
                  [pfn |-> os_pfn_alloc(m.ospt), w |-> w]],
        user |-> m.user, ospt |-> Taken(m.ospt)]

\* The page gets a frame of the user pool unless it has one.
MapNew(m, p, w) ==
  IF m.pt[Entry(1, p)] # NoEntry THEN m
  ELSE [pt |-> [m.pt EXCEPT ![Entry(1, p)] =
                  [pfn |-> os_pfn_alloc(m.user), w |-> w]],
        user |-> Taken(m.user), ospt |-> m.ospt]

\* The page gets the given frame unless it has one.
MapFrame(m, p, w, f) ==
  IF m.pt[Entry(1, p)] # NoEntry THEN m
  ELSE [pt |-> [m.pt EXCEPT ![Entry(1, p)] = [pfn |-> f, w |-> w]],
        user |-> m.user, ospt |-> m.ospt]

-----------------------------------------------------------------------------
\* What the hardware's walk finds.
Present(m, p)  == \A l \in 1 .. 4 : m.pt[Entry(l, p)] # NoEntry
Writable(m, p) == Present(m, p) /\ \A l \in 1 .. 4 : m.pt[Entry(l, p)].w
Mapped(m)      == {p \in Pages : m.pt[Entry(1, p)] # NoEntry}

\* Entries that hold frame f, as a page and as a table.
PageRefs(m, f)  == {p \in Pages : m.pt[Entry(1, p)] # NoEntry
                                    /\ m.pt[Entry(1, p)].pfn = f}
TableRefs(m, f) == {e \in Entries : e[1] > 1 /\ m.pt[e] # NoEntry
                                      /\ m.pt[e].pfn = f}
=============================================================================
