------------------------------ MODULE ContextMM ------------------------------
(***************************************************************************)
(* assignment1/context_mm.c: the page tables of a context are made when it *)
(* is created and taken apart when it exits.  Several contexts share the   *)
(* frame pools.  Each context has one page of code, of data (the arguments *)
(* of init, in a frame the creator allocated) and of stack.                *)
(***************************************************************************)
EXTENDS PageTables

CONSTANTS Contexts, NoContext

ASSUME ContextAssumption ==
  NoContext \notin [code : Pages, data : Pages, stack : Pages,
                    arg_pfn : UserFrames, pgd : OsFrames]

VARIABLES
  ctx,         \* context -> its pages, arg_pfn and pgd
  pt,          \* context -> its page tables
  user, ospt   \* the frame pools

vars == <<ctx, pt, user, ospt>>

Live == {x \in Contexts : ctx[x] # NoContext}

NoTables == [e \in Entries |-> NoEntry]

TypeOK ==
  /\ ctx \in [Contexts -> {NoContext} \cup
                [code : Pages, data : Pages, stack : Pages,
                 arg_pfn : UserFrames, pgd : OsFrames]]
  /\ pt \in [Contexts -> PageTableType]
  /\ user \in [UserFrames -> Nat] /\ ospt \in [OsFrames -> Nat]

Init ==
  /\ ctx = [x \in Contexts |-> NoContext]
  /\ pt = [x \in Contexts |-> NoTables]
  /\ user = [f \in UserFrames |-> 1]
  /\ ospt = [f \in OsFrames |-> 1]

\* allocate for the code and the stack, and for the data.
allocate(m, p, w)         == MapNew(Tables(m, p, w), p, w)
allocate_data(m, p, w, f) == MapFrame(Tables(m, p, w), p, w, f)

\* prepare_context_mm.  The creator has put the arguments into frame arg_pfn;
\* the stack page is the one below the end of the stack segment.
prepare_context_mm(x, code, data, stack) ==
  LET arg_pfn == os_pfn_alloc(user)
      a  == os_pfn_alloc(ospt)
      m0 == [pt |-> NoTables, user |-> Taken(user), ospt |-> Taken(ospt)]
      m1 == allocate(m0, code, FALSE)
      m2 == allocate_data(m1, data, TRUE, arg_pfn)
      m3 == allocate(m2, stack, TRUE)
  IN
  /\ x \notin Live
  /\ Cardinality({code, data, stack}) = 3
  \* 16 MB suffice
  /\ Cardinality(Free(user)) >= 3 /\ Cardinality(Free(ospt)) >= 10
  /\ ctx' = [ctx EXCEPT ![x] = [code |-> code, data |-> data, stack |-> stack,
                                arg_pfn |-> arg_pfn, pgd |-> a]]
  /\ pt' = [pt EXCEPT ![x] = m3.pt]
  /\ user' = m3.user
  /\ ospt' = m3.ospt

(***************************************************************************)
(* free_memory with lower = i: the frame of the page for i = 1, the table  *)
(* the level i entry points to otherwise, unless another segment that      *)
(* shares the entry has freed it already.                                  *)
(***************************************************************************)
free_page(m, f) == [m EXCEPT !.user = os_pfn_free(@, f)]

\* Mutation: the entry is not cleared.
free_table_Kept(m, i, p) ==
  IF m.pt[Entry(i, p)] = NoEntry THEN m
  ELSE [m EXCEPT !.ospt = os_pfn_free(@, m.pt[Entry(i, p)].pfn)]

free_table(m, i, p) ==
  IF m.pt[Entry(i, p)] = NoEntry THEN m
  ELSE [m EXCEPT !.ospt = os_pfn_free(@, m.pt[Entry(i, p)].pfn),
                 !.pt = [@ EXCEPT ![Entry(i, p)] = NoEntry]]

FreePages(m, c) ==
  free_page(free_page(free_page(m, m.pt[Entry(1, c.stack)].pfn),
                      m.pt[Entry(1, c.code)].pfn), c.arg_pfn)

FreeTables(m, i, c) ==
  free_table(free_table(free_table(m, i, c.stack), i, c.code), i, c.data)

\* cleanup_context_mm: the pages, the tables from level 2 up, and the pgd.
cleanup_context_mm(x) ==
  LET c  == ctx[x]
      m1 == FreePages([pt |-> pt[x], user |-> user, ospt |-> ospt], c)
      m2 == FreeTables(FreeTables(FreeTables(m1, 2, c), 3, c), 4, c)
  IN
  /\ x \in Live
  /\ ctx' = [ctx EXCEPT ![x] = NoContext]
  /\ pt' = [pt EXCEPT ![x] = NoTables]
  /\ user' = m2.user
  /\ ospt' = os_pfn_free(m2.ospt, c.pgd)

Next ==
  \E x \in Contexts :
    \/ \E code, data, stack \in Pages : prepare_context_mm(x, code, data, stack)
    \/ cleanup_context_mm(x)

Spec == Init /\ [][Next]_vars

-----------------------------------------------------------------------------
Of(x) == [pt |-> pt[x], user |-> user, ospt |-> ospt]

\* Every frame is in its pool or in one entry of one context: cleanup frees
\* every table once, however the three segments share tables, and nothing leaks.
FrameAccounting ==
  /\ \A f \in UserFrames :
       user[f] + Cardinality({o \in Live \X Pages : o[2] \in PageRefs(Of(o[1]), f)}) = 1
  /\ \A f \in OsFrames :
       ospt[f] + Cardinality({o \in Live \X Entries : o[2] \in TableRefs(Of(o[1]), f)})
               + Cardinality({x \in Live : ctx[x].pgd = f}) = 1

\* A live context reaches its pages: data is the argument frame and writable,
\* code is not writable, also when a segment's tables were made by another.
SegmentsMapped ==
  \A x \in Live :
    /\ Present(Of(x), ctx[x].code) /\ ~Writable(Of(x), ctx[x].code)
    /\ Writable(Of(x), ctx[x].data) /\ Writable(Of(x), ctx[x].stack)
    /\ pt[x][Entry(1, ctx[x].data)].pfn = ctx[x].arg_pfn
=============================================================================
