---------------------------- MODULE VirtualMemory ----------------------------
(***************************************************************************)
(* Lazy memory of the init process, assignment2/entry.c: the system calls  *)
(* write, expand and shrink, the page-fault handler and the handler for    *)
(* division by zero.  Addresses are page numbers.                          *)
(***************************************************************************)
EXTENDS PageTables

CONSTANTS
  CODE,                           \* the page of the program
  RODATA_START, RODATA_END, DATA_START, DATA_END, STACK_START, STACK_END,
  MAX_SIZE,                       \* largest argument of expand (512)
  MAX_LENGTH,                     \* largest argument of write (1024)
  WRAP,                           \* 32 bits hold this many pages (2^20)
  Sizes, Lengths                  \* arguments user programs pass

ASSUME VMAssumptions ==
  /\ CODE \in Nat /\ CODE < RODATA_START
  /\ {RODATA_START, RODATA_END, DATA_START, DATA_END, STACK_START, STACK_END}
       \subseteq Nat
  /\ RODATA_START <= RODATA_END /\ RODATA_END <= DATA_START
  /\ DATA_START <= DATA_END /\ DATA_END <= STACK_START
  /\ STACK_START <= STACK_END
  /\ DATA_START < DATA_END /\ STACK_START < STACK_END
  /\ {CODE} \cup RODATA_START .. RODATA_END - 1 \cup DATA_START .. DATA_END - 1
            \cup STACK_START .. STACK_END \subseteq Pages
  /\ MAX_SIZE \in Nat /\ MAX_LENGTH \in Nat /\ WRAP \in Nat \ {0}
  /\ Sizes \subseteq Nat /\ Lengths \subseteq Nat
  \* exec_init finds frames for its three pages and for their tables
  /\ Cardinality(UserFrames) >= 3 /\ Cardinality(OsFrames) >= 9

VARIABLES
  m,          \* page tables and frame pools
  next_free,  \* next_free of the segments RODATA and DATA
  alive       \* FALSE after do_exit

vars == <<m, next_free, alive>>

Growing  == {"RODATA", "DATA"}
Start(s) == IF s = "RODATA" THEN RODATA_START ELSE DATA_START
End(s)   == IF s = "RODATA" THEN RODATA_END ELSE DATA_END

\* MAP_RD is 0, and every other value of flags means DATA.
SegmentOf(flags) == IF flags = 0 THEN "RODATA" ELSE "DATA"

TypeOK ==
  /\ m \in Memories
  /\ next_free \in [Growing -> Nat]
  /\ alive \in BOOLEAN

\* exec_init (context.o) has mapped the program, the first page of DATA and the
\* top of the stack; all its tables are writable.
Loaded(m0, p, w) == MapNew(Tables(m0, p, TRUE), p, w)

NoPages == [pt |-> [e \in Entries |-> NoEntry],
            user |-> [f \in UserFrames |-> 1], ospt |-> [f \in OsFrames |-> 1]]

Init ==
  /\ m = Loaded(Loaded(Loaded(NoPages, CODE, FALSE), DATA_START, TRUE),
               STACK_END - 1, TRUE)
  /\ next_free = [RODATA |-> RODATA_START, DATA |-> DATA_START + 1]
  /\ alive = TRUE

-----------------------------------------------------------------------------
\* The case SYSCALL_EXPAND, which returns the old next_free, or 0 if the pages do
\* not fit.
Fits(size, s) == size <= MAX_SIZE /\ next_free[s] + size <= End(s)

Expanded(size, flags) ==
  LET s == SegmentOf(flags)
  IN  IF Fits(size, s) THEN [next_free EXCEPT ![s] = @ + size] ELSE next_free

expand(size, flags) ==
  /\ alive
  /\ next_free' = Expanded(size, flags)
  /\ UNCHANGED <<m, alive>>

(***************************************************************************)
(* write of length bytes that start in page b and end in page b or, if     *)
(* spans, in the next; -1 unless they are mapped.  The case ends without a *)
(* break and runs into SYSCALL_EXPAND, whose result is returned; there     *)
(* size is the lower half of the buffer's address and flags the length.    *)
(* That half is small only at the start of a page at a multiple of 2^32:   *)
(* CODE, the end of the stack, and pages of DATA.                          *)
(***************************************************************************)
LowerHalf(b) == IF b % WRAP = 0 THEN 0 .. MAX_SIZE + 1 ELSE {MAX_SIZE + 1}

write(b, spans, length, size) ==
  LET ok == /\ length <= MAX_LENGTH
            /\ Present(m, b)
            /\ spans => Present(m, b + 1)
  IN
  /\ alive
  /\ spans => length > 1 /\ b + 1 \in Pages
  /\ next_free' = IF ok THEN Expanded(size, length) ELSE next_free
  /\ UNCHANGED <<m, alive>>

(***************************************************************************)
(* shrink(size) moves next_free down by size * 4096, an unsigned product   *)
(* of 32 bits, and releases the pages next_free - i * 4096, i = 1 .. size, *)
(* where the product is an int: from half of WRAP on it is negative, and   *)
(* the page above next_free.                                               *)
(***************************************************************************)
Signed(i) ==
  LET r == i % WRAP
  IN  IF 2 * r >= WRAP THEN r - WRAP ELSE r

\* Mutation: the loop starts at 0, one page too high, and ends too early.
Released_OffByOne(s, size) ==
  {next_free[s] - Signed(i) : i \in 0 .. size - 1} \cap Pages

\* Mutation: one page too many.
Released_TooFar(s, size) ==
  {next_free[s] - Signed(i) : i \in 1 .. size + 1} \cap Pages

Released(s, size) == {next_free[s] - Signed(i) : i \in 1 .. size} \cap Pages

\* Mutation: the frames are not given back.
Unmap_Leaks(ps) ==
  LET gone == {p \in ps : Present(m, p)}
  IN  [pt |-> [e \in Entries |-> IF \E p \in gone : e = Entry(1, p)
                                 THEN NoEntry ELSE m.pt[e]],
       user |-> m.user, ospt |-> m.ospt]

Unmap(ps) ==
  LET gone == {p \in ps : Present(m, p)}
      n(f) == Cardinality({p \in gone : m.pt[Entry(1, p)].pfn = f})
  IN  [pt |-> [e \in Entries |-> IF \E p \in gone : e = Entry(1, p)
                                 THEN NoEntry ELSE m.pt[e]],
       user |-> [f \in UserFrames |-> m.user[f] + n(f)], ospt |-> m.ospt]

\* Mutation: any size is accepted.
AboveStart_Any(s, to) == TRUE

AboveStart(s, to) == to >= Start(s)

shrink(size, flags) ==
  LET s  == SegmentOf(flags)
      to == next_free[s] - (size % WRAP)
      ok == AboveStart(s, to)
  IN
  /\ alive
  /\ m' = IF ok THEN Unmap(Released(s, size)) ELSE m
  /\ next_free' = IF ok THEN [next_free EXCEPT ![s] = to] ELSE next_free
  /\ UNCHANGED alive

-----------------------------------------------------------------------------
\* check_present.  The last address of the stack segment counts as inside, so
\* the page at its end is accepted at offset 0 (base).
InStack(p, base) ==
  STACK_START <= p /\ (p < STACK_END \/ (p = STACK_END /\ base))

InGrowing(p, s) == Start(s) <= p /\ p < next_free[s]

Region(p, base) ==
  IF InGrowing(p, "DATA") THEN "DATA"
  ELSE IF InGrowing(p, "RODATA") THEN "RODATA"
  ELSE IF InStack(p, base) THEN "STACK" ELSE "none"

\* The accesses the hardware lets through.
Allowed(p, w) == IF w THEN Writable(m, p) ELSE Present(m, p)

\* Bit 0 of the error code is set if the page is present.
Refused(p, w, base) ==
  \/ Present(m, p)
  \/ Region(p, base) = "none"
  \/ Region(p, base) = "RODATA" /\ w

\* The process never has more than these frames in use (16 MB).
PoolsSuffice == Free(m.user) # {} /\ Cardinality(Free(m.ospt)) >= 3

\* User code reads or writes page p and faults; do_exit or allocate.
handle_page_fault(p, w, base) ==
  LET wr == Region(p, base) # "RODATA"
  IN
  /\ alive /\ ~Allowed(p, w)
  /\ IF Refused(p, w, base)
     THEN /\ alive' = FALSE
          /\ UNCHANGED m
     ELSE /\ PoolsSuffice
          /\ m' = MapNew(Tables(m, p, wr), p, wr)
          /\ UNCHANGED alive
  /\ UNCHANGED next_free

\* exit() and handle_div_by_zero.
do_exit ==
  /\ alive
  /\ alive' = FALSE
  /\ UNCHANGED <<m, next_free>>

Next ==
  \/ \E size \in Sizes, flags \in {0, 1} : expand(size, flags) \/ shrink(size, flags)
  \/ \E b \in Pages, spans \in BOOLEAN, length \in Lengths :
       \E size \in LowerHalf(b) : write(b, spans, length, size)
  \/ \E p \in Pages, w \in BOOLEAN, base \in BOOLEAN : handle_page_fault(p, w, base)
  \/ do_exit

Spec == Init /\ [][Next]_vars

-----------------------------------------------------------------------------
\* Every frame is in its pool or in exactly one entry: shrink and faults in any
\* order neither leak a frame nor free one twice nor map it twice.
FrameAccounting ==
  /\ \A f \in UserFrames : m.user[f] + Cardinality(PageRefs(m, f)) = 1
  /\ \A f \in OsFrames : m.ospt[f] + Cardinality(TableRefs(m, f)) = 1

\* Only pages the process may use are mapped: a shrink of less than half of WRAP
\* leaves nothing mapped above the new next_free, also after the segment grew, was
\* used and shrank again.
MappedInSegments ==
  \A p \in Mapped(m) \ {CODE} : Region(p, TRUE) # "none"

\* Pages of DATA and STACK are writable through all four levels, whichever fault
\* made the tables on the way; pages of RODATA are not writable.
Permissions ==
  \A p \in Mapped(m) \ {CODE} : Writable(m, p) <=> Region(p, TRUE) # "RODATA"

\* A shrink of less than half of WRAP unmaps the pages that leave the segment and
\* no others.
ShrinkUnmapsReleased ==
  [][ \A p \in Mapped(m) \ Mapped(m') :
        \E s \in Growing : next_free'[s] <= p /\ p < next_free[s] ]_vars
=============================================================================
