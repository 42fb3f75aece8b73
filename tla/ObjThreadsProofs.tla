-------------------------- MODULE ObjThreadsProofs --------------------------
(***************************************************************************)
(* Proofs about the object store under threads, for every number of        *)
(* threads, keys, inodes, pointers and data blocks.                        *)
(***************************************************************************)
EXTENDS ObjThreads, WellFoundedInduction, TLAPS

ScanSteps   == {"getattr", "open", "fillup", "answer"}
RemoveSteps == {"clear", "xor_read", "xor_write"}
DirSteps    == {"strcpy"} \cup RemoveSteps
WriteSteps  == {"alloc", "set", "link"}

MaxBit  == DATA_BITS + Skew
Pointers == [0 .. NDIRECT - 1 -> Bits \cup {NoPtr}]
Inode   == [id : {0} \cup 2 .. INODES + 1, size : 0 .. NDIRECT,
            key : Keys \cup {NoKey, Torn}, direct : Pointers]
Frame   == [at : Steps, key : Keys \cup {NoKey}, s : 0 .. INODES + 1, i : Nat,
            bit : 0 .. MaxBit, word : SUBSET Bits, low : Nat,
            quiet : BOOLEAN, result : (0 .. NDIRECT) \cup {NotFound, BadFile}]

(***************************************************************************)
(* Types.  i is the inode a scan looks at, or the pointer destroy_object   *)
(* is at.                                                                  *)
(***************************************************************************)
Index(f) ==
  /\ f.at = "clear" => f.i = 0
  /\ f.at \in {"xor_read", "xor_write"} => f.i \in 0 .. NDIRECT
  /\ f.at = "xor_write" => f.i < NDIRECT
  /\ f.at \notin {"xor_read", "xor_write"} => f.i \in 0 .. INODES

Types ==
  /\ inode_bitmap \subseteq Inodes
  /\ a \in [Inodes -> Inode]
  /\ data_bitmap \subseteq Bits
  /\ dirty_array \subseteq {BlockOf(s) : s \in Inodes}
  /\ backup \in Inodes
  /\ d_lock \in Threads \cup {NoThread} /\ dir \in Threads \cup {NoThread}
  /\ th \in [Threads -> Frame]
  /\ \A t \in Threads : Index(th[t])
  /\ names \subseteq Keys
  /\ written \in [Keys -> 0 .. NDIRECT]
  /\ damaged \in BOOLEAN

(***************************************************************************)
(* Names and inodes.  The inode s is being filled by a create, or emptied  *)
(* by an unlink; otherwise one in use is the home of the name it has, the  *)
(* first of the inodes that ever had that key.                             *)
(***************************************************************************)
Making(s)   == dir # NoThread /\ th[dir].at = "strcpy" /\ th[dir].s = s
Removing(s) == dir # NoThread /\ th[dir].at \in RemoveSteps /\ th[dir].s = s

Home(k, s) ==
  /\ s \in inode_bitmap /\ ~Making(s)
  /\ a[s].key = k /\ a[s].id = s + 2 /\ a[s].size = written[k]
  /\ \A r \in Inodes \ {s} : a[r].key = k =>
       s < r /\ (r \in inode_bitmap => Making(r))

NamesInv ==
  /\ \A k \in names : ~Unlinking(k) => \E s \in Inodes : Home(k, s)
  /\ \A s \in inode_bitmap :
       ~Making(s) => a[s].key \in names /\ ~Unlinking(a[s].key)

InodesInv ==
  /\ \A s \in Inodes : a[s].id \in {0, s + 2}
  /\ \A s \in Inodes : a[s].key = Torn => Making(s)
  /\ \A s \in Inodes : ~Removing(s) /\ (s \in inode_bitmap => Making(s)) =>
       a[s].size = 0 /\ a[s].direct = FreeInode.direct

\* The holder of the directory's lock.
DirInv ==
  /\ \A t \in Threads : th[t].at \in DirSteps <=> dir = t
  /\ \A t \in Threads : th[t].at = "strcpy" =>
       /\ th[t].key \in Keys \ names
       /\ th[t].s \in inode_bitmap /\ a[th[t].s].id = th[t].s + 2
       /\ \A r \in Inodes \ inode_bitmap : th[t].s < r
  /\ \A t \in Threads : th[t].at \in RemoveSteps =>
       /\ th[t].key \in names
       /\ th[t].s \in Inodes \ inode_bitmap
       /\ th[t].at = "clear" \/ a[th[t].s].size = 0

\* The writers: each holds its object's lock, so the object stays.
Holds(f) ==
  /\ f.key \in names /\ ~Unlinking(f.key)
  /\ f.s \in inode_bitmap /\ ~Making(f.s)
  /\ a[f.s].key = f.key /\ a[f.s].size < NDIRECT

WriteInv ==
  /\ \A t \in Threads : th[t].at \in WriteSteps => Holds(th[t])
  /\ \A t, u \in Threads :
       th[t].at \in WriteSteps /\ th[u].at \in WriteSteps /\ th[t].key = th[u].key
         => t = u

(***************************************************************************)
(* Blocks.                                                                 *)
(***************************************************************************)
LockInv == \A t \in Threads : th[t].at = "set" <=> d_lock = t

BitsInv == \A t \in Threads : th[t].at \in {"set", "link"} => th[t].bit \in Bits

PointersInv ==
  /\ \A s \in inode_bitmap, n \in 0 .. NDIRECT - 1 :
       a[s].direct[n] # NoPtr => a[s].direct[n] \in data_bitmap
  /\ \A s, r \in inode_bitmap, n, q \in 0 .. NDIRECT - 1 :
       a[s].direct[n] # NoPtr /\ a[s].direct[n] = a[r].direct[q]
         => s = r /\ n = q

\* A bit that is neither an object's nor a writer's block, in a word as it was
\* read: it holds every block that is one.
Fresh(bit, word) ==
  /\ \A s \in inode_bitmap, n \in 0 .. NDIRECT - 1 :
       a[s].direct[n] # NoPtr =>
         /\ a[s].direct[n] # bit
         /\ WordOf(a[s].direct[n]) = WordOf(bit) => a[s].direct[n] \in word
  /\ \A u \in Threads : th[u].at = "link" =>
       /\ th[u].bit # bit
       /\ WordOf(th[u].bit) = WordOf(bit) => th[u].bit \in word

TakenInv ==
  /\ \A t \in Threads : th[t].at = "set" => Fresh(th[t].bit, th[t].word)
  /\ \A t \in Threads : th[t].at = "link" =>
       /\ th[t].bit \in data_bitmap
       /\ \A s \in inode_bitmap, n \in 0 .. NDIRECT - 1 :
            a[s].direct[n] # th[t].bit
  /\ \A t, u \in Threads :
       th[t].at = "link" /\ th[u].at = "link" /\ th[t].bit = th[u].bit => t = u

(***************************************************************************)
(* Scans that no create or unlink overlaps.                                *)
(***************************************************************************)
ScanInv ==
  \A t \in Threads : th[t].at \in ScanSteps /\ th[t].quiet =>
    /\ dir = NoThread
    /\ th[t].key \in names
    /\ th[t].low <= written[th[t].key]
    /\ \A s \in inode_bitmap : a[s].key = th[t].key =>
         /\ th[t].at \in {"getattr", "open"} => th[t].i <= s
         /\ th[t].at = "fillup" => th[t].s = s + 2
    /\ th[t].at = "answer" =>
         \/ th[t].result = BadFile
         \/ th[t].result \in th[t].low .. written[th[t].key]

NameInv  == NamesInv /\ InodesInv /\ DirInv /\ WriteInv
BlockInv == LockInv /\ BitsInv /\ (~damaged => PointersInv /\ TakenInv)

Inv == Types /\ NameInv /\ BlockInv /\ ScanInv

-----------------------------------------------------------------------------
\* A search for the first free inode or block ends at the first one.
LEMMA FirstOf ==
  ASSUME NEW S \in SUBSET Nat, S # {}
  PROVE  Min(S) \in S /\ \A y \in S : Min(S) <= y
<1>1. PICK Less : Less = {ss \in Nat \X Nat : ss[1] < ss[2]}
  OBVIOUS
<1>2. IsWellFoundedOn(Less, Nat)
  BY <1>1, NatLessThanWellFounded DEF OpToRel
<1>3. \A x, y \in Nat : y < x => <<y, x>> \in Less
  BY <1>1
<1>4. PICK x \in S : \A y \in S : ~(<<y, x>> \in Less)
  BY <1>2, WFMin
<1>5. \A y \in S : x <= y
  <2>1. \A y \in S : y \in Nat /\ x \in Nat /\ ~(y < x)
    BY <1>3, <1>4
  <2> QED
    BY <2>1
<1> QED
  BY <1>5 DEF Min

\* The first is the one that no other precedes.
LEMMA FirstIs ==
  ASSUME NEW S \in SUBSET Nat, NEW x \in S, \A y \in S : x <= y
  PROVE  Min(S) = x
<1>1. Min(S) \in S /\ \A y \in S : Min(S) <= y
  BY FirstOf
<1>2. Min(S) <= x /\ x <= Min(S) /\ Min(S) \in Nat /\ x \in Nat
  BY <1>1
<1> QED
  BY <1>2

\* A thread's frame has its fields.
LEMMA FrameFields ==
  ASSUME NEW f \in Frame
  PROVE  /\ f.at \in Steps /\ f.key \in Keys \cup {NoKey}
         /\ f.s \in 0 .. INODES + 1 /\ f.i \in Nat
         /\ f.bit \in 0 .. MaxBit /\ f.word \in SUBSET Bits
         /\ f.low \in Nat /\ f.quiet \in BOOLEAN
         /\ f.result \in (0 .. NDIRECT) \cup {NotFound, BadFile}
BY DEF Frame

\* An inode has its fields.
LEMMA InodeFields ==
  ASSUME NEW x \in Inode
  PROVE  /\ x.id \in {0} \cup 2 .. INODES + 1 /\ x.size \in 0 .. NDIRECT
         /\ x.key \in Keys \cup {NoKey, Torn} /\ x.direct \in Pointers
BY DEF Inode

\* Threads outside calls.
LEMMA IdleFrame ==
  /\ Idle \in Frame /\ Index(Idle)
  /\ Idle.at = "idle" /\ Idle.s = 0 /\ Idle.i = 0 /\ Idle.key = NoKey
BY ThreadsAssumptions DEF Idle, Frame, Index, MaxBit, Steps

\* An unused inode has no blocks.
LEMMA FreeInodeType ==
  FreeInode \in Inode /\ FreeInode.direct = [n \in 0 .. NDIRECT - 1 |-> NoPtr]
BY ThreadsAssumptions DEF FreeInode, Inode, Pointers

\* The types are those of TypeOK.
LEMMA TypesOK == Types => TypeOK
<1> SUFFICES ASSUME Types PROVE TypeOK
  OBVIOUS
<1>1. \A t \in Threads :
       /\ th[t].at \in Steps /\ th[t].key \in Keys \cup {NoKey}
       /\ th[t].s \in 0 .. INODES + 1
       /\ th[t].i \in 0 .. INODES \/ th[t].i \in 0 .. NDIRECT
       /\ th[t].bit \in 0 .. DATA_BITS + Skew
       /\ th[t].word \subseteq Bits
       /\ th[t].result \in (0 .. NDIRECT) \cup {NotFound, BadFile}
  <2> SUFFICES ASSUME NEW t \in Threads
               PROVE  /\ th[t].at \in Steps /\ th[t].key \in Keys \cup {NoKey}
                      /\ th[t].s \in 0 .. INODES + 1
                      /\ th[t].i \in 0 .. INODES \/ th[t].i \in 0 .. NDIRECT
                      /\ th[t].bit \in 0 .. DATA_BITS + Skew
                      /\ th[t].word \subseteq Bits
                      /\ th[t].result \in (0 .. NDIRECT) \cup {NotFound, BadFile}
    OBVIOUS
  <2>1. th[t] \in Frame /\ Index(th[t])
    BY DEF Types
  <2> QED
    BY <2>1, FrameFields DEF Index, MaxBit
<1> QED
  BY <1>1 DEF Types, TypeOK, Inode, Pointers, MaxBit

\* All starts empty.
LEMMA ThreadsInit == Init => Inv
<1> SUFFICES ASSUME Init PROVE Inv
  OBVIOUS
<1> USE ThreadsAssumptions
<1>1. /\ inode_bitmap = {} /\ data_bitmap = {} /\ dirty_array = {}
      /\ a = [s \in Inodes |-> FreeInode] /\ backup = 0
      /\ d_lock = NoThread /\ dir = NoThread
      /\ th = [t \in Threads |-> Idle] /\ names = {}
      /\ written = [k \in Keys |-> 0] /\ damaged = FALSE
  BY DEF Init
<1>2. \A t \in Threads : th[t] = Idle /\ th[t].at = "idle"
  BY <1>1, IdleFrame
<1>3. \A s \in Inodes : /\ a[s] = FreeInode /\ a[s].id = 0 /\ a[s].key = NoKey
                        /\ a[s].size = 0 /\ a[s].direct = FreeInode.direct
  BY <1>1 DEF FreeInode
<1>4. Types
  <2>1. th \in [Threads -> Frame] /\ \A t \in Threads : Index(th[t])
    BY <1>1, IdleFrame
  <2>2. a \in [Inodes -> Inode]
    BY <1>1, FreeInodeType
  <2>3. damaged \in BOOLEAN
    BY <1>1
  <2> QED
    BY <1>1, <2>1, <2>2, <2>3 DEF Types, Inodes
<1>5. NameInv
  <2>1. NamesInv /\ InodesInv
    BY <1>1, <1>3 DEF NamesInv, InodesInv
  <2>2. DirInv /\ WriteInv
    BY <1>1, <1>2 DEF DirInv, WriteInv, DirSteps, RemoveSteps, WriteSteps
  <2> QED
    BY <2>1, <2>2 DEF NameInv
<1>6. BlockInv
  BY <1>1, <1>2 DEF BlockInv, LockInv, BitsInv, PointersInv, TakenInv
<1>7. ScanInv
  BY <1>2 DEF ScanInv, ScanSteps
<1> QED
  BY <1>4, <1>5, <1>6, <1>7 DEF Inv

-----------------------------------------------------------------------------
\* An inode in use that no create is filling is the home of its name.
LEMMA HomeOf ==
  ASSUME Types, NamesInv, NEW s \in inode_bitmap, ~Making(s)
  PROVE  s \in Inodes /\ a[s].key \in names /\ Home(a[s].key, s)
<1>1. s \in Inodes /\ a[s].key \in names /\ ~Unlinking(a[s].key)
  BY DEF Types, NamesInv
<1>2. PICK r \in Inodes : Home(a[s].key, r)
  BY <1>1 DEF NamesInv
<1>3. r = s
  BY <1>1, <1>2 DEF Home
<1> QED
  BY <1>1, <1>2, <1>3

\* The scans of create, unlink and write find the home.
LEMMA FirstHome ==
  ASSUME Types, NEW k, NEW s \in Inodes, Home(k, s)
  PROVE  /\ First(k) = s /\ Live(s, k) /\ a[s].id = s + 2
         /\ \A r \in Inodes \ {s} : Live(r, k) => Making(r)
<1>1. s + 2 # 0 /\ \A r \in Inodes : r \in Nat
  BY ThreadsAssumptions DEF Inodes
<1>2. Live(s, k) /\ a[s].id = s + 2
  BY <1>1 DEF Home, Live
<1>3. \A r \in Inodes \ {s} : Live(r, k) => s < r /\ Making(r)
  BY DEF Home, Live
<1>4. PICK S : S = {r \in Inodes : Live(r, k)}
  OBVIOUS
<1>5. S \in SUBSET Nat /\ s \in S /\ \A y \in S : s <= y
  BY <1>1, <1>2, <1>3, <1>4
<1>6. Min(S) = s
  BY <1>5, FirstIs
<1> QED
  BY <1>2, <1>3, <1>4, <1>6 DEF First

\* A name that is not being unlinked has a home, which every scan finds.
LEMMA NameHome ==
  ASSUME Types, NamesInv, NEW k \in names, ~Unlinking(k)
  PROVE  First(k) \in Inodes /\ Home(k, First(k))
<1>1. PICK s \in Inodes : Home(k, s)
  BY DEF NamesInv
<1> QED
  BY <1>1, FirstHome

\* The parts of the invariant about names and blocks do not depend on threads
\* outside create, unlink and write.
LEMMA ScansApart ==
  ASSUME Types, NameInv, BlockInv, NEW t \in Threads,
         UNCHANGED <<store, d_lock, dir, names, written, damaged>>,
         \A u \in Threads \ {t} : th'[u] = th[u],
         th[t].at \in ScanSteps \cup {"idle"},
         th'[t].at \in ScanSteps \cup {"idle"}
  PROVE  NameInv' /\ BlockInv'
<1> USE DEF store
<1>1. /\ th[t].at \notin DirSteps \cup WriteSteps /\ th'[t].at \notin DirSteps \cup WriteSteps
      /\ th[t].at \notin {"strcpy", "set", "link", "alloc", "xor_write"}
      /\ th'[t].at \notin {"strcpy", "set", "link", "alloc", "xor_write"}
      /\ th[t].at \notin RemoveSteps /\ th'[t].at \notin RemoveSteps
  BY DEF ScanSteps, DirSteps, RemoveSteps, WriteSteps
<1>2. dir # t
  BY <1>1 DEF NameInv, DirInv
<1>3. dir # NoThread => dir \in Threads \ {t} /\ th'[dir] = th[dir]
  BY <1>2 DEF Types
<1>4. /\ \A s : Making(s)' <=> Making(s)
      /\ \A s : Removing(s)' <=> Removing(s)
      /\ \A k : Unlinking(k)' <=> Unlinking(k)
  BY <1>3 DEF Making, Removing, Unlinking
<1>5. \A k, s : Home(k, s)' <=> Home(k, s)
  BY <1>4 DEF Home
<1>6. NamesInv' /\ InodesInv'
  BY <1>4, <1>5 DEF NameInv, NamesInv, InodesInv
<1>7. DirInv'
  BY <1>1, <1>2 DEF NameInv, DirInv
<1>8. WriteInv'
  BY <1>1, <1>4 DEF NameInv, WriteInv, Holds
<1>9. LockInv' /\ BitsInv'
  BY <1>1 DEF BlockInv, LockInv, BitsInv
<1>10. ASSUME ~damaged' PROVE PointersInv' /\ TakenInv'
  <2>1. PointersInv /\ TakenInv
    BY <1>10 DEF BlockInv
  <2>2. PointersInv'
    BY <2>1 DEF PointersInv
  <2>3. \A bit, word : Fresh(bit, word) => Fresh(bit, word)'
    BY <1>1 DEF Fresh
  <2>4. TakenInv'
    BY <1>1, <2>1, <2>3 DEF TakenInv
  <2> QED
    BY <2>2, <2>4
<1> QED
  BY <1>6, <1>7, <1>8, <1>9, <1>10 DEF NameInv, BlockInv

\* What ScanInv says of a thread with frame f.
ScanOK(f) ==
  f.at \in ScanSteps /\ f.quiet =>
    /\ dir = NoThread
    /\ f.key \in names
    /\ f.low <= written[f.key]
    /\ \A s \in inode_bitmap : a[s].key = f.key =>
         /\ f.at \in {"getattr", "open"} => f.i <= s
         /\ f.at = "fillup" => f.s = s + 2
    /\ f.at = "answer" =>
         f.result = BadFile \/ f.result \in f.low .. written[f.key]

\* A step of a scan, or of a call that starts or ends one: thread t gets the
\* frame f, and perhaps changes backup.
LEMMA ScanStep ==
  ASSUME Inv, NEW t \in Threads, NEW f \in Frame, Index(f), ScanOK(f),
         th[t].at \in ScanSteps \cup {"idle"}, f.at \in ScanSteps \cup {"idle"},
         th' = [th EXCEPT ![t] = f], backup' \in Inodes,
         UNCHANGED <<store, d_lock, dir, names, written, damaged>>
  PROVE  Inv'
<1>1. th \in [Threads -> Frame] /\ th'[t] = f /\ \A u \in Threads \ {t} : th'[u] = th[u]
  BY DEF Inv, Types
<1>2. Types'
  <2>1. th' \in [Threads -> Frame]
    BY <1>1
  <2>2. \A u \in Threads : Index(th'[u])
    BY <1>1 DEF Inv, Types
  <2> QED
    BY <2>1, <2>2 DEF Inv, Types, store
<1>3. NameInv' /\ BlockInv'
  BY <1>1, ScansApart DEF Inv
<1>4. ScanInv'
  <2>1. \A u \in Threads : ScanOK(th[u])
    BY DEF Inv, ScanInv, ScanOK
  <2>2. \A u \in Threads : ScanOK(th'[u])
    BY <1>1, <2>1
  <2> QED
    BY <2>2 DEF ScanInv, ScanOK, store
<1> QED
  BY <1>2, <1>3, <1>4 DEF Inv

\* While nobody holds the directory's lock, the inode with a name is its home.
LEMMA QuietHome ==
  ASSUME Types, NameInv, dir = NoThread, NEW s \in inode_bitmap
  PROVE  /\ s \in Inodes /\ Home(a[s].key, s) /\ Live(s, a[s].key)
         /\ a[s].id = s + 2 /\ a[s].key # Torn /\ a[s].size = written[a[s].key]
         /\ \A r \in inode_bitmap : a[r].key = a[s].key => r = s
<1>1. \A r : ~Making(r)
  BY DEF Making
<1>2. s \in Inodes /\ Home(a[s].key, s)
  BY <1>1, HomeOf DEF NameInv
<1>3. Live(s, a[s].key) /\ a[s].id = s + 2
  BY <1>2, FirstHome
<1>4. a[s].key # Torn
  BY <1>1, <1>2 DEF NameInv, InodesInv
<1> QED
  BY <1>1, <1>2, <1>3, <1>4 DEF Home, Types

\* A call of getattr or open starts its scan at the first inode.
LEMMA FindStep ==
  ASSUME Inv, NEW t \in Threads, NEW k \in Keys, NEW for \in {"getattr", "open"},
         find_object_id(t, k, for)
  PROVE  Inv'
<1>1. /\ th[t].at = "idle" /\ k \in names
      /\ UNCHANGED <<store, backup, d_lock, dir, names, written, damaged>>
  BY DEF find_object_id
<1>2. PICK f : f = [Idle EXCEPT !.at = for, !.key = k, !.low = written[k],
                                !.quiet = (dir = NoThread)]
  OBVIOUS
<1>3. th' = [th EXCEPT ![t] = f]
  BY <1>2 DEF find_object_id
<1>4. written[k] \in Nat /\ \A s \in inode_bitmap : s \in Nat
  BY ThreadsAssumptions DEF Inv, Types, Inodes
<1>5. f \in Frame
  BY <1>2, <1>4, IdleFrame DEF Frame, Steps
<1>6. f.at = for /\ f.key = k /\ f.low = written[k] /\ f.i = 0
  BY <1>2, IdleFrame DEF Frame
<1>7. f.quiet <=> dir = NoThread
  BY <1>2, IdleFrame DEF Frame, Idle
<1>8. Index(f)
  BY <1>6, ThreadsAssumptions DEF Index
<1>9. ScanOK(f)
  BY <1>1, <1>4, <1>6, <1>7 DEF ScanOK
<1> QED
  BY <1>1, <1>3, <1>5, <1>6, <1>8, <1>9, ScanStep DEF ScanSteps, Inv, Types

\* A call that ends leaves the thread outside calls.
LEMMA ReturnStep ==
  ASSUME Inv, NEW t \in Threads, th[t].at \in ScanSteps, Return(t), backup' \in Inodes,
         UNCHANGED <<store, d_lock, dir, names, written, damaged>>
  PROVE  Inv'
<1>1. ScanOK(Idle)
  BY IdleFrame DEF ScanOK, ScanSteps
<1> QED
  BY <1>1, IdleFrame, ScanStep DEF Return

\* The scan stops at the inode with the name.
LEMMA MatchStep ==
  ASSUME Inv, NEW t \in Threads, scan_match(t)
  PROVE  Inv'
<1>1. PICK s : s = th[t].i
  OBVIOUS
<1>2. /\ th[t].at \in {"getattr", "open"} /\ s \in inode_bitmap
      /\ a[s].id # 0 /\ a[s].key \in {th[t].key, Torn} /\ backup' = s
      /\ UNCHANGED <<store, d_lock, dir, names, written, damaged>>
  BY <1>1 DEF scan_match
<1>3. s \in Inodes /\ th[t] \in Frame /\ a[s] \in Inode
  BY <1>2 DEF Inv, Types
<1>4. CASE th[t].at = "open"
  <2>1. Return(t)
    BY <1>4 DEF scan_match
  <2> QED
    BY <1>2, <1>3, <2>1, ReturnStep DEF ScanSteps
<1>5. CASE th[t].at # "open"
  <2>1. PICK f : f = [th[t] EXCEPT !.at = "fillup", !.s = a[s].id]
    OBVIOUS
  <2>2. th' = [th EXCEPT ![t] = f]
    BY <1>1, <1>5, <2>1 DEF scan_match, Inv, Types
  <2>3. a[s].id \in 0 .. INODES + 1
    BY <1>3, InodeFields, ThreadsAssumptions
  <2>4. f \in Frame /\ f.at = "fillup" /\ f.s = a[s].id /\ f.i = th[t].i
        /\ f.key = th[t].key /\ f.low = th[t].low
    BY <1>3, <2>1, <2>3 DEF Frame, Steps
  <2>5. f.quiet <=> th[t].quiet
    BY <1>3, <2>1 DEF Frame
  <2>6. Index(f)
    BY <1>2, <2>4 DEF Index, Inv, Types
  <2>7. ScanOK(f)
    <3> SUFFICES ASSUME f.quiet PROVE ScanOK(f)
      BY DEF ScanOK
    <3>1. dir = NoThread /\ f.key \in names /\ f.low <= written[f.key]
      BY <1>2, <2>4, <2>5 DEF Inv, ScanInv, ScanSteps
    <3>2. a[s].key = f.key /\ a[s].id = s + 2
          /\ \A r \in inode_bitmap : a[r].key = a[s].key => r = s
      BY <1>2, <2>4, <3>1, QuietHome DEF Inv
    <3> QED
      BY <2>4, <3>1, <3>2 DEF ScanOK
  <2> QED
    BY <1>2, <1>3, <2>2, <2>4, <2>6, <2>7, ScanStep DEF ScanSteps
<1> QED
  BY <1>4, <1>5

\* A scan that nothing overlaps does not run past the object.
LEMMA NextStep ==
  ASSUME Inv, NEW t \in Threads, scan_next(t)
  PROVE  Inv'
<1>1. /\ th[t].at \in {"getattr", "open"} /\ th[t].i < INODES
      /\ ~Live(th[t].i, th[t].key)
      /\ UNCHANGED <<store, backup, d_lock, dir, names, written, damaged>>
  BY DEF scan_next, More
<1>2. th[t] \in Frame /\ th[t].i \in Nat
  BY FrameFields DEF Inv, Types
<1>3. PICK f : f = [th[t] EXCEPT !.i = @ + 1]
  OBVIOUS
<1>4. th' = [th EXCEPT ![t] = f]
  BY <1>3 DEF scan_next, Inv, Types
<1>5. f \in Frame /\ f.at = th[t].at /\ f.i = th[t].i + 1
      /\ f.key = th[t].key /\ f.low = th[t].low
  BY <1>2, <1>3 DEF Frame
<1>6. f.quiet <=> th[t].quiet
  BY <1>2, <1>3 DEF Frame
<1>7. Index(f)
  BY <1>1, <1>2, <1>5, ThreadsAssumptions DEF Index
<1>8. ScanOK(f)
  <2> SUFFICES ASSUME f.quiet PROVE ScanOK(f)
    BY DEF ScanOK
  <2>1. /\ dir = NoThread /\ f.key \in names /\ f.low <= written[f.key]
        /\ \A s \in inode_bitmap : a[s].key = f.key => th[t].i <= s
    BY <1>1, <1>5, <1>6 DEF Inv, ScanInv, ScanSteps
  <2>2. \A s \in inode_bitmap : a[s].key = f.key => th[t].i # s /\ s \in Nat
    BY <1>1, <1>5, <2>1, QuietHome DEF Inv, Inodes
  <2> QED
    BY <1>1, <1>2, <1>5, <2>1, <2>2 DEF ScanOK
<1>9. backup' \in Inodes
  BY <1>1 DEF Inv, Types
<1> QED
  BY <1>1, <1>4, <1>5, <1>7, <1>8, <1>9, ScanStep DEF ScanSteps

\* A scan that nothing overlaps does not end without the object.
LEMMA EndStep ==
  ASSUME Inv, NEW t \in Threads, scan_end(t)
  PROVE  Inv'
<1>1. /\ th[t].at \in {"getattr", "open"} /\ ~(th[t].i < INODES)
      /\ UNCHANGED <<store, backup, d_lock, dir, names, written, damaged>>
  BY DEF scan_end, More
<1>2. th[t] \in Frame /\ th[t].i \in Nat /\ backup' \in Inodes
  BY <1>1, FrameFields DEF Inv, Types
<1>3. CASE th[t].at = "open"
  <2>1. Return(t)
    BY <1>3 DEF scan_end
  <2> QED
    BY <1>1, <1>2, <2>1, ReturnStep DEF ScanSteps
<1>4. CASE th[t].at # "open"
  <2>1. PICK f : f = [th[t] EXCEPT !.at = "answer", !.result = NotFound]
    OBVIOUS
  <2>2. th' = [th EXCEPT ![t] = f]
    BY <1>4, <2>1 DEF scan_end, Inv, Types
  <2>3. f \in Frame /\ f.at = "answer" /\ f.i = th[t].i
    BY <1>2, <2>1 DEF Frame, Steps
  <2>4. f.quiet <=> th[t].quiet
    BY <1>2, <2>1 DEF Frame
  <2>5. Index(f)
    BY <1>1, <2>3 DEF Index, Inv, Types
  <2>6. ~th[t].quiet
    <3> SUFFICES ASSUME th[t].quiet PROVE FALSE
      OBVIOUS
    <3>1. /\ dir = NoThread /\ th[t].key \in names
          /\ \A s \in inode_bitmap : a[s].key = th[t].key => th[t].i <= s
      BY <1>1 DEF Inv, ScanInv, ScanSteps
    <3>2. PICK s \in Inodes : Home(th[t].key, s)
      BY <3>1 DEF Inv, NameInv, NamesInv, Unlinking
    <3>3. s \in inode_bitmap /\ a[s].key = th[t].key /\ s \in Nat /\ s < INODES
      BY <3>2, ThreadsAssumptions DEF Home, Inodes
    <3> QED
      BY <1>1, <1>2, <3>1, <3>3, ThreadsAssumptions
  <2>7. ScanOK(f)
    BY <2>4, <2>6 DEF ScanOK
  <2> QED
    BY <1>1, <1>2, <2>2, <2>3, <2>5, <2>7, ScanStep DEF ScanSteps
<1> QED
  BY <1>3, <1>4

\* fillup_size_details answers with the size of the object found, if backup is
\* still on it.
LEMMA FillupStep ==
  ASSUME Inv, NEW t \in Threads, fillup_size_details(t)
  PROVE  Inv'
<1>1. /\ th[t].at = "fillup"
      /\ UNCHANGED <<store, backup, d_lock, dir, names, written, damaged>>
  BY DEF fillup_size_details
<1>2. th[t] \in Frame /\ backup \in Inodes /\ backup' \in Inodes /\ a[backup] \in Inode
  BY <1>1 DEF Inv, Types
<1>3. PICK x : x = IF SameObject(th[t].s) THEN a[backup].size ELSE BadFile
  OBVIOUS
<1>4. x \in (0 .. NDIRECT) \cup {NotFound, BadFile}
  BY <1>2, <1>3, InodeFields
<1>5. PICK f : f = [th[t] EXCEPT !.at = "answer", !.result = x]
  OBVIOUS
<1>6. th' = [th EXCEPT ![t] = f]
  BY <1>3, <1>5 DEF fillup_size_details, Inv, Types
<1>7. f \in Frame /\ f.at = "answer" /\ f.i = th[t].i /\ f.result = x
      /\ f.key = th[t].key /\ f.low = th[t].low
  BY <1>2, <1>4, <1>5 DEF Frame, Steps
<1>8. f.quiet <=> th[t].quiet
  BY <1>2, <1>5 DEF Frame
<1>9. Index(f)
  BY <1>1, <1>7 DEF Index, Inv, Types
<1>10. ScanOK(f)
  <2> SUFFICES ASSUME f.quiet PROVE ScanOK(f)
    BY DEF ScanOK
  <2>1. /\ dir = NoThread /\ f.key \in names /\ f.low <= written[f.key]
        /\ \A s \in inode_bitmap : a[s].key = f.key => th[t].s = s + 2
    BY <1>1, <1>7, <1>8 DEF Inv, ScanInv, ScanSteps
  <2>2. x = BadFile \/ x \in f.low .. written[f.key]
    <3>1. CASE SameObject(th[t].s)
      <4>1. PICK s \in Inodes : Home(f.key, s)
        BY <2>1 DEF Inv, NameInv, NamesInv, Unlinking
      <4>2. s \in inode_bitmap /\ a[s].key = f.key /\ a[s].size = written[f.key]
        BY <4>1 DEF Home
      <4>3. a[backup].id = s + 2 /\ a[backup].id \in {0, backup + 2}
        BY <1>2, <2>1, <3>1, <4>2 DEF SameObject, Inv, NameInv, InodesInv
      <4>4. backup = s
        BY <1>2, <4>3, ThreadsAssumptions DEF Inodes
      <4>5. written[f.key] \in Nat /\ f.low \in Nat
        BY <1>7, <2>1, FrameFields, ThreadsAssumptions DEF Inv, Types
      <4> QED
        BY <1>3, <2>1, <3>1, <4>2, <4>4, <4>5
    <3>2. CASE ~SameObject(th[t].s)
      BY <1>3, <3>2
    <3> QED
      BY <3>1, <3>2
  <2> QED
    BY <1>7, <2>1, <2>2 DEF ScanOK
<1> QED
  BY <1>1, <1>2, <1>6, <1>7, <1>9, <1>10, ScanStep DEF ScanSteps

-----------------------------------------------------------------------------
\* A step of a thread that does not hold the directory's lock changes nothing
\* of what its holder does.
LEMMA DirApart ==
  ASSUME Types, DirInv, NEW t \in Threads, dir' = dir, th[t].at \notin DirSteps,
         \A u \in Threads \ {t} : th'[u] = th[u]
  PROVE  /\ dir # t
         /\ \A s : Making(s)' <=> Making(s)
         /\ \A s : Removing(s)' <=> Removing(s)
         /\ \A k : Unlinking(k)' <=> Unlinking(k)
<1>1. dir # t
  BY DEF DirInv
<1>2. dir # NoThread => dir \in Threads \ {t} /\ th'[dir] = th[dir]
  BY <1>1 DEF Types
<1> QED
  BY <1>1, <1>2 DEF Making, Removing, Unlinking

\* Scans go on undisturbed while names and keys stay and sizes grow.
LEMMA ScanKept ==
  ASSUME Types, ScanInv, NEW t \in Threads, th'[t].at \notin ScanSteps,
         \A u \in Threads \ {t} : th'[u] = th[u],
         dir' = dir, names' = names, inode_bitmap' = inode_bitmap,
         \A s \in inode_bitmap : a'[s].key = a[s].key,
         written' \in [Keys -> 0 .. NDIRECT], \A k \in names : written[k] <= written'[k]
  PROVE  ScanInv'
<1> SUFFICES ASSUME NEW u \in Threads, th'[u].at \in ScanSteps, th'[u].quiet
             PROVE  /\ dir' = NoThread
                    /\ th'[u].key \in names'
                    /\ th'[u].low <= written'[th'[u].key]
                    /\ \A s \in inode_bitmap' : a'[s].key = th'[u].key =>
                         /\ th'[u].at \in {"getattr", "open"} => th'[u].i <= s
                         /\ th'[u].at = "fillup" => th'[u].s = s + 2
                    /\ th'[u].at = "answer" =>
                         \/ th'[u].result = BadFile
                         \/ th'[u].result \in th'[u].low .. written'[th'[u].key]
  BY DEF ScanInv
<1>1. u # t /\ th'[u] = th[u] /\ th[u] \in Frame
  BY DEF Types
<1>2. PICK f : f = th[u]
  OBVIOUS
<1>3. /\ dir = NoThread /\ f.key \in names
      /\ f.low <= written[f.key]
      /\ f.at = "answer" => f.result = BadFile \/ f.result \in f.low .. written[f.key]
      /\ \A s \in inode_bitmap : a[s].key = f.key =>
                         /\ f.at \in {"getattr", "open"} => f.i <= s
                         /\ f.at = "fillup" => f.s = s + 2
  BY <1>1, <1>2 DEF ScanInv
<1>4. PICK w, v : w = written[f.key] /\ v = written'[f.key]
  OBVIOUS
<1>5. w \in Nat /\ v \in Nat /\ w <= v /\ f.low \in Nat
  BY <1>1, <1>2, <1>3, <1>4, FrameFields, ThreadsAssumptions DEF Types
<1>6. f.low <= v /\ (f.at = "answer" => f.result = BadFile \/ f.result \in f.low .. v)
  BY <1>3, <1>4, <1>5
<1> QED
  BY <1>1, <1>2, <1>3, <1>4, <1>6

\* The steps of a write before its last one, which change no inode.
LEMMA WriterStep ==
  ASSUME Inv, NEW t \in Threads, NEW f \in Frame, Index(f), f.at \in WriteSteps,
         th[t].at \notin DirSteps, th' = [th EXCEPT ![t] = f],
         UNCHANGED <<inode_bitmap, a, backup, dir, names, written, damaged>>,
         data_bitmap' \subseteq Bits,
         dirty_array' \subseteq {BlockOf(s) : s \in Inodes},
         d_lock' \in Threads \cup {NoThread}
  PROVE  /\ Types' /\ NamesInv' /\ InodesInv' /\ DirInv' /\ ScanInv'
         /\ th'[t] = f /\ \A u \in Threads \ {t} : th'[u] = th[u]
<1>1. th \in [Threads -> Frame] /\ th'[t] = f /\ \A u \in Threads \ {t} : th'[u] = th[u]
  BY DEF Inv, Types
<1>2. f.at \notin DirSteps \cup ScanSteps
      /\ f.at # "strcpy" /\ f.at \notin RemoveSteps
  BY DEF WriteSteps, DirSteps, RemoveSteps, ScanSteps
<1>3. Types'
  <2>1. th' \in [Threads -> Frame]
    BY <1>1
  <2>2. \A u \in Threads : Index(th'[u])
    BY <1>1 DEF Inv, Types
  <2> QED
    BY <2>1, <2>2 DEF Inv, Types
<1>4. /\ dir # t
      /\ \A s : Making(s)' <=> Making(s)
      /\ \A s : Removing(s)' <=> Removing(s)
      /\ \A k : Unlinking(k)' <=> Unlinking(k)
  BY <1>1, DirApart DEF Inv, NameInv
<1>5. \A k, s : Home(k, s)' <=> Home(k, s)
  BY <1>4 DEF Home
<1>6. NamesInv' /\ InodesInv'
  BY <1>4, <1>5 DEF Inv, NameInv, NamesInv, InodesInv
<1>7. DirInv'
  BY <1>1, <1>2, <1>4 DEF Inv, NameInv, DirInv
<1>8. ScanInv'
  <2>1. \A k \in names : written[k] <= written'[k]
    BY ThreadsAssumptions DEF Inv, Types
  <2> QED
    BY <1>1, <1>2, <2>1, ScanKept DEF Inv, Types
<1> QED
  BY <1>1, <1>3, <1>6, <1>7, <1>8

\* objstore_write finds the object of the name.
LEMMA WriteStep ==
  ASSUME Inv, NEW t \in Threads, NEW k \in Keys, objstore_write(t, k)
  PROVE  Inv'
<1>1. PICK s : s = First(k)
  OBVIOUS
<1>2. /\ th[t].at = "idle" /\ k \in names
      /\ ~Writing(k) /\ ~Unlinking(k)
      /\ a[s].size < NDIRECT
      /\ dirty_array' = dirty_array \cup {BlockOf(s)}
      /\ UNCHANGED <<inode_bitmap, a, data_bitmap, backup, d_lock, dir, names, written, damaged>>
  BY <1>1 DEF objstore_write, Unlinking
<1>3. s \in Inodes /\ Home(k, s)
  BY <1>1, <1>2, NameHome DEF Inv, NameInv
<1>4. PICK f : f = [Idle EXCEPT !.at = "alloc", !.key = k, !.s = s]
  OBVIOUS
<1>5. th' = [th EXCEPT ![t] = f]
  BY <1>1, <1>4 DEF objstore_write
<1>6. s \in 0 .. INODES + 1
  BY <1>3, ThreadsAssumptions DEF Inodes
<1>7. f \in Frame
  BY <1>4, <1>6, IdleFrame DEF Frame, Steps
<1>8. f.at = "alloc" /\ f.key = k /\ f.s = s /\ f.i = 0
  BY <1>4, IdleFrame DEF Frame
<1>9. Index(f)
  BY <1>8, ThreadsAssumptions DEF Index
<1>10. dirty_array' \subseteq {BlockOf(r) : r \in Inodes}
  BY <1>2, <1>3 DEF Inv, Types
<1>11. /\ Types' /\ NamesInv' /\ InodesInv' /\ DirInv' /\ ScanInv'
       /\ th'[t] = f /\ \A u \in Threads \ {t} : th'[u] = th[u]
  <2>1. data_bitmap' \subseteq Bits /\ d_lock' \in Threads \cup {NoThread}
    BY <1>2 DEF Inv, Types
  <2>2. f.at \in WriteSteps /\ th[t].at \notin DirSteps
    BY <1>2, <1>8 DEF WriteSteps, DirSteps, RemoveSteps
  <2> QED
    BY <1>2, <1>5, <1>7, <1>9, <1>10, <2>1, <2>2, WriterStep
<1>12. /\ \A r : Making(r)' <=> Making(r)
       /\ \A r : Unlinking(r)' <=> Unlinking(r)
  <2>1. th[t].at \notin DirSteps
    BY <1>2 DEF DirSteps, RemoveSteps
  <2> QED
    BY <1>2, <1>11, <2>1, DirApart DEF Inv, NameInv
<1>13. WriteInv'
  <2>1. /\ k \in names /\ ~Unlinking(k) /\ s \in inode_bitmap /\ ~Making(s)
        /\ a[s].key = k /\ a[s].size < NDIRECT
    BY <1>2, <1>3 DEF Home
  <2>2. \A u \in Threads : th[u].at \in WriteSteps => th[u].key # k
    BY <1>2 DEF Writing, WriteSteps
  <2>5. Holds(f)
    BY <1>8, <2>1 DEF Holds
  <2>3. \A g : Holds(g) => Holds(g)'
    BY <1>2, <1>12 DEF Holds
  <2>4. \A u, v \in Threads :
       th'[u].at \in WriteSteps /\ th'[v].at \in WriteSteps /\ th'[u].key = th'[v].key
         => u = v
    BY <1>8, <1>11, <2>2 DEF Inv, NameInv, WriteInv
  <2> QED
    BY <1>11, <2>3, <2>4, <2>5 DEF Inv, NameInv, WriteInv
<1>14. LockInv' /\ BitsInv'
  BY <1>2, <1>8, <1>11 DEF Inv, BlockInv, LockInv, BitsInv
<1>15. ASSUME ~damaged' PROVE PointersInv' /\ TakenInv'
  <2>1. PointersInv /\ TakenInv
    BY <1>2, <1>15 DEF Inv, BlockInv
  <2>2. PointersInv'
    BY <1>2, <2>1 DEF PointersInv
  <2>3. \A bit, word : Fresh(bit, word) => Fresh(bit, word)'
    BY <1>2, <1>8, <1>11 DEF Fresh
  <2>4. TakenInv'
    BY <1>2, <1>8, <1>11, <2>1, <2>3 DEF TakenInv
  <2> QED
    BY <2>2, <2>4
<1> QED
  BY <1>11, <1>13, <1>14, <1>15 DEF Inv, NameInv, BlockInv

\* A writer that goes on keeps its object.
LEMMA WriterGoesOn ==
  ASSUME Inv, NEW t \in Threads, NEW f \in Frame, th' = [th EXCEPT ![t] = f],
         th[t].at \in WriteSteps, f.key = th[t].key, f.s = th[t].s,
         f.at \in WriteSteps,
         UNCHANGED <<inode_bitmap, a, dir, names>>
  PROVE  WriteInv'
<1>1. th \in [Threads -> Frame] /\ th'[t] = f /\ \A u \in Threads \ {t} : th'[u] = th[u]
  BY DEF Inv, Types
<1>2. th[t].at \notin DirSteps
  BY DEF WriteSteps, DirSteps, RemoveSteps
<1>3. /\ \A r : Making(r)' <=> Making(r)
      /\ \A r : Unlinking(r)' <=> Unlinking(r)
  BY <1>1, <1>2, DirApart DEF Inv, NameInv
<1>4. \A g : Holds(g) => Holds(g)'
  BY <1>3 DEF Holds
<1>5. Holds(f)
  BY DEF Inv, NameInv, WriteInv, Holds
<1>6. \A u \in Threads : (th'[u].at \in WriteSteps <=> th[u].at \in WriteSteps)
                         /\ th'[u].key = th[u].key
  BY <1>1
<1> QED
  BY <1>1, <1>4, <1>5, <1>6 DEF Inv, NameInv, WriteInv

\* free_data_block takes the first block whose bit is clear.
LEMMA TakeStep ==
  ASSUME Inv, NEW t \in Threads, free_data_block(t)
  PROVE  Inv'
<1>1. PICK bit : bit = Min(Bits \ data_bitmap)
  OBVIOUS
<1>2. /\ th[t].at = "alloc" /\ d_lock = NoThread /\ d_lock' = t
      /\ UNCHANGED <<store, backup, dir, names, written, damaged>>
  BY DEF free_data_block
<1>3. bit \in Bits \ data_bitmap
  <2>1. PICK S : S = Bits \ data_bitmap
    OBVIOUS
  <2>2. S \in SUBSET Nat /\ S # {}
    BY <2>1 DEF free_data_block, Bits
  <2> QED
    BY <1>1, <2>1, <2>2, FirstOf
<1>4. PICK word : word = InWord(WordOf(bit), data_bitmap)
  OBVIOUS
<1>5. word \in SUBSET Bits /\ bit \in 0 .. MaxBit
  <2>1. word \subseteq data_bitmap /\ data_bitmap \subseteq Bits
    BY <1>4 DEF InWord, Inv, Types
  <2>2. bit \in 0 .. MaxBit
    BY <1>3, ThreadsAssumptions DEF Bits, MaxBit
  <2> QED
    BY <2>1, <2>2
<1>6. PICK f : f = [th[t] EXCEPT !.at = "set", !.bit = bit, !.word = word]
  OBVIOUS
<1>7. th[t] \in Frame /\ Index(th[t])
  BY DEF Inv, Types
<1>8. th' = [th EXCEPT ![t] = f]
  BY <1>1, <1>4, <1>6 DEF free_data_block, Inv, Types
<1>9. f \in Frame
  BY <1>5, <1>6, <1>7 DEF Frame, Steps
<1>10. /\ f.at = "set" /\ f.bit = bit /\ f.word = word /\ f.key = th[t].key
       /\ f.s = th[t].s /\ f.i = th[t].i
  BY <1>6, <1>7 DEF Frame
<1>11. Index(f)
  BY <1>2, <1>7, <1>10 DEF Index
<1>12. th[t].at \in WriteSteps /\ f.at \in WriteSteps /\ th[t].at \notin DirSteps
  BY <1>2, <1>10 DEF WriteSteps, DirSteps, RemoveSteps
<1>13. /\ Types' /\ NamesInv' /\ InodesInv' /\ DirInv' /\ ScanInv'
       /\ th'[t] = f /\ \A u \in Threads \ {t} : th'[u] = th[u]
  <2>1. /\ data_bitmap' \subseteq Bits /\ d_lock' \in Threads \cup {NoThread}
        /\ dirty_array' \subseteq {BlockOf(s) : s \in Inodes}
    BY <1>2 DEF Inv, Types, store
  <2> QED
    BY <1>2, <1>8, <1>9, <1>11, <1>12, <2>1, WriterStep DEF store
<1>14. WriteInv'
  BY <1>2, <1>8, <1>9, <1>10, <1>12, WriterGoesOn DEF store
<1>18. \A u \in Threads : th[u].at # "set"
  BY <1>2, ThreadsAssumptions DEF Inv, BlockInv, LockInv
<1>15. LockInv' /\ BitsInv'
  BY <1>2, <1>3, <1>10, <1>13, <1>18 DEF Inv, BlockInv, LockInv, BitsInv
<1>16. ASSUME ~damaged' PROVE PointersInv' /\ TakenInv'
  <2>1. PointersInv /\ TakenInv
    BY <1>2, <1>16 DEF Inv, BlockInv
  <2>2. PointersInv'
    BY <1>2, <2>1 DEF store, PointersInv
  <2>3. Fresh(bit, word)
    BY <1>3, <1>4, <2>1 DEF Fresh, InWord, PointersInv, TakenInv
  <2>4. Fresh(bit, word)'
    BY <1>2, <1>10, <1>13, <2>3 DEF store, Fresh
  <2>5. TakenInv'
    BY <1>2, <1>10, <1>13, <1>18, <2>1, <2>4 DEF store, TakenInv
  <2> QED
    BY <2>2, <2>5
<1> QED
  BY <1>13, <1>14, <1>15, <1>16 DEF Inv, NameInv, BlockInv

\* The word that free_data_block writes back may be older than a change of
\* destroy_object, but every block that has an owner is in it.
LEMMA SetStep ==
  ASSUME Inv, NEW t \in Threads, free_data_block_set(t)
  PROVE  Inv'
<1>1. /\ th[t].at = "set" /\ d_lock' = NoThread
      /\ UNCHANGED <<inode_bitmap, a, dirty_array, backup, dir, names, written, damaged>>
  BY DEF free_data_block_set
<1>2. PICK bit : bit = th[t].bit
  OBVIOUS
<1>3. bit \in Bits
  BY <1>1, <1>2 DEF Inv, BlockInv, BitsInv
<1>4. /\ data_bitmap' \subseteq Bits /\ bit \in data_bitmap'
      /\ \A b \in data_bitmap \cap Bits :
           (WordOf(b) = WordOf(bit) => b \in th[t].word) => b \in data_bitmap'
  BY <1>2, <1>3 DEF free_data_block_set, StoreWord, InWord
<1>5. PICK f : f = [th[t] EXCEPT !.at = "link", !.word = {}]
  OBVIOUS
<1>6. th[t] \in Frame /\ Index(th[t])
  BY DEF Inv, Types
<1>7. th' = [th EXCEPT ![t] = f]
  BY <1>5 DEF free_data_block_set, Inv, Types
<1>8. f \in Frame
  BY <1>5, <1>6 DEF Frame, Steps
<1>9. f.at = "link" /\ f.bit = bit /\ f.key = th[t].key /\ f.s = th[t].s /\ f.i = th[t].i
  BY <1>2, <1>5, <1>6 DEF Frame
<1>10. Index(f)
  BY <1>1, <1>6, <1>9 DEF Index
<1>11. th[t].at \in WriteSteps /\ f.at \in WriteSteps /\ th[t].at \notin DirSteps
  BY <1>1, <1>9 DEF WriteSteps, DirSteps, RemoveSteps
<1>12. /\ Types' /\ NamesInv' /\ InodesInv' /\ DirInv' /\ ScanInv'
       /\ th'[t] = f /\ \A u \in Threads \ {t} : th'[u] = th[u]
  <2>2. /\ data_bitmap' \subseteq Bits /\ d_lock' \in Threads \cup {NoThread}
        /\ dirty_array' \subseteq {BlockOf(s) : s \in Inodes}
    BY <1>1, <1>4 DEF Inv, Types
  <2> QED
    BY <1>1, <1>7, <1>8, <1>10, <1>11, <2>2, WriterStep
<1>13. WriteInv'
  BY <1>1, <1>7, <1>8, <1>9, <1>11, WriterGoesOn
<1>14. \A u \in Threads \ {t} : th[u].at # "set"
  BY <1>1 DEF Inv, BlockInv, LockInv
<1>15. LockInv' /\ BitsInv'
  BY <1>1, <1>3, <1>9, <1>12, <1>14, ThreadsAssumptions
     DEF Inv, BlockInv, LockInv, BitsInv
<1>16. ASSUME ~damaged' PROVE PointersInv' /\ TakenInv'
  <2>1. PointersInv /\ TakenInv /\ Fresh(bit, th[t].word)
    BY <1>1, <1>2, <1>16 DEF Inv, BlockInv, TakenInv
  <2>2. \A s \in inode_bitmap, n \in 0 .. NDIRECT - 1 :
          a[s].direct[n] # NoPtr => a[s].direct[n] \in data_bitmap'
    <3> SUFFICES ASSUME NEW s \in inode_bitmap, NEW n \in 0 .. NDIRECT - 1,
                        a[s].direct[n] # NoPtr
                 PROVE  a[s].direct[n] \in data_bitmap'
      OBVIOUS
    <3>1. PICK b : b = a[s].direct[n]
      OBVIOUS
    <3>2. b \in data_bitmap /\ (WordOf(b) = WordOf(bit) => b \in th[t].word)
      BY <2>1, <3>1 DEF PointersInv, Fresh
    <3>3. b \in Bits
      BY <3>2 DEF Inv, Types
    <3> QED
      BY <1>4, <3>1, <3>2, <3>3
  <2>3. PointersInv'
    BY <1>1, <2>1, <2>2 DEF PointersInv
  <2>4. \A u \in Threads : th[u].at = "link" => th[u].bit # bit /\ th[u].bit \in data_bitmap'
    <3> SUFFICES ASSUME NEW u \in Threads, th[u].at = "link"
                 PROVE  th[u].bit # bit /\ th[u].bit \in data_bitmap'
      OBVIOUS
    <3>1. PICK b : b = th[u].bit
      OBVIOUS
    <3>2. b # bit /\ b \in data_bitmap /\ (WordOf(b) = WordOf(bit) => b \in th[t].word)
      BY <2>1, <3>1 DEF TakenInv, Fresh
    <3>3. b \in Bits
      BY <3>2 DEF Inv, Types
    <3> QED
      BY <1>4, <3>1, <3>2, <3>3
  <2>5. \A s \in inode_bitmap, n \in 0 .. NDIRECT - 1 : a[s].direct[n] # bit
    <3>1. bit # NoPtr
      BY <1>3, ThreadsAssumptions DEF Bits, NoPtr
    <3> QED
      BY <2>1, <3>1 DEF Fresh
  <2>6. TakenInv'
    <3>1. \A u \in Threads : th'[u].at # "set"
      BY <1>9, <1>12, <1>14
    <3>2. \A u \in Threads : th'[u].at = "link" =>
            /\ th'[u].bit \in data_bitmap'
            /\ \A s \in inode_bitmap, n \in 0 .. NDIRECT - 1 : a[s].direct[n] # th'[u].bit
      BY <1>4, <1>9, <1>12, <2>1, <2>4, <2>5 DEF TakenInv
    <3>3. \A u, v \in Threads :
            th'[u].at = "link" /\ th'[v].at = "link" /\ th'[u].bit = th'[v].bit => u = v
      BY <1>9, <1>12, <2>1, <2>4 DEF TakenInv
    <3> QED
      BY <1>1, <3>1, <3>2, <3>3 DEF TakenInv
  <2> QED
    BY <2>3, <2>6
<1> QED
  BY <1>12, <1>13, <1>15, <1>16 DEF Inv, NameInv, BlockInv

\* The last step of a write puts the block into the object and counts it.
LEMMA LinkStep ==
  ASSUME Inv, NEW t \in Threads, write_link(t)
  PROVE  Inv'
<1>1. PICK s, k, bit : s = th[t].s /\ k = th[t].key /\ bit = th[t].bit
  OBVIOUS
<1>2. /\ th[t].at = "link" /\ Return(t)
      /\ written' = [written EXCEPT ![k] = @ + 1]
      /\ UNCHANGED <<inode_bitmap, data_bitmap, dirty_array, backup, d_lock, dir, names,
                     damaged>>
  BY <1>1 DEF write_link
<1>3. /\ k \in names /\ ~Unlinking(k) /\ s \in inode_bitmap /\ ~Making(s)
      /\ a[s].key = k /\ a[s].size < NDIRECT
  BY <1>1, <1>2 DEF Inv, NameInv, WriteInv, WriteSteps, Holds
<1>4. s \in Inodes /\ Home(k, s) /\ k \in Keys
  BY <1>3, HomeOf DEF Inv, NameInv, Types
<1>5. bit \in Bits /\ bit # NoPtr
  <2>1. bit \in Bits
    BY <1>1, <1>2 DEF Inv, BlockInv, BitsInv
  <2> QED
    BY <2>1, ThreadsAssumptions DEF Bits, NoPtr
<1>6. PICK n : n = a[s].size
  OBVIOUS
<1>7. a[s] \in Inode /\ n \in 0 .. NDIRECT - 1 /\ written[k] = n
  <2>1. a[s] \in Inode
    BY <1>4 DEF Inv, Types
  <2> QED
    BY <1>3, <1>4, <1>6, <2>1, InodeFields, ThreadsAssumptions DEF Home
<1>8. PICK x : x = [a[s] EXCEPT !.size = n + 1, !.direct[n] = bit]
  OBVIOUS
<1>9. a' = [a EXCEPT ![s] = x]
  BY <1>1, <1>6, <1>8 DEF write_link, Inv, Types
<1>10. /\ x.id = a[s].id /\ x.key = a[s].key /\ x.size = n + 1
       /\ x.direct = [a[s].direct EXCEPT ![n] = bit]
  BY <1>7, <1>8 DEF Inode
<1>11. x \in Inode
  <2>1. n + 1 \in 0 .. NDIRECT
    BY <1>7, ThreadsAssumptions
  <2>2. [a[s].direct EXCEPT ![n] = bit] \in Pointers
    BY <1>5, <1>7, InodeFields DEF Pointers
  <2> QED
    BY <1>7, <1>8, <2>1, <2>2 DEF Inode
<1>12. /\ a \in [Inodes -> Inode] /\ a' \in [Inodes -> Inode] /\ a'[s] = x
       /\ \A r \in Inodes \ {s} : a'[r] = a[r]
  BY <1>4, <1>9, <1>11 DEF Inv, Types
<1>13. /\ a[s].direct \in Pointers /\ x.direct[n] = bit
       /\ \A q \in (0 .. NDIRECT - 1) \ {n} : x.direct[q] = a[s].direct[q]
  BY <1>7, <1>10, InodeFields DEF Pointers
<1>14. /\ written' \in [Keys -> 0 .. NDIRECT] /\ written'[k] = n + 1
       /\ \A j \in Keys \ {k} : written'[j] = written[j]
  BY <1>2, <1>4, <1>7, ThreadsAssumptions DEF Inv, Types
<1>15. /\ th'[t] = Idle /\ th'[t].at = "idle" /\ \A u \in Threads \ {t} : th'[u] = th[u]
  BY <1>2, IdleFrame DEF Return, Inv, Types
<1>16. Types'
  <2>1. th' \in [Threads -> Frame] /\ \A u \in Threads : Index(th'[u])
    BY <1>2, <1>15, IdleFrame DEF Return, Inv, Types
  <2> QED
    BY <1>2, <1>12, <1>14, <2>1 DEF Inv, Types
<1>17. /\ dir # t
       /\ \A r : Making(r)' <=> Making(r)
       /\ \A r : Removing(r)' <=> Removing(r)
       /\ \A j : Unlinking(j)' <=> Unlinking(j)
  <2>1. th[t].at \notin DirSteps
    BY <1>2 DEF DirSteps, RemoveSteps
  <2> QED
    BY <1>2, <1>15, <2>1, DirApart DEF Inv, NameInv
<1>18. \A r \in Inodes : a'[r].key = a[r].key /\ a'[r].id = a[r].id
  BY <1>10, <1>12
<1>19. NamesInv'
  <2>1. Home(k, s)'
    BY <1>2, <1>4, <1>10, <1>12, <1>14, <1>17, <1>18 DEF Home
  <2>2. \A j \in names \ {k}, r \in Inodes : Home(j, r) => Home(j, r)'
    <3> SUFFICES ASSUME NEW j \in names \ {k}, NEW r \in Inodes, Home(j, r)
                 PROVE  Home(j, r)'
      OBVIOUS
    <3>1. r # s /\ a'[r] = a[r] /\ written'[j] = written[j]
      BY <1>3, <1>12, <1>14 DEF Home, Inv, Types
    <3> QED
      BY <1>2, <1>17, <1>18, <3>1 DEF Home
  <2>3. \A j \in names : ~Unlinking(j) => \E r \in Inodes : Home(j, r)'
    BY <1>4, <2>1, <2>2 DEF Inv, NameInv, NamesInv
  <2>4. \A r \in inode_bitmap : a'[r].key = a[r].key
    BY <1>18 DEF Inv, Types
  <2> QED
    BY <1>2, <1>17, <2>3, <2>4 DEF Inv, NameInv, NamesInv
<1>20. InodesInv'
  BY <1>2, <1>3, <1>12, <1>17, <1>18 DEF Inv, NameInv, InodesInv
<1>21. DirInv'
  <2>1. \A u \in Threads : th[u].at = "strcpy" => u # t /\ th[u].s \in Inodes
    BY <1>2 DEF Inv, NameInv, DirInv, Types
  <2>2. \A u \in Threads : th[u].at \in RemoveSteps => u # t /\ th[u].s # s /\ th[u].s \in Inodes
    BY <1>2, <1>3 DEF Inv, NameInv, DirInv, RemoveSteps
  <2>3. th'[t].at \notin DirSteps /\ th[t].at \notin DirSteps
        /\ th'[t].at # "strcpy" /\ th'[t].at \notin RemoveSteps
    BY <1>2, <1>15 DEF DirSteps, RemoveSteps
  <2> QED
    BY <1>2, <1>12, <1>15, <1>18, <2>1, <2>2, <2>3 DEF Inv, NameInv, DirInv
<1>22. WriteInv'
  <2>1. \A u \in Threads \ {t} : th[u].at \in WriteSteps => th[u].key # k /\ Holds(th[u])
    BY <1>1, <1>2 DEF Inv, NameInv, WriteInv, WriteSteps
  <2>2. \A g : g.key # k /\ Holds(g) => Holds(g)'
    <3> SUFFICES ASSUME NEW g, g.key # k, Holds(g) PROVE Holds(g)'
      OBVIOUS
    <3>1. g.s \in Inodes /\ g.s # s
      BY <1>3 DEF Holds, Inv, Types
    <3> QED
      BY <1>2, <1>12, <1>17, <3>1 DEF Holds
  <2>3. th'[t].at \notin WriteSteps
    BY <1>15 DEF WriteSteps
  <2> QED
    BY <1>15, <2>1, <2>2, <2>3 DEF Inv, NameInv, WriteInv
<1>23. LockInv' /\ BitsInv'
  BY <1>2, <1>15 DEF Inv, BlockInv, LockInv, BitsInv
<1>24. \A r \in inode_bitmap, q \in 0 .. NDIRECT - 1 :
         a'[r].direct[q] = IF r = s /\ q = n THEN bit ELSE a[r].direct[q]
  BY <1>12, <1>13 DEF Inv, Types
<1>25. ASSUME ~damaged' PROVE PointersInv' /\ TakenInv'
  <2>1. PointersInv /\ TakenInv
    BY <1>2, <1>25 DEF Inv, BlockInv
  <2>2. /\ bit \in data_bitmap
        /\ \A r \in inode_bitmap, q \in 0 .. NDIRECT - 1 : a[r].direct[q] # bit
        /\ \A u \in Threads \ {t} : th[u].at = "link" => th[u].bit # bit
    BY <1>1, <1>2, <2>1 DEF TakenInv
  <2>3. \A r \in inode_bitmap, q \in 0 .. NDIRECT - 1 :
          a'[r].direct[q] # NoPtr => a'[r].direct[q] \in data_bitmap
    BY <1>24, <2>1, <2>2 DEF PointersInv
  <2>4. \A r, z \in inode_bitmap, q, p \in 0 .. NDIRECT - 1 :
          a'[r].direct[q] # NoPtr /\ a'[r].direct[q] = a'[z].direct[p] => r = z /\ q = p
    BY <1>5, <1>24, <2>1, <2>2 DEF PointersInv
  <2>5. PointersInv'
    BY <1>2, <2>3, <2>4 DEF PointersInv
  <2>6. \A u \in Threads : th'[u].at = "link" =>
          /\ th'[u].bit \in data_bitmap
          /\ \A r \in inode_bitmap, q \in 0 .. NDIRECT - 1 : a'[r].direct[q] # th'[u].bit
    BY <1>15, <1>24, <2>1, <2>2 DEF TakenInv
  <2>7. \A u \in Threads : th'[u].at = "set" => Fresh(th[u].bit, th[u].word)'
    <3> SUFFICES ASSUME NEW u \in Threads, th'[u].at = "set"
                 PROVE  Fresh(th[u].bit, th[u].word)'
      OBVIOUS
    <3>1. PICK b, word : b = th[u].bit /\ word = th[u].word
      OBVIOUS
    <3>2. th'[u].bit = b /\ th'[u].word = word /\ Fresh(b, word)
      BY <1>15, <2>1, <3>1 DEF TakenInv
    <3>3. bit # b /\ (WordOf(bit) = WordOf(b) => bit \in word)
      BY <1>1, <1>2, <3>2 DEF Fresh
    <3>4. Fresh(b, word)'
      BY <1>2, <1>15, <1>24, <3>2, <3>3 DEF Fresh
    <3> QED
      BY <3>2, <3>4 DEF Fresh
  <2>8. TakenInv'
    BY <1>2, <1>15, <2>1, <2>6, <2>7 DEF TakenInv
  <2> QED
    BY <2>5, <2>8
<1>28. ScanInv'
  <2>1. \A j \in names : written[j] <= written'[j]
    BY <1>7, <1>14, ThreadsAssumptions DEF Inv, Types
  <2>2. \A r \in inode_bitmap : a'[r].key = a[r].key
    BY <1>18 DEF Inv, Types
  <2>3. th'[t].at \notin ScanSteps
    BY <1>15 DEF ScanSteps
  <2> QED
    BY <1>2, <1>14, <1>15, <2>1, <2>2, <2>3, ScanKept DEF Inv
<1> QED
  BY <1>16, <1>19, <1>20, <1>21, <1>22, <1>23, <1>25, <1>28
     DEF Inv, NameInv, BlockInv

-----------------------------------------------------------------------------
\* While a create or unlink is under way every scan counts as overlapped.
LEMMA NoQuietScan ==
  ASSUME ScanInv, dir # NoThread, NEW t \in Threads, th'[t].at \notin ScanSteps,
         \A u \in Threads \ {t} : th'[u] = th[u]
  PROVE  ScanInv'
BY DEF ScanInv

\* A block with an owner, and a step that clears the bit of none.
Owned(b) ==
  \/ \E s \in inode_bitmap, n \in 0 .. NDIRECT - 1 : a[s].direct[n] = b
  \/ \E u \in Threads : th[u].at = "link" /\ th[u].bit = b

OwnedStay ==
  ~damaged' => ~damaged /\ \A b \in data_bitmap : Owned(b) => b \in data_bitmap'

\* Steps that leave data_bitmap alone clear no bit.
LEMMA OwnedSame ==
  ASSUME data_bitmap' = data_bitmap, damaged' = damaged
  PROVE  OwnedStay
BY DEF OwnedStay

\* What holds of the blocks is kept by creates and unlinks: inodes in use keep
\* their pointers or have none, and no bit of a block with an owner is cleared.
LEMMA BlocksKept ==
  ASSUME Types, BlockInv, NEW t \in Threads, d_lock' = d_lock,
         th[t].at \notin WriteSteps, th'[t].at \notin WriteSteps,
         \A u \in Threads \ {t} : th'[u].at = th[u].at,
         \A u \in Threads \ {t} : th[u].at # "idle" =>
           th'[u].bit = th[u].bit /\ th'[u].word = th[u].word,
         \A r \in inode_bitmap' :
           \/ r \in inode_bitmap /\ a'[r].direct = a[r].direct
           \/ a'[r].direct = FreeInode.direct,
         OwnedStay
  PROVE  BlockInv'
<1>1. \A r \in inode_bitmap', n \in 0 .. NDIRECT - 1 :
        a'[r].direct[n] # NoPtr => r \in inode_bitmap /\ a'[r].direct[n] = a[r].direct[n]
  BY FreeInodeType
<1>2. /\ \A u \in Threads : th'[u].at \in WriteSteps <=> th[u].at \in WriteSteps
      /\ \A u \in Threads : th'[u].at \in WriteSteps =>
           u # t /\ th'[u].at = th[u].at /\ th'[u].bit = th[u].bit /\ th'[u].word = th[u].word
  BY DEF WriteSteps
<1>3. LockInv' /\ BitsInv'
  BY <1>2 DEF BlockInv, LockInv, BitsInv, WriteSteps
<1>4. ASSUME ~damaged' PROVE PointersInv' /\ TakenInv'
  <2>1. /\ PointersInv /\ TakenInv
        /\ \A b \in data_bitmap : Owned(b) => b \in data_bitmap'
    BY <1>4 DEF OwnedStay, BlockInv
  <2>2. \A r \in inode_bitmap', n \in 0 .. NDIRECT - 1 :
          a'[r].direct[n] # NoPtr => a'[r].direct[n] \in data_bitmap'
    BY <1>1, <2>1 DEF PointersInv, Owned
  <2>3. PointersInv'
    BY <1>1, <2>1, <2>2 DEF PointersInv
  <2>4. \A u \in Threads : th'[u].at = "link" => th[u].at = "link" /\ th'[u].bit = th[u].bit
    BY <1>2 DEF WriteSteps
  <2>5. \A u \in Threads : th'[u].at = "set" => Fresh(th[u].bit, th[u].word)'
    <3> SUFFICES ASSUME NEW u \in Threads, th'[u].at = "set"
                 PROVE  Fresh(th[u].bit, th[u].word)'
      OBVIOUS
    <3>1. PICK b, word : b = th[u].bit /\ word = th[u].word
      OBVIOUS
    <3>2. th'[u].bit = b /\ th'[u].word = word /\ Fresh(b, word)
      BY <1>2, <2>1, <3>1 DEF TakenInv, WriteSteps
    <3>3. Fresh(b, word)'
      BY <1>1, <2>4, <3>2 DEF Fresh
    <3> QED
      BY <3>2, <3>3 DEF Fresh
  <2>6. \A u \in Threads : th'[u].at = "link" =>
          /\ th'[u].bit \in data_bitmap'
          /\ \A r \in inode_bitmap', n \in 0 .. NDIRECT - 1 :
               a'[r].direct[n] # th'[u].bit
    <3> SUFFICES ASSUME NEW u \in Threads, th'[u].at = "link"
                 PROVE  /\ th'[u].bit \in data_bitmap'
                        /\ \A r \in inode_bitmap', n \in 0 .. NDIRECT - 1 :
                             a'[r].direct[n] # th'[u].bit
      OBVIOUS
    <3>1. th[u].at = "link" /\ th'[u].bit = th[u].bit
      BY <2>4
    <3>2. /\ th[u].bit \in Bits /\ th[u].bit \in data_bitmap /\ Owned(th[u].bit)
          /\ \A r \in inode_bitmap, n \in 0 .. NDIRECT - 1 : a[r].direct[n] # th[u].bit
      BY <2>1, <3>1 DEF BlockInv, BitsInv, TakenInv, Owned
    <3>3. th[u].bit # NoPtr
      BY <3>2, ThreadsAssumptions DEF Bits, NoPtr
    <3> QED
      BY <1>1, <2>1, <3>1, <3>2, <3>3
  <2>7. \A u, v \in Threads :
          th'[u].at = "link" /\ th'[v].at = "link" /\ th'[u].bit = th'[v].bit => u = v
    BY <2>1, <2>4 DEF TakenInv
  <2>8. TakenInv'
    BY <2>5, <2>6, <2>7 DEF TakenInv
  <2> QED
    BY <2>3, <2>8
<1> QED
  BY <1>3, <1>4 DEF BlockInv

\* The steps of destroy_object before its last one: they change the inode that
\* is out of use by now, and clear the bit of no block that has an owner.
LEMMA RemoverStep ==
  ASSUME Inv, NEW t \in Threads, NEW f \in Frame, Index(f), th' = [th EXCEPT ![t] = f],
         th[t].at \in RemoveSteps, f.at \in RemoveSteps,
         f.key = th[t].key, f.s = th[t].s,
         a' \in [Inodes -> Inode], \A r \in Inodes \ {f.s} : a'[r] = a[r],
         a'[f.s].id \in {0, f.s + 2}, a'[f.s].key = a[f.s].key,
         f.at = "clear" \/ a'[f.s].size = 0,
         data_bitmap' \subseteq Bits,
         damaged' \in BOOLEAN, OwnedStay,
         UNCHANGED <<inode_bitmap, dirty_array, backup, d_lock, dir, names, written>>
  PROVE  Inv'
<1>1. th \in [Threads -> Frame] /\ th'[t] = f /\ \A u \in Threads \ {t} : th'[u] = th[u]
  BY DEF Inv, Types
<1>2. /\ th[t].at \in DirSteps /\ f.at \in DirSteps
      /\ th[t].at \notin WriteSteps /\ f.at \notin WriteSteps \cup ScanSteps
      /\ th[t].at # "strcpy" /\ f.at # "strcpy"
  BY DEF RemoveSteps, DirSteps, WriteSteps, ScanSteps
<1>3. dir = t /\ dir # NoThread
  BY <1>2, ThreadsAssumptions DEF Inv, NameInv, DirInv
<1>4. PICK s : s = f.s
  OBVIOUS
<1>5. s \in Inodes \ inode_bitmap /\ th[t].key \in names
  BY <1>4 DEF Inv, NameInv, DirInv
<1>6. /\ \A r : ~Making(r) /\ ~Making(r)'
      /\ \A r : Removing(r)' <=> Removing(r)
      /\ \A k : Unlinking(k)' <=> Unlinking(k)
  BY <1>1, <1>2, <1>3 DEF Making, Removing, Unlinking
<1>7. Removing(s) /\ Removing(s)'
  BY <1>3, <1>4, <1>6 DEF Removing
<1>8. Types'
  <2>1. th' \in [Threads -> Frame]
    BY <1>1
  <2>2. \A u \in Threads : Index(th'[u])
    BY <1>1 DEF Inv, Types
  <2> QED
    BY <2>1, <2>2 DEF Inv, Types
<1>9. \A r \in Inodes : a'[r].key = a[r].key
  BY <1>4
<1>10. \A r \in inode_bitmap : r \in Inodes /\ r # s /\ a'[r] = a[r]
  BY <1>4, <1>5 DEF Inv, Types
<1>11. NamesInv'
  <2>1. \A k, r : Home(k, r) => Home(k, r)'
    BY <1>6, <1>9, <1>10 DEF Home
  <2> QED
    BY <1>6, <1>10, <2>1 DEF Inv, NameInv, NamesInv
<1>12. InodesInv'
  BY <1>4, <1>6, <1>7, <1>9 DEF Inv, NameInv, InodesInv
<1>13. DirInv'
  <2>1. \A u \in Threads \ {t} : th[u].at \notin DirSteps
    BY <1>3 DEF Inv, NameInv, DirInv
  <2>2. \A u \in Threads \ {t} : th[u].at # "strcpy" /\ th[u].at \notin RemoveSteps
    BY <2>1 DEF DirSteps
  <2> QED
    BY <1>1, <1>2, <1>3, <1>4, <1>5, <2>1, <2>2 DEF DirInv
<1>14. WriteInv'
  <2>1. \A g : Holds(g) => Holds(g)'
    BY <1>6, <1>10 DEF Holds
  <2> QED
    BY <1>1, <1>2, <2>1 DEF Inv, NameInv, WriteInv
<1>15. BlockInv'
  BY <1>1, <1>2, <1>10, BlocksKept DEF Inv
<1>16. ScanInv'
  BY <1>1, <1>2, <1>3, NoQuietScan DEF Inv
<1> QED
  BY <1>8, <1>11, <1>12, <1>13, <1>14, <1>15, <1>16 DEF Inv, NameInv

\* destroy_object clears the inode it has given up.
LEMMA ClearStep ==
  ASSUME Inv, NEW t \in Threads, destroy_clear(t)
  PROVE  Inv'
<1>1. /\ th[t].at = "clear"
      /\ UNCHANGED <<inode_bitmap, data_bitmap, dirty_array, backup, d_lock, dir,
                     names, written, damaged>>
  BY DEF destroy_clear
<1>2. PICK s, x : s = th[t].s /\ x = Cleared(a[s])
  OBVIOUS
<1>3. s \in Inodes /\ a[s] \in Inode
  BY <1>1, <1>2 DEF Inv, NameInv, DirInv, RemoveSteps, Types
<1>4. a' = [a EXCEPT ![s] = x]
  BY <1>2 DEF destroy_clear
<1>5. x \in Inode /\ x.id = 0 /\ x.size = 0 /\ x.key = a[s].key
  <2>1. PICK y : y = a[s]
    OBVIOUS
  <2>2. 0 \in 0 .. NDIRECT /\ 0 \in {0} \cup 2 .. INODES + 1 /\ y \in Inode
    BY <1>3, <2>1, ThreadsAssumptions
  <2>3. x = [y EXCEPT !.id = 0, !.size = 0]
    BY <1>2, <2>1 DEF Cleared
  <2> QED
    BY <2>1, <2>2, <2>3 DEF Inode
<1>6. /\ a' \in [Inodes -> Inode] /\ a'[s] = x /\ \A r \in Inodes \ {s} : a'[r] = a[r]
  BY <1>3, <1>4, <1>5 DEF Inv, Types
<1>7. PICK f : f = [th[t] EXCEPT !.at = "xor_read"]
  OBVIOUS
<1>8. th[t] \in Frame /\ th' = [th EXCEPT ![t] = f]
  BY <1>7 DEF destroy_clear, Goto, Inv, Types
<1>9. f \in Frame /\ f.at = "xor_read" /\ f.key = th[t].key /\ f.s = s /\ f.i = th[t].i
  BY <1>2, <1>7, <1>8 DEF Frame, Steps
<1>10. Index(f)
  BY <1>1, <1>9, ThreadsAssumptions DEF Index, Inv, Types
<1>11. data_bitmap' \subseteq Bits /\ damaged' \in BOOLEAN /\ OwnedStay
  BY <1>1 DEF Inv, Types, OwnedStay
<1>12. th[t].at \in RemoveSteps /\ f.at \in RemoveSteps
  BY <1>1, <1>9 DEF RemoveSteps
<1> QED
  BY <1>1, <1>2, <1>5, <1>6, <1>8, <1>9, <1>10, <1>11, <1>12, RemoverStep

\* destroy_object computes a bit and reads its word.
LEMMA XorReadStep ==
  ASSUME Inv, NEW t \in Threads, xor_read(t)
  PROVE  Inv'
<1>1. PICK s, n, p : s = th[t].s /\ n = th[t].i /\ p = a[s].direct[n]
  OBVIOUS
<1>2. /\ th[t].at = "xor_read" /\ n < NDIRECT
      /\ UNCHANGED <<store, backup, d_lock, dir, names, written, damaged>>
  BY <1>1 DEF xor_read
<1>3. /\ th[t] \in Frame /\ n \in 0 .. NDIRECT - 1 /\ n + 1 \in 0 .. NDIRECT
  <2>1. th[t] \in Frame /\ Index(th[t])
    BY DEF Inv, Types
  <2>2. n \in 0 .. NDIRECT
    BY <1>1, <1>2, <2>1 DEF Index
  <2> QED
    BY <1>2, <2>1, <2>2, ThreadsAssumptions
<1>4. /\ s \in Inodes /\ a[s].size = 0 /\ a[s].id \in {0, s + 2} /\ a[s] \in Inode
  BY <1>1, <1>2 DEF Inv, NameInv, DirInv, InodesInv, RemoveSteps, Types
<1>5. p \in Bits \cup {NoPtr}
  BY <1>1, <1>3, <1>4, InodeFields DEF Pointers
<1>6. /\ a' \in [Inodes -> Inode] /\ a' = a /\ data_bitmap' = data_bitmap
      /\ data_bitmap' \subseteq Bits /\ damaged' \in BOOLEAN /\ OwnedStay
      /\ inode_bitmap' = inode_bitmap /\ dirty_array' = dirty_array
  BY <1>2 DEF store, Inv, Types, OwnedStay
<1>7. CASE p = NoPtr
  <2>1. PICK f : f = [th[t] EXCEPT !.i = n + 1]
    OBVIOUS
  <2>2. th' = [th EXCEPT ![t] = f]
    BY <1>1, <1>7, <2>1 DEF xor_read, Inv, Types
  <2>3. f \in Frame /\ f.at = "xor_read" /\ f.key = th[t].key /\ f.s = s /\ f.i = n + 1
    BY <1>1, <1>2, <1>3, <2>1 DEF Frame
  <2>4. Index(f)
    BY <1>3, <2>3 DEF Index
  <2>5. th[t].at \in RemoveSteps /\ f.at \in RemoveSteps
    BY <1>2, <2>3 DEF RemoveSteps
  <2> QED
    BY <1>1, <1>2, <1>4, <1>6, <2>2, <2>3, <2>4, <2>5, RemoverStep
<1>8. CASE p # NoPtr
  <2>1. PICK bit, word : bit = FreedBit(p) /\ word = InWord(WordOf(FreedBit(p)), data_bitmap)
    OBVIOUS
  <2>2. bit \in 0 .. MaxBit
    BY <1>5, <1>8, <2>1, ThreadsAssumptions DEF FreedBit, Bits, MaxBit
  <2>3. word \in SUBSET Bits
    BY <2>1 DEF InWord, Inv, Types
  <2>4. PICK f : f = [th[t] EXCEPT !.at = "xor_write", !.bit = bit, !.word = word]
    OBVIOUS
  <2>5. th' = [th EXCEPT ![t] = f]
    BY <1>1, <1>8, <2>1, <2>4 DEF xor_read, Inv, Types
  <2>6. f \in Frame
    BY <1>3, <2>2, <2>3, <2>4 DEF Frame, Steps
  <2>7. f.at = "xor_write" /\ f.key = th[t].key /\ f.s = s /\ f.i = n /\ f.bit = bit
        /\ f.word = word
    BY <1>1, <1>3, <2>4 DEF Frame
  <2>8. Index(f)
    BY <1>2, <1>3, <2>7, ThreadsAssumptions DEF Index
  <2>9. th[t].at \in RemoveSteps /\ f.at \in RemoveSteps
    BY <1>2, <2>7 DEF RemoveSteps
  <2> QED
    BY <1>1, <1>2, <1>4, <1>6, <2>2, <2>3, <2>5, <2>6, <2>7, <2>8, <2>9, RemoverStep
<1> QED
  BY <1>7, <1>8

\* Until it does damage, what destroy_object writes back is the word as it is,
\* with a bit changed that is of no block.
LEMMA XorWriteStep ==
  ASSUME Inv, NEW t \in Threads, xor_write(t)
  PROVE  Inv'
<1>1. PICK s, bit, old : s = th[t].s /\ bit = th[t].bit /\ old = th[t].word
  OBVIOUS
<1>2. PICK new : new = IF bit \in old THEN old \ {bit} ELSE old \cup {bit}
  OBVIOUS
<1>3. /\ th[t].at = "xor_write" /\ StoreWord(bit, new)
      /\ damaged' = (damaged \/ Misses(bit, old))
      /\ UNCHANGED <<inode_bitmap, a, dirty_array, backup, d_lock, dir, names, written>>
  BY <1>1, <1>2 DEF xor_write
<1>4. th[t] \in Frame /\ Index(th[t])
  BY DEF Inv, Types
<1>5. data_bitmap' \subseteq Bits
  BY <1>3 DEF StoreWord
<1>6. damaged' \in BOOLEAN
  BY <1>3
<1>7. ASSUME ~damaged'
      PROVE  ~damaged /\ \A b \in data_bitmap : Owned(b) => b \in data_bitmap'
  <2>1. ~damaged /\ ~Misses(bit, old)
    BY <1>3, <1>7
  <2>2. old = InWord(WordOf(bit), data_bitmap)
    BY <2>1 DEF Misses
  <2> SUFFICES ASSUME NEW b \in data_bitmap, Owned(b) PROVE b \in data_bitmap'
    BY <2>1
  <2>3. b \in Bits /\ b # NoPtr
    BY ThreadsAssumptions DEF Inv, Types, Bits, NoPtr
  <2>4. \E o \in Owners : o[4] = b
    <3>1. CASE \E r \in inode_bitmap, n \in 0 .. NDIRECT - 1 : a[r].direct[n] = b
      <4>1. PICK r \in inode_bitmap, n \in 0 .. NDIRECT - 1 : a[r].direct[n] = b
        BY <3>1
      <4>2. <<"inode", r, n, a[r].direct[n]>> \in Owners
        BY DEF Owners
      <4> QED
        BY <4>1, <4>2
    <3>2. CASE \E u \in Threads : th[u].at = "link" /\ th[u].bit = b
      <4>1. PICK u \in Threads : th[u].at = "link" /\ th[u].bit = b
        BY <3>2
      <4>2. <<"thread", u, 0, th[u].bit>> \in Owners
        BY <4>1 DEF Owners
      <4> QED
        BY <4>1, <4>2
    <3> QED
      BY <3>1, <3>2 DEF Owned
  <2>5. b # bit
    BY <2>1, <2>3, <2>4 DEF Misses
  <2>6. WordOf(b) = WordOf(bit) => b \in new
    BY <1>2, <2>2, <2>5 DEF InWord
  <2> QED
    BY <1>3, <2>3, <2>6 DEF StoreWord, InWord
<1>8. OwnedStay
  BY <1>7 DEF OwnedStay
<1>9. /\ s \in Inodes /\ a[s].size = 0 /\ a[s].id \in {0, s + 2}
      /\ a' \in [Inodes -> Inode] /\ a' = a
  BY <1>1, <1>3 DEF Inv, NameInv, DirInv, InodesInv, RemoveSteps, Types
<1>10. PICK n : n = th[t].i
  OBVIOUS
<1>11. n \in Nat /\ n + 1 \in 0 .. NDIRECT
  BY <1>3, <1>4, <1>10, ThreadsAssumptions DEF Index
<1>12. PICK f : f = [th[t] EXCEPT !.at = "xor_read", !.i = n + 1, !.bit = 0, !.word = {}]
  OBVIOUS
<1>13. th' = [th EXCEPT ![t] = f]
  BY <1>10, <1>12 DEF xor_write, Inv, Types
<1>14. f \in Frame
  <2>1. 0 \in 0 .. MaxBit /\ {} \in SUBSET Bits /\ n + 1 \in Nat
    BY <1>11, ThreadsAssumptions DEF MaxBit
  <2> QED
    BY <1>4, <1>12, <2>1 DEF Frame, Steps
<1>15. f.at = "xor_read" /\ f.key = th[t].key /\ f.s = s /\ f.i = n + 1
  BY <1>1, <1>4, <1>12 DEF Frame
<1>16. Index(f)
  BY <1>11, <1>15 DEF Index
<1>17. th[t].at \in RemoveSteps /\ f.at \in RemoveSteps
  BY <1>3, <1>15 DEF RemoveSteps
<1> QED
  BY <1>1, <1>3, <1>5, <1>6, <1>8, <1>9, <1>13, <1>14, <1>15, <1>16, <1>17, RemoverStep

\* The last step of destroy_object: the inode is as if it had never been used,
\* but for the key it keeps.
LEMMA RemovedStep ==
  ASSUME Inv, NEW t \in Threads, destroy_end(t)
  PROVE  Inv'
<1>1. PICK s, k : s = th[t].s /\ k = th[t].key
  OBVIOUS
<1>2. /\ th[t].at = "xor_read" /\ Return(t) /\ dir' = NoThread
      /\ names' = names \ {k}
      /\ a' = [a EXCEPT ![s].direct = FreeInode.direct]
      /\ UNCHANGED <<inode_bitmap, data_bitmap, dirty_array, backup, d_lock, written, damaged>>
  BY <1>1 DEF destroy_end
<1>3. /\ th[t].at \in DirSteps /\ th[t].at \in RemoveSteps /\ th[t].at # "strcpy"
      /\ th[t].at \notin WriteSteps
  BY <1>2 DEF DirSteps, RemoveSteps, WriteSteps
<1>4. /\ dir = t /\ dir # NoThread
      /\ \A u \in Threads \ {t} : th[u].at \notin DirSteps
  BY <1>3, ThreadsAssumptions DEF Inv, NameInv, DirInv
<1>5. /\ s \in Inodes \ inode_bitmap /\ k \in names /\ a[s].size = 0
  BY <1>1, <1>2, <1>3 DEF Inv, NameInv, DirInv
<1>6. PICK x : x = [a[s] EXCEPT !.direct = FreeInode.direct]
  OBVIOUS
<1>7. a[s] \in Inode /\ a' = [a EXCEPT ![s] = x]
  BY <1>2, <1>5, <1>6 DEF Inv, Types
<1>8. /\ x \in Inode /\ x.id = a[s].id /\ x.key = a[s].key /\ x.size = 0
      /\ x.direct = FreeInode.direct
  <2>1. FreeInode.direct \in Pointers
    BY FreeInodeType, InodeFields
  <2> QED
    BY <1>5, <1>6, <1>7, <2>1 DEF Inode
<1>9. /\ a' \in [Inodes -> Inode] /\ a'[s] = x /\ \A r \in Inodes \ {s} : a'[r] = a[r]
  BY <1>5, <1>7, <1>8 DEF Inv, Types
<1>10. \A r \in Inodes : a'[r].key = a[r].key /\ a'[r].id = a[r].id
  BY <1>8, <1>9
<1>11. \A r \in inode_bitmap : r \in Inodes /\ r # s /\ a'[r] = a[r]
  BY <1>5, <1>9 DEF Inv, Types
<1>12. /\ th'[t] = Idle /\ th'[t].at = "idle" /\ \A u \in Threads \ {t} : th'[u] = th[u]
  BY <1>2, IdleFrame DEF Return, Inv, Types
<1>13. /\ \A r : ~Making(r) /\ ~Making(r)' /\ ~Removing(r)'
       /\ \A r : Removing(r) => r = s
       /\ \A j : (Unlinking(j) <=> j = k) /\ ~Unlinking(j)'
  BY <1>1, <1>2, <1>3, <1>4 DEF Making, Removing, Unlinking
<1>14. Types'
  <2>1. th' \in [Threads -> Frame] /\ \A u \in Threads : Index(th'[u])
    BY <1>2, <1>12, IdleFrame DEF Return, Inv, Types
  <2> QED
    BY <1>2, <1>9, <2>1 DEF Inv, Types
<1>15. NamesInv'
  <2>1. \A j, r : Home(j, r) => Home(j, r)'
    BY <1>2, <1>10, <1>11, <1>13 DEF Home
  <2> QED
    BY <1>2, <1>11, <1>13, <2>1 DEF Inv, NameInv, NamesInv
<1>16. InodesInv'
  BY <1>2, <1>8, <1>9, <1>10, <1>13 DEF Inv, NameInv, InodesInv
<1>17. \A u \in Threads : th'[u].at \notin DirSteps
  BY <1>4, <1>12 DEF DirSteps, RemoveSteps
<1>18. DirInv'
  BY <1>2, <1>17, ThreadsAssumptions DEF DirInv, DirSteps
<1>19. WriteInv'
  <2>1. \A g : Holds(g) => Holds(g)'
    BY <1>2, <1>11, <1>13 DEF Holds
  <2>2. th'[t].at \notin WriteSteps
    BY <1>12 DEF WriteSteps
  <2> QED
    BY <1>12, <2>1, <2>2 DEF Inv, NameInv, WriteInv
<1>20. BlockInv'
  <2>1. th'[t].at \notin WriteSteps
    BY <1>12 DEF WriteSteps
  <2> QED
    BY <1>2, <1>3, <1>11, <1>12, <2>1, OwnedSame, BlocksKept DEF Inv
<1>21. ScanInv'
  <2>1. th'[t].at \notin ScanSteps
    BY <1>12 DEF ScanSteps
  <2> QED
    BY <1>4, <1>12, <2>1, NoQuietScan DEF Inv
<1> QED
  BY <1>14, <1>15, <1>16, <1>18, <1>19, <1>20, <1>21 DEF Inv, NameInv

\* strcpy under way: the key of the new inode is none.
LEMMA TornStep ==
  ASSUME Inv, NEW t \in Threads, th[t].at = "strcpy",
         a' = [a EXCEPT ![th[t].s].key = Torn],
         UNCHANGED <<inode_bitmap, data_bitmap, dirty_array, backup, d_lock, dir, th,
                     names, written, damaged>>
  PROVE  Inv'
<1>1. PICK s, x : s = th[t].s /\ x = [a[s] EXCEPT !.key = Torn]
  OBVIOUS
<1>2. th[t].at \in DirSteps /\ th[t].at \notin WriteSteps /\ th[t].at \notin ScanSteps
  BY DEF DirSteps, WriteSteps, ScanSteps
<1>3. dir = t /\ dir # NoThread
  BY <1>2, ThreadsAssumptions DEF Inv, NameInv, DirInv
<1>4. s \in inode_bitmap /\ s \in Inodes /\ a[s].id = s + 2 /\ a[s] \in Inode
  BY <1>1 DEF Inv, NameInv, DirInv, Types
<1>5. a' = [a EXCEPT ![s] = x]
  BY <1>1, <1>4 DEF Inv, Types
<1>6. /\ x \in Inode /\ x.id = a[s].id /\ x.key = Torn /\ x.size = a[s].size
      /\ x.direct = a[s].direct
  BY <1>1, <1>4 DEF Inode
<1>7. /\ a' \in [Inodes -> Inode] /\ a'[s] = x /\ \A r \in Inodes \ {s} : a'[r] = a[r]
  BY <1>4, <1>5, <1>6 DEF Inv, Types
<1>8. /\ \A r : Making(r)' <=> Making(r)
      /\ \A r : Making(r) <=> r = s
      /\ \A r : Removing(r)' <=> Removing(r)
      /\ \A k : Unlinking(k)' <=> Unlinking(k)
  BY <1>1, <1>3 DEF Making, Removing, Unlinking
<1>9. Types'
  BY <1>7 DEF Inv, Types
<1>10. NamesInv'
  <2>1. \A k \in names, r \in Inodes : Home(k, r) => Home(k, r)'
    <3> SUFFICES ASSUME NEW k \in names, NEW r \in Inodes, Home(k, r) PROVE Home(k, r)'
      OBVIOUS
    <3>1. r # s /\ a'[r] = a[r] /\ a'[s].key # k
      BY <1>6, <1>7, <1>8, ThreadsAssumptions DEF Home, Inv, Types
    <3>2. \A y \in Inodes : a'[y].key = k => a[y].key = k
      BY <1>7, <3>1
    <3> QED
      BY <1>8, <3>1, <3>2 DEF Home
  <2>2. \A r \in inode_bitmap : ~Making(r) => a'[r] = a[r]
    BY <1>7, <1>8 DEF Inv, Types
  <2>3. \A k \in names : ~Unlinking(k) => \E r \in Inodes : Home(k, r)'
    BY <2>1 DEF Inv, NameInv, NamesInv
  <2>4. \A r \in inode_bitmap : ~Making(r) => a'[r].key \in names /\ ~Unlinking(a[r].key)
    BY <2>2 DEF Inv, NameInv, NamesInv
  <2>6. (\A k \in names : ~Unlinking(k) => \E r \in Inodes : Home(k, r))'
    BY <1>8, <2>3
  <2>7. (\A r \in inode_bitmap : ~Making(r) => a[r].key \in names /\ ~Unlinking(a[r].key))'
    BY <1>8, <2>2, <2>4
  <2> QED
    BY <2>6, <2>7 DEF NamesInv
<1>11. InodesInv'
  BY <1>6, <1>7, <1>8 DEF Inv, NameInv, InodesInv
<1>12. DirInv'
  <2>1. \A u \in Threads : th[u].at = "strcpy" => a'[th[u].s].id = a[th[u].s].id
    BY <1>6, <1>7 DEF Inv, NameInv, DirInv, Types
  <2>2. \A u \in Threads : th[u].at \in RemoveSteps => a'[th[u].s].size = a[th[u].s].size
    BY <1>6, <1>7 DEF Inv, NameInv, DirInv, Types
  <2> QED
    BY <2>1, <2>2 DEF Inv, NameInv, DirInv
<1>13. WriteInv'
  <2>1. \A g : Holds(g) => Holds(g)'
    BY <1>7, <1>8 DEF Holds, Inv, Types
  <2> QED
    BY <2>1 DEF Inv, NameInv, WriteInv
<1>14. BlockInv'
  <2>1. \A r \in inode_bitmap : a'[r].direct = a[r].direct
    BY <1>6, <1>7 DEF Inv, Types
  <2> QED
    BY <1>2, <2>1, OwnedSame, BlocksKept DEF Inv
<1>15. ScanInv'
  BY <1>2, <1>3, NoQuietScan DEF Inv
<1> QED
  BY <1>9, <1>10, <1>11, <1>12, <1>13, <1>14, <1>15 DEF Inv, NameInv

\* strcpy done: the inode is the home of the new name.
LEMMA CreatedStep ==
  ASSUME Inv, NEW t \in Threads, th[t].at = "strcpy",
         a' = [a EXCEPT ![th[t].s].key = th[t].key],
         names' = names \cup {th[t].key},
         written' = [written EXCEPT ![th[t].key] = 0],
         dir' = NoThread, Return(t),
         UNCHANGED <<inode_bitmap, data_bitmap, dirty_array, backup, d_lock, damaged>>
  PROVE  Inv'
<1>1. PICK s, k : s = th[t].s /\ k = th[t].key
  OBVIOUS
<1>2. PICK x : x = [a[s] EXCEPT !.key = k]
  OBVIOUS
<1>3. /\ th[t].at \in DirSteps /\ th[t].at \notin WriteSteps /\ th[t].at \notin RemoveSteps
  BY DEF DirSteps, WriteSteps, RemoveSteps
<1>4. /\ dir = t /\ dir # NoThread
      /\ \A u \in Threads \ {t} : th[u].at \notin DirSteps
  BY <1>3, ThreadsAssumptions DEF Inv, NameInv, DirInv
<1>5. /\ s \in inode_bitmap /\ s \in Inodes /\ a[s].id = s + 2 /\ a[s] \in Inode
      /\ k \in Keys \ names /\ \A r \in Inodes \ inode_bitmap : s < r
  BY <1>1 DEF Inv, NameInv, DirInv, Types
<1>6. a' = [a EXCEPT ![s] = x]
  BY <1>1, <1>2, <1>5 DEF Inv, Types
<1>7. /\ x \in Inode /\ x.id = a[s].id /\ x.key = k /\ x.size = a[s].size
      /\ x.direct = a[s].direct
  BY <1>2, <1>5 DEF Inode
<1>8. /\ a' \in [Inodes -> Inode] /\ a'[s] = x /\ \A r \in Inodes \ {s} : a'[r] = a[r]
  BY <1>5, <1>6, <1>7 DEF Inv, Types
<1>9. /\ th'[t] = Idle /\ th'[t].at = "idle" /\ \A u \in Threads \ {t} : th'[u] = th[u]
  BY IdleFrame DEF Return, Inv, Types
<1>10. /\ \A r : ~Making(r)' /\ ~Removing(r)' /\ ~Removing(r)
       /\ \A r : Making(r) <=> r = s
       /\ \A j : ~Unlinking(j)' /\ (Unlinking(j) <=> j = k)
  BY <1>1, <1>3, <1>4 DEF Making, Removing, Unlinking
<1>11. /\ written' \in [Keys -> 0 .. NDIRECT] /\ written'[k] = 0
       /\ \A j \in Keys \ {k} : written'[j] = written[j]
  BY <1>1, <1>5, ThreadsAssumptions DEF Inv, Types
<1>12. Types'
  <2>1. th' \in [Threads -> Frame] /\ \A u \in Threads : Index(th'[u])
    BY <1>9, IdleFrame DEF Return, Inv, Types
  <2>2. names' \subseteq Keys
    BY <1>1, <1>5 DEF Inv, Types
  <2> QED
    BY <1>8, <1>11, <2>1, <2>2 DEF Inv, Types
<1>13. NamesInv'
  <2>1. a[s].size = 0
    BY <1>5, <1>10 DEF Inv, NameInv, InodesInv
  <2>2. \A r \in inode_bitmap \ {s} : a[r].key \in names /\ a'[r] = a[r] /\ r \in Inodes
    BY <1>8, <1>10 DEF Inv, NameInv, NamesInv, Types
  <2>3. Home(k, s)'
    <3>1. \A r \in Inodes \ {s} : a'[r].key = k => s < r /\ r \notin inode_bitmap
      <4> SUFFICES ASSUME NEW r \in Inodes \ {s}, a'[r].key = k
                   PROVE  s < r /\ r \notin inode_bitmap
        OBVIOUS
      <4>1. r \notin inode_bitmap
        BY <1>5, <2>2
      <4> QED
        BY <1>5, <4>1
    <3> QED
      BY <1>5, <1>7, <1>8, <1>10, <1>11, <2>1, <3>1 DEF Home
  <2>4. \A j \in names, r \in Inodes : Home(j, r) => Home(j, r)'
    <3> SUFFICES ASSUME NEW j \in names, NEW r \in Inodes, Home(j, r) PROVE Home(j, r)'
      OBVIOUS
    <3>1. /\ r # s /\ a'[r] = a[r] /\ a'[s].key # j /\ written'[j] = written[j]
      BY <1>5, <1>7, <1>8, <1>10, <1>11 DEF Home, Inv, Types
    <3>2. \A y \in Inodes : a'[y].key = j => a[y].key = j /\ y # s
      BY <1>8, <3>1
    <3>3. \A y \in Inodes \ {r} : a'[y].key = j => r < y /\ y \notin inode_bitmap
      BY <1>10, <3>2 DEF Home
    <3> QED
      BY <1>10, <3>1, <3>3 DEF Home
  <2>5. \A j \in names' : \E r \in Inodes : Home(j, r)'
    BY <1>1, <1>5, <1>10, <2>3, <2>4 DEF Inv, NameInv, NamesInv
  <2>6. \A r \in inode_bitmap : a'[r].key \in names'
    BY <1>1, <1>7, <1>8, <2>2
  <2> QED
    BY <1>10, <2>5, <2>6 DEF NamesInv
<1>14. InodesInv'
  <2>1. k # Torn
    BY <1>5, ThreadsAssumptions
  <2>2. \A r \in Inodes : a'[r].id = a[r].id /\ a'[r].size = a[r].size
                          /\ a'[r].direct = a[r].direct
    BY <1>7, <1>8
  <2>3. \A r \in Inodes : a'[r].key # Torn
    BY <1>7, <1>8, <1>10, <2>1 DEF Inv, NameInv, InodesInv
  <2> QED
    BY <1>10, <2>2, <2>3 DEF Inv, NameInv, InodesInv
<1>15. \A u \in Threads : th'[u].at \notin DirSteps
  BY <1>4, <1>9 DEF DirSteps, RemoveSteps
<1>16. DirInv'
  BY <1>15, ThreadsAssumptions DEF DirInv, DirSteps
<1>17. WriteInv'
  <2>1. \A g : Holds(g) => Holds(g)'
    BY <1>8, <1>10 DEF Holds, Inv, Types
  <2>2. th'[t].at \notin WriteSteps
    BY <1>9 DEF WriteSteps
  <2> QED
    BY <1>9, <2>1, <2>2 DEF Inv, NameInv, WriteInv
<1>18. BlockInv'
  <2>1. th'[t].at \notin WriteSteps
    BY <1>9 DEF WriteSteps
  <2>2. \A r \in inode_bitmap : a'[r].direct = a[r].direct
    BY <1>7, <1>8 DEF Inv, Types
  <2> QED
    BY <1>3, <1>9, <2>1, <2>2, OwnedSame, BlocksKept DEF Inv
<1>19. ScanInv'
  <2>1. th'[t].at \notin ScanSteps
    BY <1>9 DEF ScanSteps
  <2> QED
    BY <1>4, <1>9, <2>1, NoQuietScan DEF Inv
<1> QED
  BY <1>12, <1>13, <1>14, <1>16, <1>17, <1>18, <1>19 DEF Inv, NameInv

\* Taking the directory's lock: the other threads stay where they are, their
\* scans count as overlapped.
LEMMA TakesDir ==
  ASSUME Inv, NEW t \in Threads, NEW f \in Frame, Index(f), TakeDir(t, f),
         f.at \in DirSteps
  PROVE  /\ dir = NoThread /\ dir' = t /\ th'[t] = f
         /\ th' \in [Threads -> Frame] /\ \A u \in Threads : Index(th'[u])
         /\ \A u \in Threads \ {t} :
              /\ th'[u].at = th[u].at /\ th[u].at \notin DirSteps
              /\ th[u].at # "idle" => /\ th'[u].key = th[u].key /\ th'[u].s = th[u].s
                                      /\ th'[u].bit = th[u].bit /\ th'[u].word = th[u].word
         /\ \A r : ~Making(r) /\ ~Removing(r)
         /\ \A k : ~Unlinking(k)
         /\ ScanInv'
<1>1. /\ dir = NoThread /\ dir' = t
      /\ th' = [u \in Threads |-> IF u = t THEN f
                                  ELSE IF th[u].at = "idle" THEN Idle
                                  ELSE [th[u] EXCEPT !.quiet = FALSE]]
  BY DEF TakeDir
<1>2. th'[t] = f
  BY <1>1
<1>3. \A u \in Threads \ {t} :
        /\ th'[u] \in Frame /\ Index(th'[u])
        /\ th'[u].at = th[u].at
        /\ th[u].at # "idle" => /\ th'[u].key = th[u].key /\ th'[u].s = th[u].s
                                /\ th'[u].bit = th[u].bit /\ th'[u].word = th[u].word
        /\ th[u].at # "idle" => ~th'[u].quiet
  <2> SUFFICES ASSUME NEW u \in Threads \ {t}
               PROVE  /\ th'[u] \in Frame /\ Index(th'[u])
                      /\ th'[u].at = th[u].at
                      /\ th[u].at # "idle" =>
                           /\ th'[u].key = th[u].key /\ th'[u].s = th[u].s
                           /\ th'[u].bit = th[u].bit /\ th'[u].word = th[u].word
                      /\ th[u].at # "idle" => ~th'[u].quiet
    OBVIOUS
  <2>1. th[u] \in Frame /\ Index(th[u])
    BY DEF Inv, Types
  <2>2. CASE th[u].at = "idle"
    <3>1. th'[u] = Idle
      BY <1>1, <2>2
    <3> QED
      BY <2>2, <3>1, IdleFrame
  <2>3. CASE th[u].at # "idle"
    <3>1. PICK g, h : g = th[u] /\ h = [g EXCEPT !.quiet = FALSE]
      OBVIOUS
    <3>2. th'[u] = h
      BY <1>1, <2>3, <3>1
    <3>3. h \in Frame /\ h.at = g.at /\ h.key = g.key /\ h.s = g.s /\ h.i = g.i
          /\ h.bit = g.bit /\ h.word = g.word
      BY <2>1, <3>1 DEF Frame
    <3>4. ~h.quiet
      BY <2>1, <3>1 DEF Frame
    <3>5. Index(h)
      BY <2>1, <3>1, <3>3 DEF Index
    <3> QED
      BY <2>3, <3>1, <3>2, <3>3, <3>4, <3>5
  <2> QED
    BY <2>2, <2>3
<1>4. th' \in [Threads -> Frame] /\ \A u \in Threads : Index(th'[u])
  <2>1. \A u \in Threads : th'[u] \in Frame /\ Index(th'[u])
    BY <1>2, <1>3
  <2> DEFINE G(u) == IF u = t THEN f ELSE IF th[u].at = "idle" THEN Idle
                     ELSE [th[u] EXCEPT !.quiet = FALSE]
  <2>2. th' = [u \in Threads |-> G(u)]
    BY <1>1
  <2>3. \A u \in Threads : th'[u] = G(u)
    BY <1>1
  <2> HIDE DEF G
  <2> QED
    BY <2>1, <2>2, <2>3
<1>5. \A u \in Threads \ {t} : th[u].at \notin DirSteps
  BY <1>1, ThreadsAssumptions DEF Inv, NameInv, DirInv
<1>6. /\ \A r : ~Making(r) /\ ~Removing(r)
      /\ \A k : ~Unlinking(k)
  BY <1>1 DEF Making, Removing, Unlinking
<1>7. ScanInv'
  <2>1. \A u \in Threads : ~(th'[u].at \in ScanSteps /\ th'[u].quiet)
    BY <1>2, <1>3 DEF ScanSteps, DirSteps, RemoveSteps
  <2> QED
    BY <2>1 DEF ScanInv
<1> QED
  BY <1>1, <1>2, <1>3, <1>4, <1>5, <1>6, <1>7

\* create_object claims the first free inode, which is empty but for a key.
LEMMA CreateStep ==
  ASSUME Inv, NEW t \in Threads, NEW k \in Keys, create_object(t, k)
  PROVE  Inv'
<1>1. PICK s : s = Min(Inodes \ inode_bitmap)
  OBVIOUS
<1>2. /\ th[t].at = "idle" /\ k \notin names /\ inode_bitmap # Inodes
      /\ inode_bitmap' = inode_bitmap \cup {s}
      /\ dirty_array' = dirty_array \cup {BlockOf(s)}
      /\ a' = [a EXCEPT ![s].id = s + 2]
      /\ UNCHANGED <<data_bitmap, backup, d_lock, names, written, damaged>>
  BY <1>1 DEF create_object
<1>3. s \in Inodes \ inode_bitmap /\ \A r \in Inodes \ inode_bitmap : s <= r
  <2>1. PICK S : S = Inodes \ inode_bitmap
    OBVIOUS
  <2>2. S # {}
    BY <1>2, <2>1 DEF Inv, Types
  <2>3. S \in SUBSET Nat
    BY <2>1 DEF Inodes
  <2> QED
    BY <1>1, <2>1, <2>2, <2>3, FirstOf
<1>4. s \in 0 .. INODES + 1 /\ s + 2 \in 2 .. INODES + 1
  BY <1>3, ThreadsAssumptions DEF Inodes
<1>5. PICK f : f = [Idle EXCEPT !.at = "strcpy", !.key = k, !.s = s]
  OBVIOUS
<1>6. f \in Frame
  BY <1>4, <1>5, IdleFrame DEF Frame, Steps
<1>7. f.at = "strcpy" /\ f.key = k /\ f.s = s /\ f.i = 0
  BY <1>5, IdleFrame DEF Frame
<1>8. Index(f)
  BY <1>7, ThreadsAssumptions DEF Index
<1>9. TakeDir(t, f)
  BY <1>1, <1>5 DEF create_object
<1>10. f.at \in DirSteps /\ f.at \notin RemoveSteps /\ f.at \notin WriteSteps
       /\ th[t].at \notin WriteSteps
  BY <1>2, <1>7 DEF DirSteps, RemoveSteps, WriteSteps
<1>11. /\ dir = NoThread /\ dir' = t /\ th'[t] = f
       /\ th' \in [Threads -> Frame] /\ \A u \in Threads : Index(th'[u])
       /\ \A u \in Threads \ {t} :
            /\ th'[u].at = th[u].at /\ th[u].at \notin DirSteps
            /\ th[u].at # "idle" => /\ th'[u].key = th[u].key /\ th'[u].s = th[u].s
                                    /\ th'[u].bit = th[u].bit /\ th'[u].word = th[u].word
       /\ \A r : ~Making(r) /\ ~Removing(r)
       /\ \A j : ~Unlinking(j)
       /\ ScanInv'
  BY <1>6, <1>8, <1>9, <1>10, TakesDir
<1>12. /\ \A r : (Making(r)' <=> r = s) /\ ~Removing(r)'
       /\ \A j : Unlinking(j)' <=> j = k
  <2>1. dir' # NoThread
    BY <1>11, ThreadsAssumptions
  <2> QED
    BY <1>7, <1>10, <1>11, <2>1 DEF Making, Removing, Unlinking
<1>13. PICK x : x = [a[s] EXCEPT !.id = s + 2]
  OBVIOUS
<1>14. a[s] \in Inode /\ a' = [a EXCEPT ![s] = x]
  BY <1>2, <1>3, <1>13 DEF Inv, Types
<1>15. /\ x \in Inode /\ x.id = s + 2 /\ x.key = a[s].key /\ x.size = a[s].size
       /\ x.direct = a[s].direct
  BY <1>4, <1>13, <1>14 DEF Inode
<1>16. /\ a' \in [Inodes -> Inode] /\ a'[s] = x /\ \A r \in Inodes \ {s} : a'[r] = a[r]
  BY <1>3, <1>14, <1>15 DEF Inv, Types
<1>17. \A r \in Inodes : a'[r].key = a[r].key /\ a'[r].size = a[r].size
                         /\ a'[r].direct = a[r].direct
  BY <1>15, <1>16
<1>18. \A r \in inode_bitmap : r \in Inodes /\ r # s /\ a'[r] = a[r]
  BY <1>3, <1>16 DEF Inv, Types
<1>19. Types'
  BY <1>2, <1>3, <1>11, <1>16 DEF Inv, Types
<1>20. NamesInv'
  <2>1. \A j, r : Home(j, r) => Home(j, r)'
    <3> SUFFICES ASSUME NEW j, NEW r, Home(j, r) PROVE Home(j, r)'
      OBVIOUS
    <3>1. r \in inode_bitmap
      BY DEF Home
    <3>2. \A y \in Inodes \ {r} : a[y].key = j => r < y /\ y \notin inode_bitmap
      BY <1>11 DEF Home
    <3> QED
      BY <1>2, <1>12, <1>17, <1>18, <3>1, <3>2 DEF Home
  <2>2. \A j \in names : \E r \in Inodes : Home(j, r)'
    BY <1>11, <2>1 DEF Inv, NameInv, NamesInv
  <2>3. \A r \in inode_bitmap : a'[r].key \in names /\ a'[r].key # k
    BY <1>2, <1>11, <1>18 DEF Inv, NameInv, NamesInv
  <2> QED
    BY <1>2, <1>12, <2>2, <2>3 DEF NamesInv
<1>21. InodesInv'
  <2>1. \A r \in Inodes : a'[r].id \in {0, r + 2}
    BY <1>15, <1>16 DEF Inv, NameInv, InodesInv
  <2>2. \A r \in Inodes : a'[r].key # Torn
    BY <1>11, <1>17 DEF Inv, NameInv, InodesInv
  <2>3. \A r \in Inodes \ inode_bitmap : a'[r].size = 0 /\ a'[r].direct = FreeInode.direct
    BY <1>11, <1>17 DEF Inv, NameInv, InodesInv
  <2> QED
    BY <1>2, <1>3, <1>12, <2>1, <2>2, <2>3 DEF InodesInv
<1>22. DirInv'
  <2>1. \A u \in Threads : th'[u].at \in DirSteps <=> u = t
    BY <1>10, <1>11
  <2>2. \A r \in Inodes \ inode_bitmap' : s < r
    BY <1>2, <1>3 DEF Inodes
  <2>3. \A u \in Threads : th'[u].at = "strcpy" => u = t
    BY <2>1 DEF DirSteps
  <2>4. \A u \in Threads : th'[u].at \notin RemoveSteps
    BY <1>10, <1>11, <2>1 DEF DirSteps
  <2> QED
    BY <1>2, <1>3, <1>7, <1>11, <1>15, <1>16, <2>1, <2>2, <2>3, <2>4 DEF DirInv
<1>23. WriteInv'
  <2>1. \A u \in Threads : th'[u].at \in WriteSteps =>
          u # t /\ th[u].at \in WriteSteps /\ th'[u].key = th[u].key /\ th'[u].s = th[u].s
    BY <1>10, <1>11 DEF WriteSteps
  <2>2. \A u \in Threads : th'[u].at \in WriteSteps => Holds(th[u])
    BY <2>1 DEF Inv, NameInv, WriteInv
  <2>3. \A u \in Threads : th'[u].at \in WriteSteps =>
          /\ th'[u].key \in names /\ th'[u].key # k
          /\ th'[u].s \in inode_bitmap /\ th'[u].s # s
          /\ a'[th'[u].s] = a[th'[u].s]
          /\ a[th'[u].s].key = th'[u].key /\ a[th'[u].s].size < NDIRECT
    BY <1>2, <1>18, <2>1, <2>2 DEF Holds
  <2>4. (\A u \in Threads : th[u].at \in WriteSteps => Holds(th[u]))'
    BY <1>2, <1>12, <2>3 DEF Holds
  <2>5. (\A u, v \in Threads :
          th[u].at \in WriteSteps /\ th[v].at \in WriteSteps /\ th[u].key = th[v].key
             => u = v)'
    BY <2>1 DEF Inv, NameInv, WriteInv
  <2> QED
    BY <2>4, <2>5 DEF WriteInv
<1>24. BlockInv'
  <2>1. \A r \in inode_bitmap' :
           \/ r \in inode_bitmap /\ a'[r].direct = a[r].direct
           \/ a'[r].direct = FreeInode.direct
    BY <1>2, <1>3, <1>11, <1>17, <1>18 DEF Inv, NameInv, InodesInv
  <2>2. th'[t].at \notin WriteSteps
    BY <1>7, <1>10, <1>11
  <2> QED
    BY <1>2, <1>10, <1>11, <2>1, <2>2, OwnedSame, BlocksKept DEF Inv
<1> QED
  BY <1>11, <1>19, <1>20, <1>21, <1>22, <1>23, <1>24 DEF Inv, NameInv

\* destroy_object gives up the inode the scan finds, which is the name's home.
LEMMA DestroyStep ==
  ASSUME Inv, NEW t \in Threads, NEW k \in Keys, destroy_object(t, k)
  PROVE  Inv'
<1>1. PICK s : s = First(k)
  OBVIOUS
<1>2. /\ th[t].at = "idle" /\ k \in names /\ ~Writing(k)
      /\ inode_bitmap' = inode_bitmap \ {s}
      /\ dirty_array' = dirty_array \cup {BlockOf(s)}
      /\ UNCHANGED <<a, data_bitmap, backup, d_lock, names, written, damaged>>
  BY <1>1 DEF destroy_object
<1>3. s \in Inodes /\ Home(k, s)
  <2>1. ~Unlinking(k)
    BY DEF destroy_object, TakeDir, Unlinking
  <2> QED
    BY <1>1, <1>2, <2>1, NameHome DEF Inv, NameInv
<1>4. s \in 0 .. INODES + 1
  BY <1>3, ThreadsAssumptions DEF Inodes
<1>5. PICK f : f = [Idle EXCEPT !.at = "clear", !.key = k, !.s = s]
  OBVIOUS
<1>6. f \in Frame
  BY <1>4, <1>5, IdleFrame DEF Frame, Steps
<1>7. f.at = "clear" /\ f.key = k /\ f.s = s /\ f.i = 0
  BY <1>5, IdleFrame DEF Frame
<1>8. Index(f)
  BY <1>7, ThreadsAssumptions DEF Index
<1>9. TakeDir(t, f)
  BY <1>1, <1>5 DEF destroy_object
<1>10. f.at \in DirSteps /\ f.at \in RemoveSteps /\ f.at # "strcpy" /\ f.at \notin WriteSteps
       /\ th[t].at \notin WriteSteps
  BY <1>2, <1>7 DEF DirSteps, RemoveSteps, WriteSteps
<1>11. /\ dir = NoThread /\ dir' = t /\ th'[t] = f
       /\ th' \in [Threads -> Frame] /\ \A u \in Threads : Index(th'[u])
       /\ \A u \in Threads \ {t} :
            /\ th'[u].at = th[u].at /\ th[u].at \notin DirSteps
            /\ th[u].at # "idle" => /\ th'[u].key = th[u].key /\ th'[u].s = th[u].s
                                    /\ th'[u].bit = th[u].bit /\ th'[u].word = th[u].word
       /\ \A r : ~Making(r) /\ ~Removing(r)
       /\ \A j : ~Unlinking(j)
       /\ ScanInv'
  BY <1>6, <1>8, <1>9, <1>10, TakesDir
<1>12. /\ \A r : (Removing(r)' <=> r = s) /\ ~Making(r)'
       /\ \A j : Unlinking(j)' <=> j = k
  <2>1. dir' # NoThread
    BY <1>11, ThreadsAssumptions
  <2> QED
    BY <1>7, <1>10, <1>11, <2>1 DEF Making, Removing, Unlinking
<1>13. a[s].key = k /\ \A r \in inode_bitmap \ {s} : r \in Inodes /\ a[r].key # k
  BY <1>3, <1>11 DEF Home, Inv, Types
<1>14. Types'
  BY <1>2, <1>3, <1>11 DEF Inv, Types
<1>15. NamesInv'
  <2>1. \A j, r : j # k /\ Home(j, r) => Home(j, r)'
    BY <1>2, <1>11, <1>12, <1>13 DEF Home
  <2>2. \A j \in names : j # k => \E r \in Inodes : Home(j, r)'
    BY <1>11, <2>1 DEF Inv, NameInv, NamesInv
  <2>3. \A r \in inode_bitmap' : a[r].key \in names /\ a[r].key # k
    BY <1>2, <1>11, <1>13 DEF Inv, NameInv, NamesInv
  <2> QED
    BY <1>2, <1>12, <2>2, <2>3 DEF NamesInv
<1>16. InodesInv'
  BY <1>2, <1>11, <1>12 DEF Inv, NameInv, InodesInv
<1>17. DirInv'
  <2>1. \A u \in Threads : th'[u].at \in DirSteps <=> u = t
    BY <1>10, <1>11
  <2>2. \A u \in Threads : th'[u].at # "strcpy"
    BY <1>10, <1>11, <2>1 DEF DirSteps
  <2>3. \A u \in Threads : th'[u].at \in RemoveSteps => u = t
    BY <2>1 DEF DirSteps
  <2> QED
    BY <1>2, <1>3, <1>7, <1>11, <2>1, <2>2, <2>3 DEF DirInv
<1>18. WriteInv'
  <2>1. \A u \in Threads : th'[u].at \in WriteSteps =>
          /\ u # t /\ th[u].at \in WriteSteps /\ th[u].key # k
          /\ th'[u].key = th[u].key /\ th'[u].s = th[u].s
    BY <1>2, <1>10, <1>11 DEF WriteSteps, Writing
  <2>2. \A u \in Threads : th'[u].at \in WriteSteps => Holds(th[u])
    BY <2>1 DEF Inv, NameInv, WriteInv
  <2>3. \A u \in Threads : th'[u].at \in WriteSteps =>
          /\ th'[u].key \in names /\ th'[u].key # k
          /\ th'[u].s \in inode_bitmap \ {s}
          /\ a[th'[u].s].key = th'[u].key /\ a[th'[u].s].size < NDIRECT
    BY <1>13, <2>1, <2>2 DEF Holds
  <2>4. (\A u \in Threads : th[u].at \in WriteSteps => Holds(th[u]))'
    BY <1>2, <1>12, <2>3 DEF Holds
  <2>5. (\A u, v \in Threads :
          th[u].at \in WriteSteps /\ th[v].at \in WriteSteps /\ th[u].key = th[v].key
             => u = v)'
    BY <2>1 DEF Inv, NameInv, WriteInv
  <2> QED
    BY <2>4, <2>5 DEF WriteInv
<1>19. BlockInv'
  <2>1. th'[t].at \notin WriteSteps
    BY <1>7, <1>10, <1>11
  <2> QED
    BY <1>2, <1>10, <1>11, <2>1, OwnedSame, BlocksKept DEF Inv
<1> QED
  BY <1>11, <1>14, <1>15, <1>16, <1>17, <1>18, <1>19 DEF Inv, NameInv

-----------------------------------------------------------------------------
\* Every step of every thread keeps the invariant.
LEMMA ThreadsNext == Inv /\ [Next]_vars => Inv'
<1> SUFFICES ASSUME Inv, [Next]_vars PROVE Inv'
  OBVIOUS
<1>1. CASE UNCHANGED vars
  <2>1. /\ inode_bitmap' = inode_bitmap /\ a' = a /\ data_bitmap' = data_bitmap
        /\ dirty_array' = dirty_array /\ backup' = backup /\ d_lock' = d_lock
        /\ dir' = dir /\ th' = th /\ names' = names /\ written' = written
        /\ damaged' = damaged
    BY <1>1 DEF vars, store
  <2>2. Types' /\ ScanInv'
    BY <2>1 DEF Inv, Types, ScanInv
  <2>3. /\ \A r : Making(r)' <=> Making(r)
        /\ \A r : Removing(r)' <=> Removing(r)
        /\ \A k : Unlinking(k)' <=> Unlinking(k)
    BY <2>1 DEF Making, Removing, Unlinking
  <2>4. /\ \A k, r : Home(k, r)' <=> Home(k, r)
        /\ \A g : Holds(g)' <=> Holds(g)
    BY <2>1, <2>3 DEF Home, Holds
  <2>5. NamesInv' /\ InodesInv' /\ DirInv' /\ WriteInv'
    BY <2>1, <2>3, <2>4 DEF Inv, NameInv, NamesInv, InodesInv, DirInv, WriteInv
  <2>6. LockInv' /\ BitsInv' /\ (PointersInv => PointersInv')
    BY <2>1 DEF Inv, BlockInv, LockInv, BitsInv, PointersInv
  <2>7. TakenInv => TakenInv'
    <3>1. \A bit, word : Fresh(bit, word) => Fresh(bit, word)'
      BY <2>1 DEF Fresh
    <3> QED
      BY <2>1, <3>1 DEF TakenInv
  <2> QED
    BY <2>1, <2>2, <2>5, <2>6, <2>7 DEF Inv, NameInv, BlockInv
<1>2. CASE Next
  <2>1. PICK t \in Threads :
          \/ \E k \in Keys :
               \/ \E for \in {"getattr", "open"} : find_object_id(t, k, for)
               \/ create_object(t, k) \/ destroy_object(t, k)
               \/ objstore_write(t, k)
          \/ scan_match(t) \/ scan_next(t) \/ scan_end(t)
          \/ fillup_size_details(t) \/ getattr_returns(t)
          \/ strcpy(t)
          \/ destroy_clear(t) \/ xor_read(t) \/ xor_write(t) \/ destroy_end(t)
          \/ free_data_block(t) \/ free_data_block_set(t) \/ write_link(t)
    BY <1>2 DEF Next
  <2>2. ASSUME NEW k \in Keys,
               \/ \E for \in {"getattr", "open"} : find_object_id(t, k, for)
               \/ create_object(t, k) \/ destroy_object(t, k)
               \/ objstore_write(t, k)
        PROVE  Inv'
    BY <2>2, FindStep, CreateStep, DestroyStep, WriteStep
  <2>3. CASE getattr_returns(t)
    <3>1. th[t].at \in ScanSteps /\ backup' \in Inodes
      BY <2>3 DEF getattr_returns, ScanSteps, Inv, Types
    <3> QED
      BY <2>3, <3>1, ReturnStep DEF getattr_returns
  <2>4. CASE strcpy(t)
    BY <2>4, TornStep, CreatedStep DEF strcpy
  <2>5. CASE scan_match(t) \/ scan_next(t) \/ scan_end(t) \/ fillup_size_details(t)
    BY <2>5, MatchStep, NextStep, EndStep, FillupStep
  <2>6. CASE destroy_clear(t) \/ xor_read(t) \/ xor_write(t) \/ destroy_end(t)
    BY <2>6, ClearStep, XorReadStep, XorWriteStep, RemovedStep
  <2>7. CASE free_data_block(t) \/ free_data_block_set(t) \/ write_link(t)
    BY <2>7, TakeStep, SetStep, LinkStep
  <2> QED
    BY <2>1, <2>2, <2>3, <2>4, <2>5, <2>6, <2>7
<1> QED
  BY <1>1, <1>2

\* The inductive invariant of the threads.
THEOREM ThreadsInvariance == Spec => []Inv
BY ThreadsInit, ThreadsNext, PTL DEF Spec

\* The store, the locks and the locals of every call keep their types: no scan
\* leaves the inode table and no freed or taken bit the bitmap.
THEOREM ThreadsTypeCorrect == Spec => []TypeOK
<1>1. Inv => TypeOK
  BY TypesOK DEF Inv
<1> QED
  BY <1>1, ThreadsInvariance, PTL

\* Whatever the threads do, a name that is not being unlinked leads the scans
\* to one object, with its identifier and the size of what was written.
THEOREM ThreadsObjectsKept == Spec => []ObjectsKept
<1>1. Inv => ObjectsKept
  <2> SUFFICES ASSUME Inv, NEW k \in names, ~Unlinking(k)
               PROVE  LET found == {s \in Inodes : Live(s, k)} IN
                      /\ found # {}
                      /\ a[First(k)].id = First(k) + 2
                      /\ a[First(k)].size = written[k]
                      /\ \A s \in found \ {First(k)} : dir # NoThread /\ th[dir].s = s
    BY DEF ObjectsKept
  <2>1. PICK s : s = First(k)
    OBVIOUS
  <2>2. s \in Inodes /\ Home(k, s)
    BY <2>1, NameHome DEF Inv, NameInv
  <2>3. /\ Live(s, k) /\ a[s].id = s + 2 /\ a[s].size = written[k]
        /\ \A r \in Inodes \ {s} : Live(r, k) => Making(r)
    BY <2>2, FirstHome DEF Inv, Home
  <2>4. \A r \in Inodes \ {s} : Live(r, k) => dir # NoThread /\ th[dir].s = r
    BY <2>3 DEF Making
  <2> QED
    BY <2>1, <2>2, <2>3, <2>4
<1> QED
  BY <1>1, ThreadsInvariance, PTL

\* No block has two owners, and owned blocks are marked, until an unlink stores a
\* word without d_lock for the bit of a block that has an owner, or a word that
\* has changed since it read it: writers and unlinks that overlap do no other harm.
THEOREM ThreadsOwnedUnlessDamaged == Spec => []OwnedUnlessDamaged
<1>1. Inv => OwnedUnlessDamaged
  <2> SUFFICES ASSUME Inv, ~damaged PROVE BlocksOwnedOnce
    BY DEF OwnedUnlessDamaged
  <2>1. PICK owned : owned = {o \in Owners : o[4] # NoPtr}
    OBVIOUS
  <2>5. PointersInv /\ TakenInv
    BY DEF Inv, BlockInv
  <2>2. \A o \in owned :
          \/ \E s \in inode_bitmap, n \in 0 .. NDIRECT - 1 :
               o = <<"inode", s, n, a[s].direct[n]>> /\ a[s].direct[n] # NoPtr
          \/ \E t \in Threads : th[t].at = "link" /\ o = <<"thread", t, 0, th[t].bit>>
    BY <2>1 DEF Owners
  <2>3. \A o \in owned : o[4] \in data_bitmap
    BY <2>2, <2>5 DEF PointersInv, TakenInv
  <2>4. \A o, p \in owned : o[4] = p[4] => o = p
    <3> SUFFICES ASSUME NEW o \in owned, NEW p \in owned, o[4] = p[4] PROVE o = p
      OBVIOUS
    <3>1. CASE /\ \E s \in inode_bitmap, n \in 0 .. NDIRECT - 1 :
                    o = <<"inode", s, n, a[s].direct[n]>> /\ a[s].direct[n] # NoPtr
               /\ \E s \in inode_bitmap, n \in 0 .. NDIRECT - 1 :
                    p = <<"inode", s, n, a[s].direct[n]>> /\ a[s].direct[n] # NoPtr
      BY <2>5, <3>1 DEF PointersInv
    <3>2. CASE /\ \E s \in inode_bitmap, n \in 0 .. NDIRECT - 1 :
                    o = <<"inode", s, n, a[s].direct[n]>> /\ a[s].direct[n] # NoPtr
               /\ \E t \in Threads : th[t].at = "link" /\ p = <<"thread", t, 0, th[t].bit>>
      BY <2>5, <3>2 DEF TakenInv
    <3>3. CASE /\ \E s \in inode_bitmap, n \in 0 .. NDIRECT - 1 :
                    p = <<"inode", s, n, a[s].direct[n]>> /\ a[s].direct[n] # NoPtr
               /\ \E t \in Threads : th[t].at = "link" /\ o = <<"thread", t, 0, th[t].bit>>
      BY <2>5, <3>3 DEF TakenInv
    <3>4. CASE /\ \E t \in Threads : th[t].at = "link" /\ o = <<"thread", t, 0, th[t].bit>>
               /\ \E t \in Threads : th[t].at = "link" /\ p = <<"thread", t, 0, th[t].bit>>
      BY <2>5, <3>4 DEF TakenInv
    <3> QED
      BY <2>2, <3>1, <3>2, <3>3, <3>4
  <2> QED
    BY <2>1, <2>3, <2>4 DEF BlocksOwnedOnce
<1> QED
  BY <1>1, ThreadsInvariance, PTL

\* A getattr that no create or unlink overlaps never answers with the size of
\* another object, and never that there is none.
THEOREM ThreadsStatRight == Spec => []StatRight
<1>1. Inv => StatRight
  BY DEF Inv, ScanInv, StatRight, ScanSteps
<1> QED
  BY <1>1, ThreadsInvariance, PTL
=============================================================================
