----------------------------- MODULE ObjThreads -----------------------------
(***************************************************************************)
(* The object store of assignment4/objstore.c under the threads of FUSE:   *)
(* calls overlap, and each takes the steps between which other threads see *)
(* or change what it reads and writes.  Locks are modelled where a section *)
(* is split; a section under i_lock is one step.                           *)
(*                                                                         *)
(* The kernel orders some calls before they reach the store: it holds the  *)
(* directory's lock over create and unlink, and the object's lock over     *)
(* write and unlink.  getattr and open of a name it knows take no lock.    *)
(* Renames, indirect blocks and remounts are left to ObjStore, the blocks' *)
(* contents and cache_lock to BlockCache.                                  *)
(***************************************************************************)
EXTENDS Naturals, FiniteSets, FiniteSetsExt

CONSTANTS
  Threads, NoThread,
  Keys,
  NoKey,             \* key of an inode that was never used
  Torn,              \* key of an inode while strcpy writes it
  INODES,
  INODES_PER_BLOCK,
  NDIRECT,           \* direct pointers of an inode (4)
  WORD,              \* bits in a word of data_bitmap (32)
  Skew,              \* what destroy_object is off by, see ObjStore (574)
  DATA_BITS          \* bound: data blocks the disk image is used for

Inodes == 0 .. INODES - 1
Bits   == 0 .. DATA_BITS - 1
WordOf(bit)  == bit \div WORD
BlockOf(s)   == s \div INODES_PER_BLOCK
InWord(w, S) == {bit \in S : WordOf(bit) = w}

ASSUME ThreadsAssumptions ==
  /\ NoThread \notin Threads /\ IsFiniteSet(Threads)
  /\ NoKey \notin Keys /\ Torn \notin Keys \cup {NoKey}
  /\ INODES \in Nat \ {0} /\ INODES_PER_BLOCK \in Nat \ {0} /\ NDIRECT \in Nat
  /\ WORD \in Nat \ {0} /\ Skew \in Nat /\ DATA_BITS \in Nat

VARIABLES
  inode_bitmap, a, data_bitmap, dirty_array,
  backup,     \* the inode find_object_id found last, for whichever thread
  d_lock,     \* its holder
  dir,        \* the thread for which the kernel holds the directory's lock
  th,         \* the call every thread is in, its step and its locals
  names,      \* the keys the kernel knows
  written,    \* history: writes that counted, since the key was created
  damaged     \* history: an unlink stored a word it must not, see xor_write

store == <<inode_bitmap, a, data_bitmap, dirty_array>>
vars  == <<store, backup, d_lock, dir, th, names, written, damaged>>

NoPtr     == DATA_BITS
FreeInode == [id |-> 0, size |-> 0, key |-> NoKey,
              direct |-> [n \in 0 .. NDIRECT - 1 |-> NoPtr]]

\* at: the next step; s, i, bit, word: locals of the code; low: the object's
\* size when getattr started; quiet: no create or unlink has overlapped since.
Idle == [at |-> "idle", key |-> NoKey, s |-> 0, i |-> 0, bit |-> 0,
         word |-> {}, low |-> 0, quiet |-> TRUE, result |-> 0]

Init ==
  /\ inode_bitmap = {} /\ data_bitmap = {} /\ dirty_array = {}
  /\ a = [s \in Inodes |-> FreeInode]
  /\ backup = 0
  /\ d_lock = NoThread /\ dir = NoThread
  /\ th = [t \in Threads |-> Idle]
  /\ names = {}
  /\ written = [k \in Keys |-> 0]
  /\ damaged = FALSE

Steps == {"idle", "getattr", "open", "fillup", "answer", "strcpy", "clear",
          "xor_read", "xor_write", "alloc", "set", "link"}

NotFound == 100     \* -ENOENT
BadFile  == 101     \* -EBADF

TypeOK ==
  /\ inode_bitmap \subseteq Inodes
  /\ a \in [Inodes -> [id : {0} \cup 2 .. INODES + 1, size : 0 .. NDIRECT,
                       key : Keys \cup {NoKey, Torn},
                       direct : [0 .. NDIRECT - 1 -> Bits \cup {NoPtr}]]]
  /\ data_bitmap \subseteq Bits
  /\ dirty_array \subseteq {BlockOf(s) : s \in Inodes}
  /\ backup \in Inodes
  /\ d_lock \in Threads \cup {NoThread} /\ dir \in Threads \cup {NoThread}
  /\ \A t \in Threads :
       /\ th[t].at \in Steps /\ th[t].key \in Keys \cup {NoKey}
       /\ th[t].s \in 0 .. INODES + 1
       /\ th[t].i \in 0 .. INODES \/ th[t].i \in 0 .. NDIRECT
       /\ th[t].bit \in 0 .. DATA_BITS + Skew
       /\ th[t].word \subseteq Bits
       /\ th[t].result \in (0 .. NDIRECT) \cup {NotFound, BadFile}
  /\ names \subseteq Keys
  /\ written \in [Keys -> 0 .. NDIRECT]
  /\ damaged \in BOOLEAN

Goto(t, step) == th' = [th EXCEPT ![t].at = step]
Return(t)     == th' = [th EXCEPT ![t] = Idle]

\* The kernel takes the directory's lock: from now on the getattr calls under
\* way overlap a create or unlink.
TakeDir(t, frame) ==
  /\ dir = NoThread /\ dir' = t
  /\ th' = [u \in Threads |-> IF u = t THEN frame
                              ELSE IF th[u].at = "idle" THEN Idle
                              ELSE [th[u] EXCEPT !.quiet = FALSE]]

Writing(k) == \E t \in Threads : th[t].key = k /\ th[t].at \in {"alloc", "set", "link"}

\* The inodes that the scans for a key match, and the one they find.
Live(s, k) == s \in inode_bitmap /\ a[s].id # 0 /\ a[s].key = k
First(k)   == Min({s \in Inodes : Live(s, k)})

-----------------------------------------------------------------------------
(***************************************************************************)
(* objfs_getattr and objfs_open: find_object_id looks at one inode after   *)
(* the other, without a lock; fillup_size_details looks at backup later.   *)
(***************************************************************************)
find_object_id(t, k, for) ==
  /\ th[t].at = "idle" /\ k \in names
  /\ th' = [th EXCEPT ![t] = [Idle EXCEPT !.at = for, !.key = k,
                              !.low = written[k], !.quiet = (dir = NoThread)]]
  /\ UNCHANGED <<store, backup, d_lock, dir, names, written, damaged>>

\* strcmp may find any key in one that is being copied.
scan_match(t) ==
  LET s == th[t].i IN
  /\ th[t].at \in {"getattr", "open"} /\ s \in inode_bitmap
  /\ a[s].id # 0 /\ a[s].key \in {th[t].key, Torn}
  /\ backup' = s
  /\ IF th[t].at = "open" THEN Return(t)
     ELSE th' = [th EXCEPT ![t].at = "fillup", ![t].s = a[s].id]
  /\ UNCHANGED <<store, d_lock, dir, names, written, damaged>>

\* Mutation: the scan goes one inode too far.
More_OneTooFar(i) == i <= INODES

More(i) == i < INODES

scan_next(t) ==
  /\ th[t].at \in {"getattr", "open"} /\ More(th[t].i)
  /\ ~Live(th[t].i, th[t].key)
  /\ th' = [th EXCEPT ![t].i = @ + 1]
  /\ UNCHANGED <<store, backup, d_lock, dir, names, written, damaged>>

scan_end(t) ==
  /\ th[t].at \in {"getattr", "open"} /\ ~More(th[t].i)
  /\ IF th[t].at = "open" THEN Return(t)
     ELSE th' = [th EXCEPT ![t].at = "answer", ![t].result = NotFound]
  /\ UNCHANGED <<store, backup, d_lock, dir, names, written, damaged>>

\* Mutation: backup is not compared with st_ino.
SameObject_Any(ino) == TRUE

SameObject(ino) == ino >= 2 /\ a[backup].id = ino

fillup_size_details(t) ==
  /\ th[t].at = "fillup"
  /\ th' = [th EXCEPT ![t].at = "answer",
       ![t].result = IF SameObject(th[t].s) THEN a[backup].size ELSE BadFile]
  /\ UNCHANGED <<store, backup, d_lock, dir, names, written, damaged>>

getattr_returns(t) ==
  /\ th[t].at = "answer"
  /\ Return(t)
  /\ UNCHANGED <<store, backup, d_lock, dir, names, written, damaged>>

-----------------------------------------------------------------------------
\* create_object: the inode is claimed under i_lock, the key copied later.
\* Without a free inode it returns -1 and nothing has changed.
create_object(t, k) ==
  LET s == Min(Inodes \ inode_bitmap) IN
  /\ th[t].at = "idle" /\ k \notin names
  /\ inode_bitmap # Inodes
  /\ TakeDir(t, [Idle EXCEPT !.at = "strcpy", !.key = k, !.s = s])
  /\ inode_bitmap' = inode_bitmap \cup {s}
  /\ dirty_array' = dirty_array \cup {BlockOf(s)}
  /\ a' = [a EXCEPT ![s].id = s + 2]
  /\ UNCHANGED <<data_bitmap, backup, d_lock, names, written, damaged>>

strcpy(t) ==
  LET s == th[t].s IN
  /\ th[t].at = "strcpy"
  /\ \/ /\ a[s].key # Torn
        /\ a' = [a EXCEPT ![s].key = Torn]
        /\ UNCHANGED <<dir, th, names, written>>
     \/ /\ a' = [a EXCEPT ![s].key = th[t].key]
        /\ names' = names \cup {th[t].key}
        /\ written' = [written EXCEPT ![th[t].key] = 0]
        /\ dir' = NoThread
        /\ Return(t)
  /\ UNCHANGED <<inode_bitmap, data_bitmap, dirty_array, backup, d_lock, damaged>>

-----------------------------------------------------------------------------
\* destroy_object: the bit is cleared under i_lock, the rest without a lock.
destroy_object(t, k) ==
  LET s == First(k) IN
  /\ th[t].at = "idle" /\ k \in names /\ ~Writing(k)
  /\ TakeDir(t, [Idle EXCEPT !.at = "clear", !.key = k, !.s = s])
  /\ inode_bitmap' = inode_bitmap \ {s}
  /\ dirty_array' = dirty_array \cup {BlockOf(s)}
  /\ UNCHANGED <<a, data_bitmap, backup, d_lock, names, written, damaged>>

\* Mutation: the size is left for the next object of the inode.
Cleared_KeepsSize(x) == [x EXCEPT !.id = 0]

Cleared(x) == [x EXCEPT !.id = 0, !.size = 0]

destroy_clear(t) ==
  /\ th[t].at = "clear"
  /\ a' = [a EXCEPT ![th[t].s] = Cleared(@)]
  /\ Goto(t, "xor_read")
  /\ UNCHANGED <<inode_bitmap, data_bitmap, dirty_array, backup, d_lock, dir,
                 names, written, damaged>>

FreedBit(bit) == bit + Skew

\* data_bitmap[idx] ^ mask is read, then written: d_lock is commented out.
xor_read(t) ==
  LET n == th[t].i
      p == a[th[t].s].direct[n]
  IN
  /\ th[t].at = "xor_read" /\ n < NDIRECT
  /\ IF p = NoPtr THEN th' = [th EXCEPT ![t].i = n + 1]
     ELSE th' = [th EXCEPT ![t].at = "xor_write", ![t].bit = FreedBit(p),
                   ![t].word = InWord(WordOf(FreedBit(p)), data_bitmap)]
  /\ UNCHANGED <<store, backup, d_lock, dir, names, written, damaged>>

\* Blocks of objects, and blocks a write has taken and not yet linked.
Owners ==
  {<<"inode", s, n, a[s].direct[n]>> :
     s \in inode_bitmap, n \in 0 .. NDIRECT - 1} \cup
  {<<"thread", t, 0, th[t].bit>> : t \in {u \in Threads : th[u].at = "link"}}

\* What the word is stored for is the bit of a block with an owner, or the word
\* has changed since it was read.
Misses(bit, old) ==
  \/ \E o \in Owners : o[4] # NoPtr /\ o[4] = bit
  \/ InWord(WordOf(bit), data_bitmap) # old

\* The word as the thread read it, with its bit changed.  Bits from DATA_BITS up
\* are never looked at and left out.
StoreWord(bit, word) ==
  data_bitmap' =
    ((data_bitmap \ InWord(WordOf(bit), data_bitmap)) \cup word) \cap Bits

xor_write(t) ==
  LET bit == th[t].bit
      old == th[t].word
  IN
  /\ th[t].at = "xor_write"
  /\ StoreWord(bit, IF bit \in old THEN old \ {bit} ELSE old \cup {bit})
  /\ damaged' = (damaged \/ Misses(bit, old))
  /\ th' = [th EXCEPT ![t].at = "xor_read", ![t].i = @ + 1, ![t].bit = 0,
                      ![t].word = {}]
  /\ UNCHANGED <<inode_bitmap, a, dirty_array, backup, d_lock, dir, names,
                 written>>

destroy_end(t) ==
  /\ th[t].at = "xor_read" /\ th[t].i = NDIRECT
  /\ a' = [a EXCEPT ![th[t].s].direct = FreeInode.direct]
  /\ names' = names \ {th[t].key}
  /\ dir' = NoThread
  /\ Return(t)
  /\ UNCHANGED <<inode_bitmap, data_bitmap, dirty_array, backup, d_lock, written,
                 damaged>>

-----------------------------------------------------------------------------
(***************************************************************************)
(* objstore_write of the next block, through a handle opened before: the   *)
(* block is taken under d_lock, again in a read and a write of the word.   *)
(***************************************************************************)
objstore_write(t, k) ==
  LET s == First(k) IN
  /\ th[t].at = "idle" /\ k \in names
  /\ ~Writing(k) /\ ~(dir # NoThread /\ th[dir].key = k)
  /\ a[s].size < NDIRECT
  /\ dirty_array' = dirty_array \cup {BlockOf(s)}
  /\ th' = [th EXCEPT ![t] = [Idle EXCEPT !.at = "alloc", !.key = k, !.s = s]]
  /\ UNCHANGED <<inode_bitmap, a, data_bitmap, backup, d_lock, dir, names,
                 written, damaged>>

\* Mutation: the scan for a clear bit takes no lock.
free_data_block_Unlocked(t) ==
  LET bit == Min(Bits \ data_bitmap) IN
  /\ th[t].at = "alloc" /\ Bits \ data_bitmap # {}
  /\ th' = [th EXCEPT ![t].at = "set", ![t].bit = bit,
                      ![t].word = InWord(WordOf(bit), data_bitmap)]
  /\ UNCHANGED <<store, backup, d_lock, dir, names, written, damaged>>

free_data_block(t) ==
  LET bit == Min(Bits \ data_bitmap) IN
  /\ th[t].at = "alloc" /\ d_lock = NoThread
  /\ Bits \ data_bitmap # {}                 \* bound: a block is free
  /\ d_lock' = t
  /\ th' = [th EXCEPT ![t].at = "set", ![t].bit = bit,
                      ![t].word = InWord(WordOf(bit), data_bitmap)]
  /\ UNCHANGED <<store, backup, dir, names, written, damaged>>

free_data_block_set(t) ==
  /\ th[t].at = "set"
  /\ StoreWord(th[t].bit, th[t].word \cup {th[t].bit})
  /\ d_lock' = NoThread
  /\ th' = [th EXCEPT ![t].at = "link", ![t].word = {}]
  /\ UNCHANGED <<inode_bitmap, a, dirty_array, backup, dir, names, written, damaged>>

write_link(t) ==
  LET s == th[t].s IN
  /\ th[t].at = "link"
  /\ a' = [a EXCEPT ![s].size = @ + 1, ![s].direct[a[s].size] = th[t].bit]
  /\ written' = [written EXCEPT ![th[t].key] = @ + 1]
  /\ Return(t)
  /\ UNCHANGED <<inode_bitmap, data_bitmap, dirty_array, backup, d_lock, dir,
                 names, damaged>>

-----------------------------------------------------------------------------
Next ==
  \E t \in Threads :
    \/ \E k \in Keys :
         \/ \E for \in {"getattr", "open"} : find_object_id(t, k, for)
         \/ create_object(t, k) \/ destroy_object(t, k)
         \/ objstore_write(t, k)
    \/ scan_match(t) \/ scan_next(t) \/ scan_end(t)
    \/ fillup_size_details(t) \/ getattr_returns(t)
    \/ strcpy(t)
    \/ destroy_clear(t) \/ xor_read(t) \/ xor_write(t) \/ destroy_end(t)
    \/ free_data_block(t) \/ free_data_block_set(t) \/ write_link(t)

Spec == Init /\ [][Next]_vars

-----------------------------------------------------------------------------
Unlinking(k) == dir # NoThread /\ th[dir].key = k

\* Under every name the kernel knows and is not unlinking the scans find an
\* object, with an identifier and with the size of what was written to it;
\* a second inode with that key is at most one whose key is about to change.
ObjectsKept ==
  \A k \in names : ~Unlinking(k) =>
    LET found == {s \in Inodes : Live(s, k)} IN
    /\ found # {}
    /\ a[First(k)].id = First(k) + 2
    /\ a[First(k)].size = written[k]
    /\ \A s \in found \ {First(k)} : dir # NoThread /\ th[dir].s = s

\* No block has two owners and the bit of every owned block is set.
BlocksOwnedOnce ==
  LET owned == {o \in Owners : o[4] # NoPtr} IN
  /\ \A o, p \in owned : o[4] = p[4] => o = p
  /\ \A o \in owned : o[4] \in data_bitmap

\* Blocks are owned once until destroy_object, off by Skew bits and without
\* d_lock, stores a word for the bit of an owned block, or a word that another
\* thread has changed since.  Until then writers that overlap one another and
\* unlinks never share a block, also where a writer stores a word that an unlink
\* has changed since.
OwnedUnlessDamaged == ~damaged => BlocksOwnedOnce

\* A getattr that no create or unlink overlaps finds the object and answers
\* with a size it had during the call, or with -EBADF because another thread
\* has moved backup: never with the size of another object.
StatRight ==
  \A t \in Threads : th[t].at = "answer" /\ th[t].quiet =>
    \/ th[t].result = BadFile
    \/ th[t].result \in th[t].low .. written[th[t].key]
=============================================================================
