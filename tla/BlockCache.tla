----------------------------- MODULE BlockCache -----------------------------
(***************************************************************************)
(* The block cache of the objfs_cached build as a component.  cache_lock   *)
(* makes cache_blk_read and cache_blk_write one step each; destroy_object  *)
(* changes cache_index and cache_dirty without the lock, in three steps    *)
(* (test, forget the block, clear the dirty flag).  Spec is what happens   *)
(* when no other call runs during a destroy_object, RacySpec what the      *)
(* multi-threaded FUSE loop allows.                                        *)
(***************************************************************************)
EXTENDS CacheOps

CONSTANT NoBlock    \* no destroy_object is dropping a block

VARIABLES
  c,        \* cache and disk, see CacheOps
  last,     \* the call that completed last, with its result
  victim,   \* the block destroy_object is dropping
  step      \* where in lines 318-320 it is

vars == <<c, last, victim, step>>

TypeOK ==
  /\ c \in Caches
  /\ victim \in Blocks \cup {NoBlock}
  /\ step \in {"idle", "tested", "unindexed"}

Init ==
  /\ \E disk \in [Blocks -> Contents], ptr \in [Slots -> Contents] :
       c = [disk |-> disk, ptr |-> ptr,
            index |-> [s \in Slots |-> -1], dirty |-> [s \in Slots |-> 0]]
  /\ last = <<"mount">>
  /\ victim = NoBlock
  /\ step = "idle"

Idle == step = "idle"

\* Calls from other threads are for blocks of other objects.
Read(b) ==
  /\ b # victim
  /\ c' = cache_blk_read(c, b)
  /\ last' = <<"read", b, c'.ptr[Slot(b)]>>
  /\ UNCHANGED <<victim, step>>

Write(b, v) ==
  /\ b # victim
  /\ c' = cache_blk_write(c, b, v)
  /\ last' = <<"write", b, v>>
  /\ UNCHANGED <<victim, step>>

Discard(b) ==
  /\ Idle
  /\ c' = invalidate(c, b)
  /\ last' = <<"discard", b>>
  /\ UNCHANGED <<victim, step>>

\* objstore_destroy, the process ends, objstore_init in a new one.
Remount ==
  /\ Idle
  /\ c' = empty_cache(flush(c))
  /\ last' = <<"mount">>
  /\ UNCHANGED <<victim, step>>

Next ==
  \/ \E b \in Blocks :
       \/ Read(b)
       \/ Discard(b)
       \/ \E v \in Contents : Write(b, v)
  \/ Remount

Spec == Init /\ [][Next]_vars

-----------------------------------------------------------------------------
\* invalidate(c, b) with the lock not held.
TestVictim(b) ==
  /\ Idle
  /\ c.index[Slot(b)] = Tag(b)
  /\ victim' = b
  /\ step' = "tested"
  /\ UNCHANGED <<c, last>>

UnindexVictim ==
  /\ step = "tested"
  /\ c' = [c EXCEPT !.index[Slot(victim)] = -1]
  /\ step' = "unindexed"
  /\ UNCHANGED <<last, victim>>

CleanVictim ==
  /\ step = "unindexed"
  /\ c' = [c EXCEPT !.dirty[Slot(victim)] = 0]
  /\ last' = <<"discard", victim>>
  /\ victim' = NoBlock
  /\ step' = "idle"

RacyNext ==
  \/ \E b \in Blocks :
       \/ Read(b)
       \/ TestVictim(b)
       \/ \E v \in Contents : Write(b, v)
  \/ UnindexVictim
  \/ CleanVictim
  \/ Remount

RacySpec == Init /\ [][RacyNext]_vars

-----------------------------------------------------------------------------
\* The cache refines a plain array of blocks: every read returns the contents
\* of the last write, across evictions, dropped blocks and remounts.
Abs == INSTANCE BlockStore
         WITH store <- [b \in Blocks |-> CurrentContents(c, b)]

StoreSpec == Abs!AbsSpec

\* Clean slots agree with the disk and empty ones are clean: what makes it safe
\* to evict a slot without writing it back.
Coherent == CacheOK(c)

\* Data written through the cache stays until its block is written again or
\* its object destroyed, also while a block of another object is dropped.
WritesSurvive ==
  [][ \A b \in Blocks \ {victim} :
        CurrentContents(c, b)' # CurrentContents(c, b)
          => Discard(b) \/ \E v \in Contents : Write(b, v) ]_vars
=============================================================================
