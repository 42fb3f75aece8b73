----------------------------- MODULE BlockStore -----------------------------
(***************************************************************************)
(* What the block layer of the object store promises: a read returns what  *)
(* was last written to the block, whatever is read, cached, evicted or     *)
(* flushed in between.  Only a block of a destroyed object may change      *)
(* without a write.                                                        *)
(***************************************************************************)
CONSTANTS Blocks, Contents

VARIABLES
  store,   \* block -> contents
  last     \* the call that completed last, with its arguments and result

absvars == <<store, last>>

AbsInit ==
  /\ store \in [Blocks -> Contents]
  /\ last = <<"mount">>

AbsRead(b) ==
  /\ last' = <<"read", b, store[b]>>
  /\ UNCHANGED store

AbsWrite(b, v) ==
  /\ last' = <<"write", b, v>>
  /\ store' = [store EXCEPT ![b] = v]

AbsDiscard(b) ==
  /\ last' = <<"discard", b>>
  /\ \E v \in Contents : store' = [store EXCEPT ![b] = v]

AbsRemount ==
  /\ last' = <<"mount">>
  /\ UNCHANGED store

AbsNext ==
  \/ \E b \in Blocks :
       \/ AbsRead(b)
       \/ AbsDiscard(b)
       \/ \E v \in Contents : AbsWrite(b, v)
  \/ AbsRemount

AbsSpec == AbsInit /\ [][AbsNext]_absvars
=============================================================================
