------------------------------ MODULE KVStore -------------------------------
(***************************************************************************)
(* What objfs promises its users: a persistent map from keys to objects.   *)
(* An object is a set of written blocks with their values and a size in    *)
(* blocks.  Unmounting and mounting again changes nothing.  The promise is *)
(* for steps between states in which the store below is sound.             *)
(***************************************************************************)
EXTENDS Naturals, FiniteSets

CONSTANTS
  Keys, BlockNo, NoObject, Capacity,
  Limit,           \* first block number past the largest object
  RenameMayMiss    \* a rename may be answered and change nothing

VARIABLES
  kv,     \* key -> object
  call,   \* the operation that completed last, with its result
  sound   \* input: no object was damaged and no two have one key

kvvars == <<kv, call, sound>>

Empty == [size |-> 0, data |-> [n \in {} |-> 0]]

Stored == {k \in Keys : kv[k] # NoObject}

KVInit ==
  /\ kv = [k \in Keys |-> NoObject]
  /\ call = <<"mount">>
  /\ sound = TRUE

\* Each action starts with the answer it gives: this one to op with arguments x
\* and y is in call'[4].
Completed(op, x, y) == call'[1] = op /\ call'[2] = x /\ call'[3] = y

Create(k) ==
  /\ call' = <<"create", k, "ok">>
  /\ k \notin Stored
  /\ Cardinality(Stored) < Capacity
  /\ kv' = [kv EXCEPT ![k] = Empty]

CreateFails(k) ==
  /\ call' = <<"create", k, "full">>
  /\ k \notin Stored
  /\ Cardinality(Stored) >= Capacity
  /\ UNCHANGED kv

Delete(k) ==
  /\ call' = <<"delete", k>>
  /\ k \in Stored
  /\ kv' = [kv EXCEPT ![k] = NoObject]

Rename(k, new) ==
  /\ Completed("rename", k, new)
  /\ k \in Stored
  /\ \/ /\ new \notin Stored /\ call'[4] = "ok"
        /\ kv' = [kv EXCEPT ![k] = NoObject, ![new] = kv[k]]
     \/ RenameMayMiss /\ UNCHANGED kv

\* A write stores its block and changes the contents of no other, in this object
\* or elsewhere.  Appending loses nothing; writing a block again may lose others
\* of the object, and what is past the limit is dropped.
Put(k, n) ==
  /\ Completed("write", k, n)
  /\ k \in Stored
  /\ LET before == kv
         after  == kv'
         old    == before[k].data
         new    == after[k].data
     IN  /\ after = [before EXCEPT ![k] = after[k]] /\ after[k] # NoObject
         /\ after[k].size = before[k].size + 1
         /\ \A m \in DOMAIN new \ {n} : m \in DOMAIN old /\ new[m] = old[m]
         /\ IF n = Limit THEN new = old
            ELSE n \in DOMAIN new /\ new[n] = call'[4]
         /\ DOMAIN old = 0 .. n - 1 => DOMAIN old \subseteq DOMAIN new

Get(k, n) ==
  /\ Completed("read", k, n)
  /\ k \in Stored
  /\ n \in DOMAIN kv[k].data => call'[4] = kv[k].data[n]   \* holes read anything
  /\ UNCHANGED kv

Stat(k) ==
  /\ call'[1] = "stat" /\ k \in Stored
  /\ call' = <<"stat", k, kv[k].size>>
  /\ UNCHANGED kv

StatFails(k) ==
  /\ call' = <<"enoent", k>>
  /\ k \notin Stored
  /\ UNCHANGED kv

Remount ==
  /\ call' \in {<<"unmount">>, <<"mount">>}
  /\ UNCHANGED kv

KVNext ==
  \/ \E k \in Keys : Create(k) \/ CreateFails(k) \/ Delete(k) \/ Stat(k) \/ StatFails(k)
  \/ \E k, new \in Keys : Rename(k, new)
  \/ \E k \in Keys, n \in BlockNo : Get(k, n) \/ Put(k, n)
  \/ Remount

KVSpec == KVInit /\ [][sound /\ sound' => KVNext]_kvvars
=============================================================================
