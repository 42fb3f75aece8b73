------------------------------ MODULE ValueMap ------------------------------
(***************************************************************************)
(* What the example store promises programs that use it through kvstore.c: *)
(* a persistent map from keys to values, each written and read as a whole, *)
(* with room for Capacity keys.  test/kvstore.h also says of rename_key    *)
(* that it "Renames the key"; the handlers have no rename, so the map does *)
(* not promise it: every rename fails (RenameFails).                       *)
(***************************************************************************)
EXTENDS Naturals, Sequences, FiniteSets

CONSTANTS Keys, Values, NoValue, Capacity

VARIABLES
  map,     \* key -> value
  busy,    \* the keys that some program has open
  reply    \* the system call that completed last, with its result

Present == {k \in Keys : map[k] # NoValue}

MapInit ==
  /\ map = [k \in Keys |-> NoValue]
  /\ busy = {}
  /\ reply = <<"mount">>

\* Each action starts with the answer it gives.
Create(k) ==
  /\ reply' = <<"create", k, "ok">>
  /\ k \notin Present /\ Cardinality(Present) < Capacity
  /\ map' = [map EXCEPT ![k] = <<>>]
  /\ busy' = busy \cup {k}

CreateFails(k) ==
  /\ reply' = <<"create", k, "failed">>
  /\ k \in Present \/ Cardinality(Present) >= Capacity
  /\ UNCHANGED <<map, busy>>

Set(k, v) ==
  /\ reply' = <<"write", k, "ok">>
  /\ k \in Present
  /\ map' = [map EXCEPT ![k] = v]
  /\ UNCHANGED busy

Get(k) ==
  /\ reply'[1] = "read" /\ k \in Present
  /\ reply' = <<"read", k, map[k]>>
  /\ UNCHANGED <<map, busy>>

Stat(k) ==
  /\ reply'[1] = "stat"
  /\ reply' = <<"stat", k, IF k \in Present THEN Len(map[k]) ELSE "failed">>
  /\ UNCHANGED <<map, busy>>

Open(k) ==
  /\ reply' = <<"open", k, "ok">>
  /\ k \in Present
  /\ busy' = busy \cup {k}
  /\ UNCHANGED map

OpenFails(k) ==
  /\ reply' = <<"open", k, "failed">>
  /\ k \notin Present
  /\ UNCHANGED <<map, busy>>

\* Another program may still have the key open.
Close(k) ==
  /\ reply' = <<"close">>
  /\ k \in busy
  /\ busy' \in {busy, busy \ {k}}
  /\ UNCHANGED map

Delete(k) ==
  /\ reply' = <<"unlink", k, "ok">>
  /\ k \in Present \ busy
  /\ map' = [map EXCEPT ![k] = NoValue]
  /\ UNCHANGED busy

DeleteFails(k) ==
  /\ reply' = <<"unlink", k, "failed">>
  /\ k \notin Present \/ k \in busy
  /\ UNCHANGED <<map, busy>>

RenameFails(k) ==
  /\ reply' = <<"rename", k, "failed">>
  /\ UNCHANGED <<map, busy>>

Unmount ==
  /\ reply' = <<"unmount">>
  /\ busy = {}
  /\ UNCHANGED <<map, busy>>

Mount ==
  /\ reply' = <<"mount">>
  /\ UNCHANGED <<map, busy>>

MapNext ==
  \/ \E k \in Keys :
       \/ Create(k) \/ CreateFails(k) \/ Get(k) \/ Stat(k)
       \/ Open(k) \/ OpenFails(k) \/ Close(k)
       \/ Delete(k) \/ DeleteFails(k) \/ RenameFails(k)
       \/ \E v \in Values : Set(k, v)
  \/ Unmount
  \/ Mount

MapSpec == MapInit /\ [][MapNext]_<<map, busy, reply>>
=============================================================================
