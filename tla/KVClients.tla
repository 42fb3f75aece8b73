------------------------------ MODULE KVClients -----------------------------
(***************************************************************************)
(* Programs that use the example store through kvstore.c: several clients  *)
(* run put_key, get_key, lookup_key, rename_key and delete_key at the same *)
(* time, each as its sequence of system calls.  A system call is one step: *)
(* the kernel holds the directory's lock over lookup and create or unlink. *)
(***************************************************************************)
EXTENDS ExampleStore

CONSTANTS
  Clients,
  Values,      \* the values that clients put, none longer than a block
  NoValue,     \* for ValueMap
  Remounts     \* bound on the number of unmounts

ASSUME ClientsAssumptions ==
  /\ Values \subseteq Seq(Bytes)
  /\ \A v \in Values : Len(v) <= BLOCK_SIZE
  /\ NoValue \notin Seq(Bytes \cup {Zero})

VARIABLES
  pc,        \* where in kvstore.c a client is
  key, val,  \* the arguments of its call, while they are needed
  fh,        \* the handle behind its descriptor, 0 without one
  reply,     \* the system call that completed last, with its result
  putval,    \* history: the value of the put_key that created the object
  unmounts   \* history: how often the disk was unmounted

vars == <<storevars, pc, key, val, fh, reply, putval, unmounts>>

Steps == {"idle", "put_write", "get_stat", "get_read", "close"}

Init ==
  /\ StoreInit
  /\ pc = [c \in Clients |-> "idle"]
  /\ key = [c \in Clients |-> NoKey]
  /\ val = [c \in Clients |-> <<>>]
  /\ fh = [c \in Clients |-> 0]
  /\ reply = <<"mount">>
  /\ putval = [k \in Keys |-> <<>>]
  /\ unmounts = 0

TypeOK ==
  /\ StoreTypeOK
  /\ pc \in [Clients -> Steps]
  /\ key \in [Clients -> Keys \cup {NoKey}]
  /\ val \in [Clients -> Values \cup {<<>>}]
  /\ fh \in [Clients -> {0} \cup Ids]
  /\ putval \in [Keys -> Values \cup {<<>>}]

Idle(c) == mounted /\ pc[c] = "idle"

Goto(c, step) == pc' = [pc EXCEPT ![c] = step]

\* A library call of one system call that changes nothing.
Answer(c, r) ==
  /\ reply' = r
  /\ UNCHANGED <<storevars, pc, key, val, fh, putval, unmounts>>

-----------------------------------------------------------------------------
\* objfs_getattr
objfs_getattr(k) ==
  IF find_object_id(k) < 0 THEN "failed" ELSE SizeOf(find_object_id(k))

lookup_key(c, k) == Idle(c) /\ Answer(c, <<"stat", k, objfs_getattr(k)>>)

\* put_key: open(O_CREAT | O_EXCL), write, close.
put_open(c, k, v) ==
  /\ Idle(c)
  /\ Matches(objs, k) = {}
  /\ create_object(k)
  /\ fh' = [fh EXCEPT ![c] = new_id(Min(FreeSlots))]
  /\ key' = [key EXCEPT ![c] = k]
  /\ val' = [val EXCEPT ![c] = v]
  /\ putval' = [putval EXCEPT ![k] = v]
  /\ reply' = <<"create", k, "ok">>
  /\ Goto(c, "put_write")
  /\ UNCHANGED unmounts

put_refused(c, k) ==
  /\ Idle(c)
  /\ find_object_id(k) >= 0 \/ FreeSlots = {}
  /\ Answer(c, <<"create", k, "failed">>)

\* After an error the descriptor is closed only when the program ends.
put_write(c) ==
  /\ pc[c] = "put_write"
  /\ IF HandleOK(fh[c])
     THEN /\ objstore_write(fh[c], val[c])
          /\ reply' = <<"write", key[c], "ok">>
     ELSE /\ reply' = <<"write", key[c], "failed">>
          /\ UNCHANGED storevars
  /\ val' = [val EXCEPT ![c] = <<>>]
  /\ Goto(c, "close")
  /\ UNCHANGED <<key, fh, putval, unmounts>>

\* get_key: open, fstat, read, close.
get_open(c, k) ==
  /\ Idle(c)
  /\ find_object_id(k) >= 0
  /\ fh' = [fh EXCEPT ![c] = find_object_id(k)]
  /\ key' = [key EXCEPT ![c] = k]
  /\ reply' = <<"open", k, "ok">>
  /\ Goto(c, "get_stat")
  /\ UNCHANGED <<storevars, val, putval, unmounts>>

get_refused(c, k) ==
  /\ Idle(c)
  /\ find_object_id(k) < 0
  /\ Answer(c, <<"open", k, "failed">>)

get_stat(c) ==
  /\ pc[c] = "get_stat"
  /\ reply' = <<"stat", key[c], objfs_getattr(key[c])>>
  /\ Goto(c, "get_read")
  /\ UNCHANGED <<storevars, key, val, fh, putval, unmounts>>

\* The kernel asks for the whole block and gives the program what is below
\* the size.
get_read(c) ==
  /\ pc[c] = "get_read"
  /\ IF HandleOK(fh[c])
     THEN /\ objstore_read(fh[c])
          /\ reply' = <<"read", key[c], SubSeq(ReadBlock(fh[c]), 1, SizeOf(fh[c]))>>
     ELSE /\ reply' = <<"read", key[c], "failed">>
          /\ UNCHANGED storevars
  /\ Goto(c, "close")
  /\ UNCHANGED <<key, val, fh, putval, unmounts>>

close(c) ==
  /\ pc[c] = "close"
  /\ fh' = [fh EXCEPT ![c] = 0]
  /\ reply' = <<"close">>
  /\ key' = [key EXCEPT ![c] = NoKey]
  /\ Goto(c, "idle")
  /\ UNCHANGED <<storevars, val, putval, unmounts>>

\* The handlers have no rename: the library of FUSE answers for them.
rename_key(c, k) == Idle(c) /\ Answer(c, <<"rename", k, "failed">>)

(***************************************************************************)
(* delete_key.  An object somebody has open is not unlinked: the library   *)
(* of FUSE renames it away instead, which fails.                           *)
(***************************************************************************)
InUse(k) == \E c \in Clients : fh[c] # 0 /\ key[c] = k

Unlinkable(k) == find_object_id(k) >= 0 /\ ~InUse(k)

delete_key(c, k) ==
  /\ Idle(c)
  /\ Unlinkable(k)
  /\ destroy_object(k)
  /\ putval' = [putval EXCEPT ![k] = <<>>]
  /\ reply' = <<"unlink", k, "ok">>
  /\ UNCHANGED <<pc, key, val, fh, unmounts>>

delete_refused(c, k) ==
  /\ Idle(c)
  /\ ~Unlinkable(k)
  /\ Answer(c, <<"unlink", k, "failed">>)

-----------------------------------------------------------------------------
\* fusermount -u refuses while a file is open.
objfs_destroy ==
  /\ \A c \in Clients : fh[c] = 0
  /\ unmounts < Remounts
  /\ objstore_destroy
  /\ reply' = <<"unmount">>
  /\ unmounts' = unmounts + 1
  /\ UNCHANGED <<pc, key, val, fh, putval>>

objfs_init ==
  /\ objstore_init
  /\ reply' = <<"mount">>
  /\ UNCHANGED <<pc, key, val, fh, putval, unmounts>>

Next ==
  \/ \E c \in Clients :
       \/ put_write(c) \/ get_stat(c) \/ get_read(c) \/ close(c)
       \/ \E k \in Keys :
            \/ lookup_key(c, k) \/ rename_key(c, k)
            \/ \E v \in Values : put_open(c, k, v)
            \/ put_refused(c, k)
            \/ get_open(c, k) \/ get_refused(c, k)
            \/ delete_key(c, k) \/ delete_refused(c, k)
  \/ objfs_destroy
  \/ objfs_init

Spec == Init /\ [][Next]_vars

-----------------------------------------------------------------------------
Visible ==
  LET t == IF mounted THEN objs ELSE table
  IN  [k \in Keys |-> IF Matches(t, k) = {} THEN NoValue
                      ELSE ValueOf(Min(Matches(t, k)))]

(***************************************************************************)
(* To its clients the store is a persistent map of whole values, whichever *)
(* build mounts the disk.                                                  *)
(***************************************************************************)
Busy == {k \in Keys : InUse(k)}

Map == INSTANCE ValueMap WITH map <- Visible, busy <- Busy, Capacity <- MAX_OBJS

ImplementsMap == Map!MapSpec

\* A handle never reaches an object other than the one it was opened for,
\* although identifiers are used again.
HandlesValid ==
  \A c \in Clients : fh[c] # 0 =>
    /\ HandleOK(fh[c])
    /\ objs[Slot(fh[c])].key = key[c]

\* What a client finds under a key is nothing yet, or exactly what the put_key
\* that created the object wrote: no bytes of earlier objects of the slot.
OnlyPutValues ==
  \A k \in Keys : Visible[k] \in {NoValue, <<>>, putval[k]}
=============================================================================
