# TLA+ models of gemOS and objfs

The repository holds four course assignments: three pieces of gemOS, a small
x86-64 operating system (page-table set-up, lazy memory with system calls, a
round-robin scheduler with signals), and objfs, a FUSE object store with a block
cache. This directory keeps TLA+ models of them, TLC configurations and TLAPS
proofs.

    tlc -workers 2 -config MCSchedulerVersions.cfg MCSchedulerVersions
    tlapm SchedulerProofs.tla

## Inventory

| component | source | state | operations | what is hard |
|---|---|---|---|---|
| scheduler | assignment3/schedule.c; the earlier ones in assignment3/working_schedules | context table, current context, saved registers, OS stack frames | timer tick, exit, sleep, clone, signal, alarm, fault | order of ticks and system calls; registers and stacks across switches; sleep and alarm counts in reused slots; starvation |
| block cache | assignment4/objstore.c, lib.c | cache slots, tags, dirty flags, disk | cached read and write, eviction, write-back at unmount | which copy of a block is current, stale copies after an eviction, unlocked invalidation |
| object store | assignment4/objstore.c, objfs.c | inode table, two bitmaps, dirty flags, locks, `backup` | create, find, rename, destroy, write, read, stat, mount, unmount | concurrent FUSE threads, unlocked reads, block reuse, remount |
| example store | assignment4/example/objstore.c, objfs.c | object table, one block per object, cache of whole blocks with dirty flags | create, find, destroy, write, read, stat, mount, unmount | slots, identifiers and cache marks used again; two builds on one disk |
| key-value clients | assignment4/example/test/kvstore.c | descriptors of programs | put, get, lookup, rename, delete | calls of several system calls each that interleave with those of other programs |
| lazy memory | assignment2/entry.c | four-level page tables, segments, frame pools | write, expand, shrink, page fault, exit | boundaries of segments, 32-bit sizes, frames freed twice or leaked |
| context memory | assignment1/context_mm.c | page tables of every context, frame pools | prepare, cleanup | tables shared by three segments, frames freed once |

The components interact as follows. In gemOS the CPU and user programs call the
handlers; the handlers call the frame allocator and the context table of the
kernel, of which the repository has only object files. In assignment 4 the kernel
calls the FUSE handlers of objfs.c from several threads, these call the store,
the store calls the cache (in the `objfs_cached` build) or the disk, and the
cache calls the disk. The example store is a second, smaller program behind the same
handlers; kvstore.c is a library for programs that use it through files. The four
assignments do not call each other.

What makes each component correct:

- scheduler: one context runs; nobody who can run is passed over for ever; a
  sleeper is woken, and only a sleeper; a context continues with its own registers
  on its own OS stack; a signal handler returns to what it interrupted; the machine goes down only when nobody is left;
- block cache: a read returns what was last written, through any evictions and
  remounts;
- object store: a persistent map from keys to objects; no block belongs to two
  objects; nothing is lost by unmount and mount, and overlapping calls mix up no
  objects;
- example store: a persistent map of whole values for its clients, whichever build
  mounts the disk; an open descriptor stays with its object;
- memory: every frame is free or used once; only pages of the segments are
  mapped, with the rights of their segment.

## Modules

| module | models | role |
|---|---|---|
| `Scheduler` | schedule.c | one action per handler |
| `SchedulerVersions` | schedule_v1.c, schedule_v2.c | the earlier schedulers as changes of `Scheduler`, chosen by `version` |
| `SchedulerProofs` | | theorems about `Scheduler` and `SchedulerVersions` |
| `CacheOps` | cache functions of objstore.c, `read_block`, `write_block` | operators on a record of cache and disk, shared by `BlockCache` and `ObjStore` |
| `BlockStore` | | abstract specification of the cache: an array of blocks |
| `BlockCache` | the cache as a component | `Spec` refines `BlockStore`; `RacySpec` adds the unlocked invalidation |
| `BlockCacheProofs` | | invariant and refinement, proved |
| `KVStore` | | abstract specification of objfs: a map from keys to objects |
| `ObjStore` | objstore.c and the handlers of objfs.c | refines `KVStore`; uses `CacheOps` |
| `ObjStoreProofs` | | theorems about `ObjStore` |
| `ObjThreads` | objstore.c under several FUSE threads | the steps of overlapping calls, with locks |
| `ObjThreadsProofs` | | invariant of overlapping calls, proved |
| `ValueMap` | | abstract specification of the example store: a map of whole values |
| `ExampleStore` | example/objstore.c and its objfs.c, both builds | state and one operator per store call |
| `KVClients` | example/test/kvstore.c | programs over `ExampleStore`; refines `ValueMap` |
| `KVClientsProofs` | | invariant of store and programs and the refinement, proved |
| `PageTables` | `allocate` of both assignments, the frame pools | operators on page tables, shared by the next two |
| `VirtualMemory` | entry.c | one action per system call and fault |
| `ContextMM` | context_mm.c | `prepare_context_mm`, `cleanup_context_mm` for several contexts |
| `PageTablesProofs` | | lemmas about `allocate`, for both memories |
| `VirtualMemoryProofs`, `ContextMMProofs` | | invariants of the two memories, proved |
| `MC*` | | sets and symmetries for TLC |

Definitions carry the names of the functions they model. Names with a suffix after
an underscore and a comment "Mutation" are wrong variants of the definition that
follows them; no specification uses them. They exist to show that each property
would notice such a mistake.

### Scheduler

The variables are the fields of `struct exec_context` indexed by pid, the context
`get_current_ctx()` returns, the user registers on the CPU, the free frames for OS
stacks, and `mode` (up, down after `do_cleanup`, fault after a NULL context). The
system call entry disables interrupts and the timer comes through an interrupt
gate, so each handler is one action. Interleaving is the order in which contexts
call handlers and the timer ticks. Registers are abstracted to one value for the
general purpose registers, the place of the instruction pointer (program or
handler) and the return addresses that signals pushed on the user stack. The
kernel's `get_new_ctx` takes the first unused slot (external). A clone when the
table is full dereferences NULL: the model goes to mode fault.

`SchedulerVersions` adds `version`, the file that is linked. schedule_v3.c has the
text of schedule.c. The other two count an alarm once and do not rearm it, put the
frame a signal changed back only if the context keeps the CPU (otherwise the signal
is lost), and never free the OS stack of a context that exits; v1 copies a new
context from the caller of clone, not from init. `do_x_v1` and `do_x_v2` model the
functions of each file; where the text is the same they are defined by the later one.

### Block cache

A cache is a record: the disk, the data, tag (`cache_index`) and dirty flag of
each slot. `cache_lock` makes reads and writes atomic. `destroy_object` drops the
blocks of an object without the lock: `Spec` takes it as one step, which is right
when no other call runs, `RacySpec` as the three steps of lines 318-320.

### Object store

The variables are the globals of objstore.c (inode table `a`, `inode_bitmap`,
`data_bitmap`, `dirty_array`), their copies on disk, the cache record and the last
answer given. Each FUSE call is one action. A block holds zeros, user data, a
table of block pointers or the inode bitmap, so that a block read as something it
is not shows. The inode table has `NDIRECT` direct and `NINDIRECT` indirect
pointers per object and `PTRS` pointers in an indirect block (4, 4 and 1024 in the
code). Calls do not overlap in this module.

`ObjThreads` splits the calls where other threads can come between: `find_object_id`
looks at one inode per step, `fillup_size_details` reads `backup` later;
`create_object` claims the inode under `i_lock` and copies the key afterwards (in
between, and inside `strcpy`, the inode is live with the old key or with `Torn`,
which may match anything); `destroy_object` clears the bit under `i_lock` and then
works without a lock, each XOR of the bitmap being a read and a write of a word;
`free_data_block` has the same two steps under `d_lock`. The kernel's locks
are guards: the directory is locked over create and unlink, the file over write and
unlink; getattr and open take neither. libfuse may exclude more, which only removes
behaviours. Renames, indirect blocks and remounts stay in `ObjStore`, the cache under
threads in `BlockCache`.

What holds there, and why: no block has two owners until an unlink stores a word it
must not (`OwnedUnlessDamaged`). Writers take blocks under `d_lock`, and a block stays
set from the moment it is taken, so the lock alone keeps writers apart; it also makes it
harmless that a writer may store a word an unlink has changed since, which at worst
takes a released block out of use. The mutant is `free_data_block` without the lock. An
unlink has no such protection: it toggles the bit `Skew` above the one it means, and
stores words that other threads may have changed. The history variable `damaged`
becomes TRUE in the step that stores a word for the bit of an owned block, or a word
that is no longer the one read (`Misses`). Nothing is claimed of the blocks afterwards;
names and sizes do not depend on them. A stat that no create or unlink overlaps never
reports another object's size, because the identifier in `backup` is compared; it may
answer -EBADF for an object that is there, which a program that expects its stat to
succeed (tc3_concurrency.sh:66-71) notices. A stat or open that overlaps a create may
find the new inode under the wrong name.

The kernel creates only after a failed lookup, unlinks, renames, reads and writes
only after a successful one, and reads only below `st_size`. These are guards.

Calls read and write one block. `objstore_write` drops the offset inside a block
(objstore.c:410), so a write that starts in the middle of a block replaces the block as
one at its start does; shorter and longer writes are not in the model.

The code keeps its promise to some users only, and until a certain moment. `KVStore`
therefore has an input `sound`, and promises what a step does where `sound` holds
before and after it. `ObjStore` passes `~damaged /\ OneKeyEach`:

- `damaged` becomes TRUE in the `destroy_object` that toggles the bit of a block
  another object reaches, or drops such a block from the cache (`Hits`). Until then
  blocks are taken, released and reused like those of any other disk;
- `OneKeyEach` says that no two objects have one key, which `rename_object` may bring
  about.

The rest is chosen by constants. `store_plain` switches all of them on:

| constant | meaning |
|---|---|
| `Skew` | `destroy_object` toggles the bit `Skew` (574) above the block's own, because `data_block_offset` is a macro `22528+287` without parentheses. Where that bit is clear it becomes set, and a free block is lost; where it is set, a block is released, of another object in general. The runs use 1 and 2, so that the toggled bits are among the few in use. For the indirect blocks the bit may be outside the bitmap, in an unused entry of `dirty_array`; this has no effect |
| `StartCtr` | values of the variable `ctr` of `rename_object`, which is read uninitialised (objstore.c:378): after the first inode, the one whose key is compared and changed is `ctr` above the one whose bit is tested. objstore.c:1 says "Bug: Rename not working prpoerly". With 0 a rename does what it should; with other values it may miss the object, rename a dead inode with that key instead, and mark another block for write-back after renaming the first inode; the map then allows a rename that changes nothing (`RenameMayMiss`), and nothing else |
| `Overwrites` | users write a block again; the size then grows although the object does not |
| `Sparse` | users leave holes among the direct blocks; a hole reads block 0 |
| `PastLimit` | users write beyond the last indirect block; data is dropped silently |
| `RenameOnto` | users rename onto an existing key; the code does not look for duplicates although the comment at objstore.c:370 asks for it, and the old object stays under the same key |

One kind of user is in no run and no theorem (`Writable`): one who leaves a hole at the
first block of an indirect range and writes a later block of that range. The code then
goes through an indirect pointer that is 0 (objstore.c:450-453), takes block 0, the inode
bitmap, for the table, and writes the changed table back to block 0. "All users" below
means all others.

### Example store and its clients

An object has a slot of the table in block 0, the identifier `slot + 2` and the block
of that number. The build with the cache keeps blocks in memory and writes dirty ones
at unmount, the other writes through. The README of the example lets users switch
between the builds, so `objstore_init` chooses one. `create_object` calls
`init_object_cached` with the pointer behind the table; a new object therefore keeps
`cache_index`, `dirty` and contents of whatever the slot had, on disk too, and
`CleanOnDisk` and `ImplementsMap` show why this does no harm.

`KVClients` runs the functions of kvstore.c in several programs, one system call per
step. The kernel holds the directory's lock from lookup to create or unlink. The
handlers register no rename, so FUSE refuses it: `rename_key` always fails although
example/test/kvstore.h:21 says that it "Renames the key". `ValueMap` promises no rename
and has the failure as an action of its own (`RenameFails`). For the same reason an
unlink of an open file fails, since libfuse first renames it away; the map has the keys
that are open as its variable `busy`, so that a delete fails exactly for a key that is
absent or open. Values are at most a block long
(`objstore_write` refuses more). The store says "No concurrency, need to add that"
(objstore.c:2), so one handler runs at a time.

### Memory

`PageTables` keeps the tables as a function from entries to frames with a write
bit; entry `<<l, x>>` is the level `l` entry of the pages with number
`x * Fan^(l-1)` and up. Two pages use the same table exactly if they have the same
entry above it, so sharing of tables at all levels is a matter of page numbers.
Pools count how often a frame is free, so that a frame freed twice shows as 2.

`VirtualMemory` has addresses as page numbers. The state at start is what
`exec_init` of context.o leaves: the program, the first page of DATA and the top
page of the stack, with writable tables. `write` really continues into
`SYSCALL_EXPAND` (no `break` at entry.c:73), which reads the buffer's address as
the size: its result is what the program gets. That size is the lower half of the address, small
only at pages whose number is a multiple of `WRAP` (2^20, the pages that 32 bits hold);
`DATA` contains one in the run. `shrink` has two products. `size * 4096` is unsigned and
wraps at `WRAP` pages; `i * 4096` in the loop that unmaps (entry.c:123) is an int and
negative from half of `WRAP` on (`Signed`), so the loop then looks above `next_free`
instead of below. (The Makefile compiles without optimisation, so the int wraps.) For
`size` 2^32 - 1 the loop never ends, which is left out. The end of the stack counts as inside the segment, so one page
above it can be mapped by an access to exactly that address.

`ContextMM` lets two contexts be created and removed in any order, with code, data
and stack on any three pages.

## Runs

| run | question | bounds |
|---|---|---|
| `scheduler_safety` | All safety properties, for schedule.c and both earlier schedulers | swapper, init, one clone, a fourth frame so that a slot is used again; sleeps of 0 and 2 ticks, alarm of 1, one kind of fault, two nested handlers, two register values |
| `scheduler_live` | Is a READY context run, does a sleep end? | two clones, sleeps of 1 and 2 ticks, no signals |
| `sleep_registers` (violation) | Does every switch save the registers? | as above, one clone |
| `block_cache` | Is the cache an array of blocks? | five blocks over two slots, three contents |
| `cache_race` (violation) | Does data survive while another object is deleted? | three blocks over two slots |
| `store_plain` | Is the uncached store a map, whatever its users do, until a release hits another object's block? | two inodes, two keys, two values, one direct block and one indirect block of one pointer, three data blocks, skew 1, sizes up to three; overwrites, holes, writes past the limit, renames onto keys, `ctr` 0 and 1 |
| `store_cached` | The same through the cache, for users who append | two inodes, two keys, one value, one direct block and one indirect block of two pointers, four data blocks over two slots, skew 2, sizes up to three |
| `store_reuse` (violation) | Does a release spare the blocks of others? | as `store_plain`, for users who append |
| `store_threads` | Do overlapping calls lose, mix up or damage objects? | three threads, two keys, two inodes, two direct blocks, two data blocks in one word, skew 1, behaviours up to the first damage |
| `example_clients` | Is the example store a map of whole values for programs that run at once? | two programs, two keys, two slots, blocks of two bytes, values of one and two, both builds, one remount |
| `virtual_memory` | Frame accounting, mappings and rights under any program | two pages of RODATA, three of DATA with one at a multiple of 2^32, a stack page and its end page, tables of two entries; 32 bits hold eight pages, `shrink` by up to three |
| `context_memory` | Frame accounting and rights over the life of contexts | two contexts, four pages that share tables from none to all levels |

Why the bounds suffice. Two user contexts and the swapper give every pair of
handlers in every order, with a slot reused by clone; a third context is needed for
starvation, since with two the scan has no choice. Five blocks over two slots give
slots contended by three and by two blocks, so that a block is evicted, its
successor too, and the first returns. In the store, one direct
and one indirect block reach each branch of `objstore_write` and `objstore_read`
(direct, first of a range, further entry where it has two), deletes release all
kinds, and two keys for two inodes reach the full table. The disk is small enough that
with `Skew` 1 or 2 a deletion toggles bits in use: blocks are released, lost and
reused, and whether that hits another object depends on the order of the writes. Sizes
end at `MAX_SIZE`: overwrites make them grow for ever. The runs of the store use
`VIEW View`, which leaves out the last answer: no call depends
on the answer, and the properties look at it only in the step that gives it. That of `store_threads` leaves out
what no later step and no property reads: sizes of unknown names, and the size a getattr
began with once a create or unlink has overlapped. There a write starts only while a block is free, and TLC follows behaviours to the first
damage (`CONSTRAINT Undamaged`), after which `OwnedUnlessDamaged` claims nothing; the
proof has no such constraint. With three threads a create or unlink overlaps a stat while
a third call moves `backup` or takes a block; two blocks in one word are enough for a
stored word to undo an allocation.
Two clients and two slots let a slot be used again while the other client is between
its open and its read; a value shorter than the block that follows a longer one shows
stale bytes. For memory,
sizes below half of `WRAP` keep both products of `shrink` exact, which three of the
properties need (see the list below); tables of two entries make neighbours share and separate tables at every level. The
pools are large enough for every mappable page; a fault is not taken when a pool is
empty (`PoolsSuffice`), since the code ignores that case.

`CHECK_DEADLOCK FALSE` is used throughout: the machine stops after `do_cleanup`,
the process after `do_exit`, and bounded disks and handler stacks end behaviours.

### What the violations show

- `sleep_registers`: `do_sleep` saves only the frame registers, so a sleeper
  resumes with general purpose registers of an older save.
- `cache_race`: `destroy_object` clears tag and dirty flag of a slot that another
  thread's write took after the test; the write is lost.
- `store_reuse`: two objects of one block each are written and the first is destroyed.
  With `Skew = 1` the bit that is cleared is that of the second object's block, and the
  next write takes it again. On the real disk this needs more than 574 blocks in use,
  about 2.3 MB.

More defects were met and are modelled, without a run of their own:

- reading a hole in the cached build puts block 0, the inode bitmap, into a slot whose
  dirty flag is left over, and unmounting writes the old bitmap over the new one
  (`Sparse = TRUE`, `NDIRECT = 2` and `RemountKeepsObjects` in
  `MCObjStore_cached.cfg`);
- `sleep(0)` never ends (0 in `SleepTicks` of `MCScheduler_live.cfg`);
- `rename_object` starts from an uninitialised `ctr`; with `StartCtr = {0, 1}` a rename
  may miss (`ImplementsKV` fails in `store_plain` if `RenameMayMiss` is FALSE), and with a
  `ctr` of `INODES_PER_BLOCK` or more the new name is lost by unmounting (`DirtyCovers`
  fails). A rename onto an existing key leaves two objects with one key;
- `rename_key` of kvstore.c never renames, against kvstore.h:21;
- a write of a later block of an indirect range whose first block is missing rewrites
  block 0, and a write that starts inside a block loses what precedes it in the block;
- schedule_v1.c and schedule_v2.c drop an alarm's handler if the tick that delivers it
  switches to another context: `ControlKept` allows that no handler starts, not that
  one under way is dropped;
- a stat that overlaps a create may report the wrong object (`StatRight` without
  `quiet`);
- `write` returns the result of `expand` instead of the number of bytes;
- `shrink` with large sizes. From the 2^19th page on, `i * 4096` is negative: pages that leave the
  segment stay mapped, pages above it are unmapped. For 2^20 pages `next_free` does not
  move, so the test of the bounds passes, and all pages within 2 GB are unmapped, the
  program's included. (`WRAP` in `Sizes` of `MCVirtualMemory.cfg`:
  `ShrinkUnmapsReleased` fails; `WRAP = 4` and size 2: `MappedInSegments` and `Permissions`
  fail.)

### Fairness

`FairSpec` has weak fairness of `Tick` only: the timer is periodic, and no handler
of the model can keep it masked. Nothing is assumed of user programs, which may
compute, sleep or never call anything. The other specifications state no fairness
and only safety is checked of them.

## Proofs

`SchedulerProofs` proves, for every table size, set of ticks, signals and frames:
type correctness, `RunningIsCurrent`, `SwapperOnlyIdles`, `CleanupOnlyWhenAlone`,
`SleepersWait`, `OsStacksDistinct`, `PreemptionSavesFrame` (a preempted context of
schedule.c is saved with all that the tick did to its frame), `ResumesSavedRegs` and
`HandlersNest`. The state properties except the last are
conjuncts of one inductive invariant, because they need each other: the tick loop looks only at `ticks_to_sleep`, so that one context runs rests
on counts belonging to sleepers; that the swapper never shuts the machine down
rests on the swapper running only while somebody sleeps. The conjuncts added are
that the swapper is always READY or RUNNING and sleeps never. There is one lemma per
handler; exit and sleep share a lemma about leaving the CPU. The two action
properties follow from the invariant. `HandlersNest` is inductive given the types:
delivery puts the interrupted address on top (`DeliverNested`), the return of a handler
takes exactly that one off (`ReturnNested`), and every save copies instruction pointer
and stack together. Of `pick_next_context` the proofs use only
which contexts it may return, not the order of the scan.

The module's second part proves all but `PreemptionSavesFrame` of `VersionsSpec`,
whichever scheduler is linked, and `ControlKept`: no step drops a handler that is under
way or starts one twice. `PreemptionSavesFrame` is false of v1 and v2. The invariant is the same. Handlers with
the text of schedule.c reuse its lemmas; exit, tick, clone and alarm of v1 and v2 have
their own. v1 and v2 never free an OS stack, which only makes `OsStacksDistinct`
easier; they drop a frame changed by a signal when the tick switches, and since they
drop instruction pointer and stack together the addresses still nest.

`BlockCacheProofs` proves, for every number of slots and blocks, that types are kept,
that clean slots agree with the disk (`Coherent`) and that the cache implements `BlockStore`. The
argument: slot and tag determine the block (`SlotTagUnique`), so a slot has the
current contents of exactly one block; an eviction changes the disk copy of that
block alone, and the new copy is current (`EvictLemma`); hence reads change the
contents of no block and writes of one. The refinement mapping takes a block's
contents from its slot if the slot holds it and from the disk otherwise.

`ObjStoreProofs` proves, for every number of inodes, pointers, blocks and slots, in both
builds and for all users (the four switches of the user's behaviour are constants):

- types are kept;
- `DirtyCovers`, if `rename_object`'s uninitialised `ctr` starts below
  `INODES_PER_BLOCK` (`SmallCtr`): renaming inode 0 marks the block of inode `ctr`;
- `OwnedUnlessDamaged`, for every skew, size of the bitmap and `ctr`: until a
  `destroy_object` hits a block of another object, no block is reachable from two
  places and the bits of all reachable blocks are set;
- `RemountKeepsObjects`, under `SmallCtr` and, in the cached build, without holes
  (`CACHE => ~Sparse`): unmounting writes the inode bitmap to block 0 first and the
  dirty slots last, so block 0 must be in no slot.

Each condition is one under which the code works; the list of defects above says what
happens without it. The proof first reduces every call to its effect (`WriteEffect` with its four cases,
`DestroyEffect`, `ReadEffect`, `RenameEffect`): which blocks have new contents, what the
disk and the slots may hold, which blocks became cached. For that it takes the lemmas about the
cache from `BlockCacheProofs`, whose constants it instantiates. `BaseInv` (types, clean
slots agree with the disk, inodes with changed pointers are marked) holds without conditions. For
ownership it is not enough that current pointers of live inodes differ: `OwnInv` speaks of
every pointer of every inode, live or not, and of every entry of its indirect blocks
(`Refs`), since an inode that is created again starts with what it has. Each call
changes some of these places, to 0 or to a block just taken whose bit was clear
(`OwnedStep`); a destroy that hits nobody leaves the blocks, the bits and the cached copies of
all others alone (`OwnDestroy`), which is all that has to be known of the skew. For
remounting, `InOrder` says that indirect blocks are made in the order of their ranges: an
appending write then never goes through an indirect pointer that is 0, the other way
for block 0 to come into a slot.

`ObjThreadsProofs` proves `ObjectsKept`, `OwnedUnlessDamaged` and `StatRight` for every
number of threads, keys, inodes and blocks, every skew and width of a word. The invariant says, for each place a thread
can be in, what it relies on there: a create that has claimed an inode is the only one
to touch it until its key is copied, because the directory is locked; a write that has
taken a block holds the file's lock, so that nobody links or frees it; the word that a
write has read under `d_lock` holds every owned block of that word, and the bit it chose is no
owner's (`Fresh`), as long as no unlink has done damage: an unlink that stores a word
unchanged but for a bit that nobody owns takes no owner's bit away, so what the writer
stores later is still right for the owners, if not for the released blocks; of a scan it says that the inodes passed did
not match, so the first match is the object unless a create or unlink came between.
The first match exists by the well-founded order of the inodes (`FirstOf`).

`KVClientsProofs` proves `CleanOnDisk`, `HandlesValid`, `OnlyPutValues` and that the
store and its programs implement `ValueMap`. The invariant relates the three copies of
an object (table in memory, cache, disk) in both builds, mounted or not, says that the
keys of used slots differ, and what each program between two of its system calls may
still rely on. The refinement maps a key to the first `size` bytes of its current copy.
Each call of the store changes that for one key or for none; mounting and unmounting
change it for none, which is where `CleanOnDisk` is needed. The map's
`busy` is the set of keys some program has open; it grows with a create or an open and
shrinks when the last program that has the key open closes it (`BusyChanges`).

`PageTablesProofs` has what both memories need of `allocate()`. `MemInv` says that an
entry is reached through present ones and that no frame in an entry is free or in two
entries; `Grows` that entries stay, that frames of new entries were free, and that no
other frame left its pool. One level (`DescendOK`), all tables (`TablesOK`) and the page
(`MapNewOK`) each keep the first and do the second; at most three frames go per call.
That a new table is zeroed changes nothing, since below an absent entry nothing is present.

`VirtualMemoryProofs` proves, for every layout, table size and number of frames:
type correctness and `FrameAccounting`, whatever the sizes passed to `shrink`, and, if all are
below half of `WRAP` (`SmallSizes`: 2^19 pages), `MappedInSegments`, `Permissions` and
`ShrinkUnmapsReleased`. The invariant adds to `MemInv` that frames out of their
pool are in an entry and that segment ends lie in their segments; under `SmallSizes` also
that mapped pages lie below them, and that the page's own bit is set exactly from `DATA_START`
up and those of its tables at least there (`PlaceInv`); tables may be writable for pages
that are not. For larger sizes the three properties are false, see the list of defects.

`ContextMMProofs` proves `FrameAccounting` and `SegmentsMapped` for every number of
contexts and placement of their pages. The pgd counts as a place for a frame, as the
entries do; the invariant says that no frame in a place is free or in two places of any
contexts, that every other frame is free, and that a live context has entries for its three
pages and nothing else. The argument frame is taken before it is mapped: the proof counts
it as free until then (`Kept`). Cleanup clears a table's entry with the first segment
that comes to it (`Clears`), so the others skip it.

Assumptions, all of which TLC evaluates in the runs: constants have their types; the
context table has at least two slots, the cache one, the inode table one; threads and
frame pools are finite; the values that stand for nothing (`NoValue`, `NoEntry`,
`NoContext`, `NoKey`, `Torn`) are no values; blocks of the store are block 0 and those of the data bits,
and hold nothing, data, a bitmap or a table (`BlockAssumptions`); the segments lie in order, and `exec_init` found the three
pages and nine tables it needs (`VMAssumptions`).

Only model-checked: liveness (TLAPS cannot handle it), that `ObjStore` refines
`KVStore` while it is sound, and what the three violation runs and the list of defects show.

## Not modelled

- Overlapping calls with renames, indirect blocks or unmounting, and overlapping calls
  of the example store, which excludes them itself.
- Crashes: nothing is journaled, objfs promises only what `objstore_destroy` wrote.
- `gemfs.c` (a template with the text of objfs.c), the two copies of `fuse.h`
  (declarations of the FUSE library), option parsing and logging, user programs other
  than kvstore.c (they are the environment), kernel parts that exist only as object files (external where they are called).
  What `do_exit` of context.o does with the page tables of assignment 2 is among
  these.

## Plan

What is left is the refinement of the abstract store as a theorem, `Spec => ImplementsKV`,
which TLC checks in `store_plain` and `store_cached`. `KVStore` promises only what a
step does between sound states, so the theorem needs no condition on the skew or on
duplicate keys, only those of `RemountKeepsObjects`. Beyond `StoreInvariance` it needs an
invariant, under `~damaged`, with these parts:

- a live inode has id `s + 2`; an inode that is not live has size 0
  and no pointers;
- every written position of a live object leads to a block that holds data;
- an indirect block that an inode points to has its first entry in use;
- a pointer on disk is also in the visible block, and a block that is not in the bitmap
  shows no pointers. These two say that forgetting cached blocks when an object is
  destroyed loses nothing of another object.

The steps are then: a write of a new position appends one value to one object, a destroy
removes one object, and every other step leaves all objects as they were.
