# sc_base, specified

TLA+ specifications of the containers, allocators, synchronisation and
entity-component system of scarecrow_base, with the TLC configurations that
check them on small instances and TLAPS proofs for all sizes.  Paths of source
files are relative to `src/`.

## 1. The system

sc_base is a C++17 library without a standard library under it: containers that
take an allocator, a hash map, a mutex over the Linux futex, smart pointers, and
an entity-component system (ECS) built on all of it.  Nothing is persisted and
nothing is sent over a network; the only code meant for several threads at once
is the mutex and the counter of `shared`, and the latter cannot run: no
constructor of `shared` from a pointer sets its control block.

| component | state | operations | correct when |
|---|---|---|---|
| `mutex` (mutex.h/.cpp, futex.h, atomic_utils.h) | `val`: 0 free, 1 locked, 2 locked with waiters | `lock`, `unlock`; the kernel's futex | one owner; no sleeper is forgotten; a free mutex is taken |
| `vec` (vec.h) | memory, capacity, size | push, resize, pop, copy, move, ... | elements are kept; each is constructed and destroyed once |
| `sparse_set` (sparse_set.h) | `dense`, `sparse` | add, remove, has, get_item_index, resize, clear | the two arrays are a set |
| `hashmap` (hashmap.h) | buckets (key, value, distance from home), size | put, get, remove, iteration | the buckets are a map |
| `queue` (queue.h) | a vec, `out` | push, pop | first in, first out |
| `entity_manager` (ecs/entity*.h/.cpp) | generation of each index, queue of free indices | create, destroy, alive | an index has one owner; `alive` tells owners from former ones |
| `ecs`, `component_manager`, `basic_view` (ecs/*.h) | entities, component ids, a pool per component type, iterators | create/destroy entity, add/get/remove component, view loops | each entity has its own instances; a view visits exactly the entities it should |
| `arena_alloc` (arena_alloc.h/.cpp) | two offsets; savepoints | allocate, resize, deallocate, savepoint scope | blocks never overlap |
| `heap_alloc`, `memory` (heap_alloc.*, memory.*) | static counters; header size and flags | allocate, deallocate, header of a block | a block leads back to its header |
| `event_queue` (event_queue.h/.inl) | a vec of bytes, a static write position | write, get | events follow each other, each whole |
| `unique` (unique.h, smart_ptr.h) | a pointer in a compressed_pair | construct, move, assign, reset, release, destroy | the object has one holder and is deleted once |
| `tuple` (tuple.h) | storage | construction, get | members are aligned, whole and apart |
| `shared`, `arr`, `bitset64` | pointer and counter; storage | | not modelled (section 6) |
| hashing, logging, type traits, macros | none, or output only | | |

How they interact: `sparse_set`, `queue` and `event_queue` are built on `vec`;
a pool of components is a `sparse_set` of entity indices beside a `vec` of
instances, kept in step by position; `ecs` keeps the entities of an
`entity_manager` in a vec by position, takes position and index for the same
thing, and finds pools through ids that are numbered once for the whole program;
a view reads several pools at once while the body of its loop calls the ECS
again.  Every container calls its allocator; `mutex` calls the kernel.

What is hard to test here: the orders of atomic accesses, system calls and
signals in the mutex; what unwritten memory holds (`sparse` is grown and not
cleared, on purpose); arrays that must stay parallel through removals; a loop
that goes on while its containers change; indices used again; full tables,
one-bit generations, counters at their limits; offsets put back under live
blocks.  `PROJECT.json` lists each at its line under "hazards".

## 2. Modules

| module | what it is |
|---|---|
| `Mutex` / `MCMutex` / `MutexProofs` | lock and unlock, one action per atomic access or system call |
| `AbstractVecs`, `Vec` / `MCVec` / `VecProofs` | independent sequences; several vecs, of a type with constructors and a destructor or of a trivial one: who owns which memory, and where objects live |
| `VecOps` | the operations of vec on a record of memory, size and space, for a trivial type whose unwritten cells hold anything; constant-level, used by `SparseSet`, `Queue` and `EventQueue` through `INSTANCE` |
| `AbstractSet`, `SparseSet`, `SparseSetProofs` | a set; the two arrays; that they implement the set |
| `AbstractMap`, `Hashmap` / `MCHashmap` / `HashmapProofs` | a map; the Robin Hood table, one action per turn of its loops; that the turns implement the map |
| `EntityManager` / `EntityManagerProofs` | indices, generations, the queue of free indices |
| `Ecs` / `MCEcs` / `EcsProofs` | composes `EntityManager` (`Manager == INSTANCE EntityManager`) with pools and views |
| `Queue` | push and pop over `VecOps` |
| `EventQueue` | write over `insert_at` of `VecOps`, and the position that all event queues share |
| `Unique` | the pointers of uniques, the objects that are allocated, what was deleted |
| `Arena` | offsets, savepoints, the blocks that callers hold |
| `Heap` | headers in front of blocks, operator new and delete, `heap_alloc` and its counter, over malloc |
| `TupleLayout` | the sort, the offsets, the construction and the access of the members of a tuple |
| `MCParts` | `Unique`, `Queue`, `EventQueue`, `Arena`, `Heap` and `TupleLayout` side by side: they share nothing, and a behaviour is one of those that `Parts` names |
| `PartsProofs`, `MemoryProofs` | what is proved of `Unique`, `Queue` and `EventQueue`, and of `Arena`, `Heap` and `TupleLayout` |

`MCParts` also states what its parts assume of the constants (`ASSUME`), so that TLC
evaluates it on the runs and the proofs, which extend it, may cite it.

Definitions bear the names of the code they model; `PROJECT.json` maps each to
its lines.  Variables marked `history` are not in the code: they record what the
properties talk about (who holds what, what was returned) and no action reads
them to decide what the code does.  The operators marked `MUTANT` are plausible
wrong versions of the definition they precede; each property has one that it
catches.

### State and actions

**Mutex.** `val` is the word; `pc[t]` is the next access of thread t, `c[t]` the
local of `lock()`.  `LockFast` is the first compare-and-swap of `lock()`;
`SkipMark`, `MarkWaiters`, `FutexWait`, `Retry` are the turns of its loop;
`Decrement`, `StoreUnlocked`, `FutexWakeOne` are `unlock()`.  The futex is
external and modelled from its use: it compares and sleeps in one step, wakes at
most one thread, and may return on a signal (`Interrupted`).

**Vec.** `vecs[v]` is a vec's data, size and space, `heap` the cells of the
blocks that are allocated; a cell holds an object's value or `Raw`.  There is an
action for each constructor, assignment and call.  One that uses memory or an
object that is not there sets `undefined` (`Misuse`), and nothing goes on from
there.  The copy assignment assigns to cells without an object: `CopyAssign` is a
misuse of a type whose assignment needs one, unless there is nothing to assign
(`Assignable`).  `trivial` says which of the two T is: it is chosen at the start and
stays.  insert_at is for trivial types, and only the event queue calls it: it is in
`VecOps`.

**SparseSet.** `dense` and `sparse` are records with all their cells, also those
past `size`.  `VecOps` gives one outcome for every content (`Garbage`) of freshly
allocated cells.  An operation that would index memory the vec does not own sets
`undefined`.  The history variable `call` is the last call that returned, with its
item and, of remove(), the answer.  `AbstractSet` has it too: each of its actions is
one operation, so that a step of `SparseSet` is matched only by the abstract
operation of the same name, item and answer.

**Hashmap.** The hash is a function `home` that Init chooses in every possible
way.  `Put` and `Remove` begin a call and `PutIntoEmpty`, `PutOverKey`,
`PutSwap`, `PutPass`, `FindStep`, `ShiftStop`, `ShiftBack` are the turns of their
loops.  `Get` probes as get() does; `Assign` is a write through the reference.
In `AbstractMap` put() takes effect as it begins and remove() at one moment
before it ends; all other turns of the loops are stutters of it.

**EntityManager.** `CreateReused` and `CreateFresh` are the two branches of
create(); handles keep the whole generation, and `Masked` is what
`entity::generation()` gives back of it (GENERATION_BITS = 1).  Generations are
counted modulo `GenerationWords`, as u16 does; when the one of an index comes
round (`ComesRound`), the entities destroyed before are no longer in `stale`.

**Ecs.** A pool is the sequence of indices in its set and the sequence of its
instances.  `Touched` is get_component_manager for each component in turn: ids
are given and slots filled on the way.  `Positions` says what get_item_index may
answer, which is anything for a cell of `sparse` that nobody wrote.  A view's loop
is `ViewBegin`, then a `ViewStep` for each ++, and `ViewEnd`; between them, the
loop's body may make any other call, as in the code, where begin() and end() are
taken once.  The history variable `removed` tells behaviours with a removal from
those without, for the properties that a removal breaks.

**Queue.** The vec's cells and `out`.

**EventQueue.** `stream[q]` is the vec of each queue, `event_idx` the static local
of write().  A byte is known by the event and the place in its header or data
that it was written for; `Insertions` are the two calls of insert_at, the second
behind the first.

**Unique.** `pair[u]` is the pointer in a unique that exists; `alive` the objects
that are allocated, `raw` those whose pointer the client has.  The default
constructor and the one from nullptr leave the pointer unwritten
(`ConstructUnwritten`), the defaulted move constructor copies it, and the move
assignment ends with null in both (`MoveAssign`).  It lacks its return statement;
the model is of a build in which it goes on all the same.

**Arena.** Offsets into the buffer as in the code, the address of the buffer
(`Base`) for the alignment, a stack of savepoints, and as history the blocks that
callers hold, each with the number of savepoints it was made under and the
alignment that it was placed with.  resize() has an alignment of its own, any of
`Aligns`: the moving branch places the block by it, the one in place (`ResizeLast`)
takes no notice of it.

**Heap.** Addresses are numbers and `words` has the numbers that headers put into
memory; reading any other word gives `Junk`.  `header_size` counts bytes where
blocks are allocated and words where addresses are computed, as in the code
(`UserAddress`).  `Places` is malloc, which may take any address that no block in
use covers, also one used before.  `Alloc` and `AllocAligned` are mem's;
`New`/`Delete` and `Allocate`/`Deallocate` their two users.

**TupleLayout.** One action per turn of the bubble sort, of the loop that adds up
offsets, and of the construction of the members.  `Init` chooses any sequence of
members.

## 3. What is checked

| run | specification | shows |
|---|---|---|
| `mutex` | FairSpec, 4 threads | exclusion until a late store (below), no forgotten sleeper on a free mutex, an orphaned mutex is so for good, a free mutex is taken (liveness) |
| `mutex_sleepers` | Spec, 2 threads | finding: a contended unlock() wakes nobody |
| `sparse_set` | CarefulSpec, 4 items of 5 words | the arrays are linked, has() and get_item_index are exact, memory is respected, each call does to a set what its name says |
| `sparse_set_remove` | RemovingSpec, 3 items | finding: remove() loses another member |
| `vec` | CarefulSpec, 2 vecs, 3 blocks, up to 4 elements of 2 values, of a trivial type or not | each block has one owner, objects live exactly in elements, nothing is misused, vecs are independent sequences |
| `hashmap` | CarefulSpec, 5 keys on 4 buckets | Robin Hood order, one bucket per key, exact len, a map is implemented |
| `hashmap_reads` | WritingSpec, 2 keys on 2 buckets | finding: a loop over an empty map visits a bucket |
| `entity_manager` | Spec, 5 indices, generations modulo 3, 11 destroys | one owner per index, alive() tells owners until a generation comes round, reuse is delayed |
| `ecs` | Spec, 3 entities, 2 component types, 2 values, 3 views | until the first removal: own instances, exact views, nothing undefined; throughout: lookups by index, as many instances as owners |
| `ecs_instances` | Spec, 1 value | finding: a removal leaves another entity's index past the instances |
| `parts` | PartsSpec, six parts (bounds below) | `Unique`: an object has one holder, and only copied or unwritten pointers lead to a wrong deletion. `Queue`: pop() reads written cells of the vec and small batches are first in, first out. `EventQueue`: events follow each other, in the one event queue that a program may have. `Arena`: blocks are apart and have the alignment they were placed with, and what resize() clears is nobody's. `Heap`: a block leads back to malloc's address, its size and alignment, and the counter is exact. `TupleLayout`: sorting loses no member, each is aligned, whole and found by get<I>() |
| `heap_storage` | PartsSpec with `Heap` alone, 128 bytes | finding: storage behind a header ends past its block |

### Clients

This code has no checks to speak of in a release build, and several operations
are wrong for some legal calls.  Where a call leads to undefined behaviour the
specification of the component has a *careful* client that does not make it, and
what it avoids is named as a guard with a comment: `CanShrink`, `CanPushOwn` and
`CanAssign` (Vec), `KeepsTheRest`, `HasSuccessor` and `Fits` (SparseSet), `CanRemove`
(Hashmap), `BeforeReuse` and the guards of `Common` (Ecs; its Init also says that
the program has one ecs), `GrowthFits` (Arena), `SparesHeaders`
and a header that is set only while no block is in use (Heap).  The guards say,
exactly, when the code can be relied on.  Where a doc, a comment or a test of the
repository promises the case that a guard leaves out, a client without that guard
has a specification of its own (`RemovingSpec` of SparseSet, `WritingSpec` of
Hashmap) and a run that ends in a violation (section 4; what the tests say of
vec.h:139 is there too, without a run).  In `Ecs`, whose components
may be removed in every run, the properties that a removal breaks say so (`removed`).

### Bounds, and why they are enough

- *Mutex*: 4 threads are an owner, a late storer, a sleeper and a newcomer.  The
  proofs cover any number.
- *Vec*: two vecs copy, move and assign to each other and to themselves; three
  blocks are one more than they own, which is what a copy needs.  MIN_CAPACITY 2
  and length 4 make push grow twice.  Vecs, blocks and values are interchangeable.
  Behaviours are of a trivial type or of one with an assignment of its own.  The
  proof covers any number of each, and both kinds of type.
- *SparseSet*: 4 items with MIN_CAPACITY 2 make both arrays grow twice.  Cells
  hold any of 0, 1 and 4: a position in use, another one, one out of range.  The
  proofs cover any size.
- *Hashmap*: a 5th key for 4 buckets reaches the refusal of a full map; every
  function from keys to buckets includes total collision and chains round the
  end.  The map never grows.
- *EntityManager*: MinimumFree 2 (1024 in the code) is passed; an index is used
  again past the one bit that handles compare.  Generations are counted modulo 3
  (65536 in the code).  An index comes out of the queue with two others behind it,
  so it is destroyed at most every third time: of 11 destroys (`MaxDestroys`) one
  index may have four.  Its generation comes round once, with the third of them, and
  the fourth is an owner that came after.  The proofs cover any values, and no proof
  relies on that bound.
- *Ecs*: 3 entities are the first, the middle and the last of a pool; two pools
  may lead a view in turn.  The values are interchangeable (symmetry).  After a
  removal only `InstanceCount` and `LookupIsOwn` go on, which do not tell values
  apart, so only behaviours with instances of one value are followed beyond the first
  removal (`MCOneValueOnceRemoved`, a constraint).  The proofs cover any number of
  each, with no constraint.
- *Queue*: the vec grows from 2 to 4 cells, and `out` wraps.  The proofs cover any
  capacity and any number of values.
- *Unique*: three uniques are one that moves, one that it moves to and one that
  had a copy before; two objects tell what is lost from what is kept.  The proofs
  cover any number.
- *EventQueue*: two queues, a header of two bytes, events of one or two: the
  stream is ten bytes at most (`MaxBytes`), three events or four.  No proof relies
  on that bound.
- *Arena*: the buffer begins at an odd address; sizes 0, 2, 3 include the block
  without bytes, which shares its offset with the next one.  The proof covers any.
- *Heap*: words and DEFAULT_ALIGNMENT are those of a 64-bit build.  The addresses
  are near enough for one block's storage to reach another block's header, and
  aligned to 16, 32 and 128 bytes; sizes are nothing, a word, and one that no
  alignment divides; alignments lie below, at twice and far above the default.
  The proofs cover any of these, for a default alignment of two words.
- *TupleLayout*: alignments 1, 2, 4 and 8, and a size of three times its alignment;
  every sequence of at most four members, so every order the sort may meet.  The
  proofs cover any types and any number of members.

### Fairness

Only `mutex` has a liveness property.  `FairSpec` asks weak fairness of `Step(t)`,
the steps of a call that has begun and can go on: the operating system runs
every runnable thread.  Nothing is asked of `LockFast` and `Decrement`, which
are the caller's decision, or of `Interrupted`: nobody promises a signal.
`CHECK_DEADLOCK FALSE` is set where the system may stop: in `entity_manager` when
indices and destroys run out, in `ecs` after a use of a deleted manager, and in
`parts` after a wrong deletion, at the bound on a stream, and at the end of the loops
over a tuple.

## 4. What the runs found

Five runs end in a violation, and are findings in `PROJECT.json`: each checks what
a comment, an assertion or a test of the repository says.

- `mutex_sleepers`: `atomic_decrement` returns the *new* value, so a contended
  unlock() sees 1, takes it for the uncontended case, and returns with `val` 1 and
  nobody woken (mutex.cpp:28).  `OrphanedForGood` shows that the mutex is lost from
  then on; the other properties show what still holds.
- `sparse_set_remove`: remove() swaps the removed item's cell of `sparse` with the
  last cell and drops that, which may be another member's (sparse_set.h:82):
  `MembersAreFound` fails, and `KeepsTheRest` says for which members it does not.
- `hashmap_reads`: a loop over an empty map visits bucket 0 (hashmap.h:59).  The same
  property, `ReadsAreExact`, fails at hashmap.h:217 too: the default that get()
  returns for an absent key is one object of the program, and may be written to.
- `ecs_instances`: a removal moves the last instance and leaves the set of indices
  as it was (ecs/component.h:74): an entity that has a component is looked up at a
  place without an instance (`AttachedHaveInstances`).  `OwnInstance` is a promise
  until a component is removed.
- `heap_storage`: memory.cpp:89 takes a number of bytes for a number of words and
  aligns nothing: with a header, storage ends behind the memory that was allocated for
  it, and is not aligned as alloc_aligned() was asked (`StorageIsAsAsked`;
  `SparesHeaders` is for the clients that write there).

Seen in the code while modelling it, kept out of the runs by the careful clients or
described by the properties, and not counted as findings:

- mutex.cpp:29 stores 0 in a step of its own after the decrement, over the claim
  of a thread that locked in between; `overwritten` records it, and
  `ExclusiveUntilOverwritten` says that this is the only way to two owners.
- vec.h:278: push() of an element of the vec itself reads it after reserve() has
  given its memory back.  vec.h:242: shrink_to_fit() of a vec without elements
  keeps the pointer to memory given back.
- vec.h:139: the copy assignment assigns to cells without an object (`CanAssign` is
  for when that is defined).  The NonPod of tests/non_pod_struct.h:52-64 bears it only
  because its assignment has its first statements commented out.
- hashmap.h:238: the shift of remove() in a full map may find no place to stop
  (`CanRemove`).  hashmap.h:229: remove() of an absent key deletes a pair.
- ecs/entity_manager.cpp:16: alive() compares 16 bits of generation with one, so
  an entity of an index used three times is dead from the start.
- ecs.h:71: after an index has been used again, position and index differ
  (`BeforeReuse`); ecs.h:88: a deleted manager stays in its slot; ecs.h:107: a
  second ecs finds slots never written (the model has one).
- queue.h:40: with three values, or a push between two pops, values come out
  twice or never; `batched` marks the behaviours before that.
- arena_alloc.cpp:47 clears as many bytes after the new end as it should clear
  before it, and arena_alloc.cpp:45 looks at no bound (`GrowthFits`).
  arena_alloc.cpp:44: a resize in place keeps the old alignment when a greater one is
  asked for; `BlocksAreAligned` says what holds instead.
- memory.cpp:72 tests for the size alone before it tests for size and alignment, so
  the second word of a header has no room of its own.
- event_queue.inl:19: the write position is static, so the first event of a second
  queue is written past its memory (`OneQueuePerProgram`).
- unique.h:17 and 19 leave the pointer unwritten, unique.h:29 copies it, so that two
  uniques delete the object, and unique.h:38-39 lose the object that is moved;
  `copied` and `lost` name these, and the properties say that nothing else goes
  wrong.
- shared.h: its control block is never set.  bitset64.cpp:54: toggle_bit(pos, false)
  clears every bit but the one it names.

## 5. What is proved

`tlapm` checks every step.  All proofs go by an inductive invariant, with a lemma
for each action, and assume only the ASSUMEs of the modules.

- **MutexProofs**, for any set of threads: `TypeCorrect`, `Exclusion`,
  `NoForgottenSleeper`, `OrphanedStays`.  The invariant ties `val` to the place of
  each thread: before a store has hit a claim, an owner is the only thread for
  which val is not 0, a thread past its decrement owns nothing, and one that
  sleeps saw 2.
- **VecProofs**, for any vecs, values, blocks and capacities, and types of either
  kind: `VecCorrect`, from which `ObjectsCorrect` and `VecDefined` follow, and
  `ImplementsSequences` (refinement of `AbstractVecs`).  The four conjuncts of IInv
  are inductive together.  Each operation of the code is one of three changes, with
  a lemma for each, that says what becomes of the memory and of the sequences: a vec
  comes to own a block and gives back the one it had (`BlockReplaced`: construction,
  copying, growing, and any change of elements in place), takes over another vec's
  (`BlockMoved`), or ends up with none (`BlockGone`).  `Bounded` keeps the lengths
  that pop_back() comes to among those that callers may ask for.
- **SparseSetProofs**, for any items, word size, capacity and memory contents:
  `SparseSetCorrect` (with `HasCorrect` and `SparseSetDefined`, which follow) and
  `ImplementsSet` (refinement of `AbstractSet`, call by call).  IInv adds
  `MembersAreItems` to the links; the lemmas on `VecOps` say what reserve, resize
  and push keep.  has() is exact because a cell of `sparse`, whatever it holds,
  only leads to a cell of dense that is compared with the item.
- **HashmapProofs**, for any keys, values, hash function and capacity:
  `KeysCorrect`, `LenCorrect`, `OrderCorrect` and `ImplementsMap`
  (refinement of `AbstractMap`, turn by turn).  `RobinHood` relates a pair to the
  bucket before it; that is not enough for a loop that has come several buckets
  from where it began, and says nothing while remove() has a hole.  IInv states
  `Chain` instead: all buckets back to a pair's home are taken, by pairs that have
  come as far.  With it a key that put() has not met by the time it meets a richer
  pair is in no bucket (so that no key gets two), a pair in hand always has its
  chain (`HandInPlace`), and what remove() shifts back has one too.  `TargetAhead`
  and `StopAhead` say that the loops of remove() end in their bounds, for a client
  that removes what `CanRemove` allows.
- **EntityManagerProofs**, for any limits: `EntitiesCorrect`, `OneOwner` and
  `ReuseDelay`.  IInv = types, one owner per index, `GenerationsAgree` (a held
  handle has the generation of its index, a stale one an earlier one) and
  `FreedInOrder` (the i-th place of the queue was freed by the i-th last destroy).
- **EcsProofs**, for any components, values, views and number of entities.
  `LookupCorrect`: IInv = the queue of free indices only grows before reuse, the
  place of every entity is its index, held entities have places.  `CountCorrect`,
  removals included: `Numbered` says that the ids of components and the slots of
  their managers are one to one, so that giving one component a manager leaves the
  others' alone, and `Counted` that a pool has as many instances as entities have
  the component.  `InstancesCorrect`, `EcsDefined` and `ViewCorrect` from
  `CarefulInv`, which holds until a component is removed: `PoolsHold` says that the
  two arrays of a pool are, place by place, what is attached; `LoopHolds` that a
  loop has visited the entities with all components among the places it has passed,
  each once (`Covered`), and that the pool it goes over is as long as at its start.
- **PartsProofs**.  *Unique*, for any uniques and objects: `OwnersCorrect` and
  `DeletionCorrect`.  The two are inductive together, `OneHolder` standing for the
  sets of holders: a deletion goes wrong only by a pointer that has two holders.
  *Queue*, for any values and capacity: `PopsCorrect` and `BatchesCorrect`.
  `QueueInv` says that `out` is at most one cell behind the elements, that the vec
  has that cell and that a push wrote it; `SmallBatch` adds, while batches are
  small, where the values that wait are.  *EventQueue*, for any types, sizes, header
  and number of queues: `EventsCorrect` and `OneQueueCorrect`.  `EventInv` says that
  one queue has all the events and the shared position is its end, until a second
  queue is written.
- **MemoryProofs**.  *Arena*, for any buffer, sizes and alignments: `ArenaCorrect`
  (with `OffsetsCorrect` and `AlignmentCorrect`) and `WritesCorrect`.  IInv adds
  that a block ends before the last one begins, or begins with it
  (`BlocksAreUnder`), and that blocks older than a savepoint did so when it was made
  (`OlderAreUnder`): this is what makes both the test for the last block in
  resize() and the restored offsets right.  *TupleLayout*, for any types that C++
  allows (a size is a whole number of its alignment, and alignments divide each
  other) and any number of members: `MembersAlignedCorrect` and
  `MembersWholeCorrect`.  `Permuted` says that the sort keeps the members,
  `SortedFrom` that the passes done have put the least aligned last,
  `MembersPlaced` that the offset of a member is the sum of the sizes before it,
  which its alignment divides, and `Stored` what the storage holds so far.  *Heap*,
  for any addresses, sizes, alignments and kinds of header: `LeadsBackCorrect`
  and `TotalCorrect`.  `BlocksInv` says where a block's header and
  storage are and that the words of its header are there; it is inductive because
  blocks begin at multiples of DEFAULT_ALIGNMENT, which is two words
  (memory.h:42-46), so the second word of a header, which has no room of its own,
  still ends before the next block.  `TallyInv` says that the counter is the sum
  over the counted blocks, and that it only stays a number with sizes in headers.

The library's induction theorems are out of the prover's reach, but what a fold or
a recursive function computes is proved all the same where it is needed: a set of
numbers that are not as they should be would have a least member (`LeastNumber`),
and a finite set would have a least part (`PartsFirst`).  On these rest what
`Touched` computes in `Ecs`, and `Sum`, which is what the sums in `TupleLayout`
and `Heap` are, and does not depend on the order.

Every invariant of a run that passes is stated by a theorem, and so are all action
properties and refinements.  Only model-checked: `FreeLockIsTaken`, the liveness
of the mutex (temporal fairness is beyond the prover), and the five violations.

## 6. Not modelled

- `shared`: it is not usable as it is.  No constructor from a pointer sets
  `control_block`, the destructor of the default kind takes the result of a void
  dec(), make_shared does not exist, and its test is commented out.
- `bitset64`: all its operations but toggle_bit are constexpr, declared in the
  header and defined in another file, so that no other file can call them; its
  one user, `comps_bits` of an entity, is set on copies and read nowhere.
- Hash functions (third-party arithmetic; any function stands for them), logging,
  type traits, macros, `arr`, build scripts and the demo program.
- Sizes that wrap `size_t` are left out of `Arena`, indices used again with their
  components out of `Ecs`, and several threads in one allocator out of `Heap` (the
  code says that it is not made for them).

## 7. Plan

Done: `Mutex`, `Vec`, `VecOps`, `SparseSet`, `Hashmap`, `EntityManager`, `Ecs`,
`Queue`, `EventQueue`, `Unique`, `Arena`, `Heap`, `TupleLayout`, and the theorems
above, refinements of `AbstractSet`, `AbstractMap` and `AbstractVecs` among them.

Next, in this order:

1. A view as an abstract specification (the set of entities that a loop is to
   visit, taken out one at a time), with `Ecs` shown to implement it.
2. `Ecs` past the first reuse of an index: what the next owner of an index finds
   attached to it.
3. Threads in `heap_alloc`, once the TODO at heap_alloc.cpp:8 is settled.

One run per question; where a new module needs one, it takes the place of a run
that asks the least, or shares a composing module as `MCParts` does.
