# Data structures, specified and verified

The repository collects data structures taken from production systems (LevelDB,
RocksDB, folly, Oceanbase, Redis, TFS, toft, lizardfs and others) and a few
classes of its own, under `src/ds_algor` and `src/system_design`. The parts do
not form one program. They meet in three places: a cache shard sits on a hash
table, a sharded cache sits on several shards, and folly's skip list sits on
its node recycler.

This directory holds TLA+ modules for the parts whose correctness depends on
interleavings, reference counts or long sequences of calls, the TLC
configurations that check them on small instances, and TLAPS proofs that the
main properties hold for every instance. `PROJECT.json` is the index: it maps
each definition to its source lines and lists runs, mutants, hazards and
theorems.

## 1. Inventory

### Modelled

| part | source | state | operations | what makes it hard |
|---|---|---|---|---|
| RocksDB LRU shard | `lruCache/From rocksdb/cache.cc` | heap of `LRUHandle`, `table_`, `lru_`, `usage_`, `lru_usage_`, capacity, strict flag, `mutex_` | Insert, Lookup, Release, Erase, SetCapacity, SetStrictCapacityLimit, destructor | entries leave the LRU list while pinned; last references are freed after the mutex is released |
| LevelDB LRU shard | `lruCache/From leveldb/cache.cc` | the same without `lru_usage_`; pinned entries stay listed | Insert, Lookup, Release, Erase, Prune, destructor | Prune removes from the list it walks; usage includes entries no longer cached |
| HandleTable (both) | the two `cache.cc` | bucket array, chains, `elems_` | Lookup, Insert, Remove, Resize | collisions, replacement in mid-chain, rehash |
| LevelDB SkipList | `skipList/From Leveldb/db/skiplist.h` | links per level, `max_height_` | Insert; FindGreaterOrEqual, FindLessThan, FindLast; iterator | readers without locks during Insert |
| folly NodeRecycler, Accessor | `skipList/From folly/ConcurrentSkipList*.h` | `refs_`, `dirty_`, `nodes_`, `lock_` | add, addRef, releaseRef, destructors | nodes destroyed while new Accessors appear |
| folly ConcurrentSkipList | `skipList/From folly/ConcurrentSkipList.h` | links, flags and a spin lock per node, `head_`, `size_` | contains, add, remove, growHeight | searches without locks; several node locks at once; a head that is replaced |
| Oceanbase btree, versions | `bTree/From Oceanbase/btree` | `root_pointer_`, root pointers with sequence and `ref_count_`, node lists, free list | get_write_handle, put_pair, remove_pair, clear, rollback, end; get_read_handle and its clear | readers pin a version without a lock while the writer publishes and recycles |
| Oceanbase ObVarCache | `lruCache/From Oceanbase/ob_cache.h` | memory blocks with `item_num_` and `ref_num_`, hash slots, `mutex_` | malloc, add, get, revert, remove, clear, wash_out | blocks are recycled item by item under one lock, items are reached under another |
| BlockingQueue | `system_design/blockingQueue.java` | queue, wait set | enqueue, dequeue | it notifies only when the queue leaves empty or full |
| BlockingQueueImpl | `system_design/blocking_queue.java` | queue, wait set | put, take | one wait set for two conditions |

### Not modelled yet

All are components in `PROJECT.json`, and the hazards already seen in them are
listed there with the line. What is left out of the modelled parts is said in
section 2.

| part | properties of interest |
|---|---|
| RocksDB SkipList | an Insert that trusts `prev_` links at the right place |
| Redis sorted set, skiplist-master | spans equal distances, rank and index are inverse |
| ShardedLRUCache (both) | the shards' capacities cover the total; SetCapacity against running clients |
| Oceanbase cmbtree, QLock, ObHashTable | latches during splits, recycling, timed waits |
| lizardfs, TFS, toft caches, `lru.cpp` | a value obtained outside the lock, list and map agree |
| cuckoo filter, Bloom filters, filter blocks | what was added is found |
| jimDB B+ tree, bplustree-master, cpp-btree | a sorted map after every split and merge |
| ZooKeeper, gRPC and tair hash tables | a map across expansion and removal through an iterator |

### Left out

* Hash functions (tera, toft, CityHash, Murmur, LevelDB): they mix bits and keep
  no state.
* `singleton.cpp`, the algorithm exercises, and the course material under
  `boolan/` and `system_design/`: examples without state between calls, notes,
  saved pages.
* The JavaScript files: they belong to articles saved from the web beside the
  notes (comment widgets, syntax colouring, counters, jQuery), and none of the
  data structures calls them.
* The Redis server around the sorted set, and the typed wrappers of the
  Oceanbase tree: layers without control that concerns the structures.

## 2. Modules

```
CacheContract <--refines-- RocksLRUCacheContract --extends--> RocksLRUCache --> Lists
CacheContract <--refines-- LevelLRUCache --> Lists
KeyMap        <--refines-- HandleTable        (the map that both shards use)
BoundedQueue  <--refines-- BlockingQueue, BlockingQueueImpl --> JavaMonitor
LevelSkipList     ConcurrentSkipList     NodeRecycler
BtreeRounds --extends--> BtreeRoots --> Lists        ObVarCache

RocksLRUCacheProofs, LevelLRUCacheProofs --extends--> CacheLemmas --> Lists
BtreeRootsProofs --extends--> BtreeRounds, CacheLemmas
LevelSkipListProofs    ConcurrentSkipListProofs    NodeRecyclerProofs
BlockingQueueProofs    (both queues)
```

`MC*` modules add symmetry sets and constants for TLC; the other modules are
checked directly. Operators whose comment begins "Mutant of", or "As" and the
name of another, are deliberate errors; they are used only to confirm that each
property can fail.

### RocksLRUCache, RocksLRUCacheContract

A `Handle` is an address, reused once its entry is freed; `entry` is the heap.
The table is the map `table` from keys to addresses, which is what HandleTable
is shown to implement. `lru_` is the sequence `lru`, oldest first. `pins`
counts the handles that clients hold; it is no variable of the code, and the
reference count must agree with it.

A critical section without a loop is one action (`Lookup`, `Release`,
`Erase`). Insert and SetCapacity run the eviction loop, one action per
iteration, with `mutex_` held in between. Entries that lost their last
reference go to `doomed`, the thread's `last_reference_list`, and are freed one
by one after the mutex is released, interleaved with everything else.

`RocksLRUCacheContract` adds the exactness of the usage counters and the
refinement of `CacheContract`: an entry stays as it is while it is cached or
held, and its deleter runs once, after that.

### LevelLRUCache

The same conventions. All entries of the table are on the list here, `usage_`
counts what is not yet freed, and entries are freed under the mutex. Prune
walks the list with a cursor, one action per entry.

### HandleTable, KeyMap

Chains are sequences, and the slot that FindPointer returns is a position in a
chain. `KeyMap` is a plain map whose calls return what the key had before. A
behaviour is one of LevelDB's table (4 slots, at least one slot per element
after Resize) or of RocksDB's (16 slots, at least 1.5).

### LevelSkipList

A node is its key. One action is one load or store of a link or of
`max_height_`: Insert stores the new node's link and publishes the node on one
level at a time, and a search moves one link at a time. `Unset` is the content
of a link before it is stored, so a reader that loads one is visible.
`before` records what the list held when a search began; it is no variable of
the code.

### NodeRecycler

One action is one access to `refs_`, `dirty_` or `lock_`, or private work
between two. The list is reduced to the set of linked nodes. What a client may
still point to is everything linked at some time in its Accessor's life
(`seen`), which is all that the list itself could hand out. There is one list,
and its owner outlives the Accessors. Assigning one Accessor to another of the
same list is the steps of the destructor followed by those of the copy
constructor; assignment between Accessors of different lists is left out, and
PROJECT.json lists its hazard.

### ConcurrentSkipList

A node is a number in the order of allocation, with its links, key and height;
`full`, `marked` and `lock` are its flags and spin lock. One action is one
access to a link, a flag, `head_` or `size_`. What follows on taking a lock and
is protected by it belongs to the action that takes it, so `LockLayer` locks one
predecessor and validates it, and `MarkNode` and `SwapHead` lock and change one
node. `my[p]` holds the locals of the call. A removed node keeps its links, since
searches may still stand on it; when its memory may go is NodeRecycler's subject.
`seen` records what a call's key was during the call (absent, being linked,
present), and answers are compared with it; it is no variable of the code.

contains counts a key whose node is still being linked and remove does not, so a
thread may find a key and then fail to remove it although nobody removes it.
`AnswersRight` states exactly that much.

Left out: lower_bound, first, last, iterators and the Skipper, which only read,
pop_back, which is last and remove, and the destructor. `last` loads `head_`
twice, in an order that find and the insertion search avoid; PROJECT.json lists
the window as a hazard.

### BtreeRoots, BtreeRounds

A tree is its set of nodes and the node at the top. The writer holds `wl_mutex_`
and works on nodes that no version has yet, one action per call; publishing,
complementing the tag of the old root, and each root pointer of the recycling
loop are actions of their own. put_pair copies a path and adds one node for each
level that add_pair_to_node splits, and a new top when it splits them all
(`Splits`). A reader takes one action per load of
`root_pointer_` and per access to a root pointer. `root_pointer_` is a plain
member, so a use of it is a load or the value of the load before, as a compiler
may choose.

`stray` is a history variable. A rolled-back root pointer goes back to the
allocator and is zeroed when it is handed out again. A delayed reader that read
the count of the empty root can then count itself in it. The pin properties
state what holds until that has happened.

`BtreeRounds` adds one more history variable, `calm`: the readers whose round of
get_read_handle nobody has disturbed so far, by publishing a version or by
changing the count of the current one. `LockFree` says that such a round does not
fail.

Left out: keys and the shape of the tree, cursors, nested write handles, key
reference counts, destroy, the root pointer's memory reused as a node, and
wraparound of the 32-bit sequence. Memory does not run out, and no tree reaches
`CONST_MAX_DEPTH`.

### ObVarCache

An item is a block and a place in it, with a size. An item that does not fit in
the current block starts a new one, and one larger than `CACHE_MEM_BLOCK_SIZE` a
block of its own size; wash_out deducts `CACHE_MEM_BLOCK_SIZE` for either. What is
done under a slot mutex is one action. `recycle_block` is one action per access
that others can see: the next item, the test of its link, the unlinking, and the
test of `ref_num_`. The hash table maps each key to its item or to nothing.
`ClearAlone` says whether clients keep to reverting all pairs and staying out
during clear. `max_no_active_usec_` is 0 and memory does not run out.

When add copies an item out of a recycled block it takes a reference in
`total_ref_num_` that nobody gives back. So `RefsExact` claims only that
`total_ref_num_` misses no pair, and the destructor's error "some cache pairs not
reverted" (line 481) may be a false alarm.

Left out: init and destroy, set_max_mem_size, and `hash_item_num_`. That is a
plain integer which add, remove and recycle_block change under the mutexes of
different slots (lines 312, 361, 386), and `remove(item)` counts an item out even
if `remove(key)` has just done so. Updates are lost in both directions, and only
get_cache_item_num reads it: nothing can be said of it.

### BlockingQueue, BlockingQueueImpl, JavaMonitor, BoundedQueue

`JavaMonitor` models the Java monitor, which is not part of the repository: a
thread is out, entering, waiting or woken. Spurious wakeups and interrupts may
come at any time while a thread waits. `BoundedQueue` is a bounded FIFO queue
in which a call takes effect in one step and some enabled call always returns.
`MCBlockingQueues` has both classes over the same variables; a behaviour is one
of either.

## 3. Model checking

| run | instance | distinct states | shows |
|---|---|---|---|
| `rocks_lru` | 2 threads, 2 keys, 3 addresses, charges 1-2, capacities 1-2 | 40,824 | no dangling handle, exact usage, capacity, strict limit, cache contract |
| `rocks_release_assert` | as `rocks_lru` | violated | see the findings below |
| `level_lru` | 2 threads, 3 keys, 3 addresses, charges 1-2, capacities 0, 3 | 59,244 | exact references and usage, no dangling handle, Prune removes exactly what nobody holds, cache contract, every call returns |
| `handle_table` | 5 keys, first arrays of 4 and 2 | 17,860 | exact count, every handle on its chain, refinement of KeyMap |
| `level_skiplist` | 3 keys, height 3, 1 reader, 1 writer | 196,616 | levels sorted after every store, searches exact, every search returns |
| `folly_skiplist` | 3 threads, 3 keys, 3 calls, height 2, lists of 2 short or tall nodes | 607,569 | links lead upward, no announced key is lost, what is recycled is out of reach, locks in one order, every answer right at some time during its call, no deadlock |
| `recycler` | 3 Accessors, 3 nodes | 72,578 | no use after free, each removed node owned once, nodes left behind are destroyed by a later Accessor that is alone |
| `btree_roots` | 4 write handles, 3 root pointers, 5 nodes, trees of up to 3, 1 reader | 612,468 | a pinned version stays as it was and was current during the call, exact counts, every node owned once, exactly what recycling frees, a round fails only if disturbed |
| `ob_cache` | 2 threads, 2 keys, 3 blocks of size 2, items of size 1 and 3, 3 items | 940,309 | no pointer into a freed block, references counted, a recycled block is empty, blocks and memory accounted for, what wash_out achieves |
| `ob_wash` | 1 thread, 2 keys, 4 blocks, 5 items, at most 2 blocks visited | 293,943 | what wash_out achieves on longer lists |
| `ob_clear` | 1 thread, 2 keys, 2 blocks, 3 items | violated | see the findings below |
| `blocking_queues` | 4 threads, 2 items, limit 2, either class | 162,368 | no lost wakeup, refinement of BoundedQueue with its progress |

Symmetry (of keys and of addresses) is used in `rocks_lru`, which checks safety
only; its count is of orbits, and the same instance without symmetry has 476,244
states. `folly_skiplist`, `ob_cache` and `ob_wash` use symmetry as well and check
no liveness.

### Bounds and why they are enough

* Shards: three addresses make replacement of a pinned entry, and reuse of an
  address, happen. The LevelDB shard has as many keys, so that Prune can walk a
  list with a first, a middle and a last entry. (By hand, 4 addresses with 3
  keys, 418,836 states, satisfy the same properties.) Charges of 1 and 2 against capacities
  of 1 and 2 make an insertion evict none, one or several entries, or fail. With
  two threads, one can be freeing or hold the mutex while the other calls.
  `MaxPins` bounds the handles out on one entry; two are needed to tell the
  last Release from an earlier one. Capacity 0 is a LevelDB case of its own:
  nothing stays cached.
* HandleTable: the hashes 1, 1, 5, 2, 10 give equal hashes, keys that part
  when the array grows, and keys that do not. RocksDB's first array of 16 is
  scaled to 2, since 17 keys would be needed to make it grow; the rule for
  growing is the code's. `MaxDoublings` bounds the array and is not reached.
* Skip list: with three keys a node goes in first, last or between two. Three
  levels are needed for a level that is neither top nor bottom. Readers do not
  affect each other or the writer, so one is enough; the proofs cover any
  number.
* Recycler: with three Accessors one destroys while one enters and another
  removes.
* folly skip list: three calls let an insertion, a removal and a search, or two
  insertions and a removal, meet at one key or at neighbours. Height 2 has a layer
  that a node may or may not be on, and with a size limit of 2 for a head of
  height 1 the third key makes the head grow.
* B-tree: four write handles publish, roll back and recycle with three root
  pointers, so that addresses come back. Trees of three nodes are the smallest in
  which the top is split, and in which a node below it is. One reader is enough
  for a count to be raised late, and only publications disturb it. By hand, two
  readers that disturb each other too, with three write handles and two root
  pointers (3,998,765 states up to symmetry), satisfy the same properties.
* ObVarCache: three blocks and a limit of one make wash_out recycle a block while
  another is filled; two small items to a block make a walk stop in between, and
  the large ones have a block that counts for more than wash_out deducts. In
  `ob_wash` lists have up to three blocks: wash_out passes over a pinned block and
  frees the next, and stops at `MaxTraverse` with blocks left (both were confirmed
  to be reached).
* Queues: with four threads two producers and two consumers can be inside. A
  limit of 2 has a size that is neither empty nor full.

Deadlock is checked in every run but those of the B-tree and of ObVarCache, where
the bounds on write handles and items end every behaviour; none is found. In
`folly_skiplist` the model stutters only when every call has returned, so that
the absence of deadlock says that no thread is left waiting for a lock.

### Fairness

* LevelDB shard: weak fairness of a thread inside an operation. It holds the mutex or
  frees private entries and waits for nothing.
* Skip list: weak fairness of each reader's search; none for the writer, which
  may stop anywhere.
* Recycler: weak fairness of a thread inside a call. A thread that waits for
  `lock_` gets no strong fairness, because MicroSpinLock is not fair. `Reclaimed`
  needs none: it speaks of an Accessor that comes and goes while there is no
  other.
* B-tree: none. A reader that is disturbed in every round, by publications or by
  other readers, spins for ever, so get_read_handle promises no return. What it
  promises, `LockFree`, is an action property.
* Queues: weak fairness of a thread that contends for the monitor. A woken
  thread finds the monitor free between any two actions. No fairness is given
  to callers, interrupts or spurious wakeups.

### Memory model

Loads and stores are sequentially consistent. In the skip list, readers load
links with acquire and Insert publishes with a release store; its `NoBarrier`
accesses to links are made by the only writer, to its own node or to read what
it wrote itself. The exception is `max_height_`, which readers load without a
barrier: the model gives them the last value stored, also when no link of the
new levels is published yet, and a value older than that is not modelled. In
the recycler `refs_` and `lock_` are changed by locked instructions on x86-64,
the only platform that the code supports. The same holds for `head_` and the
links of folly's skip list, which are atomic or protected by the node's lock
when they are stored. The B-tree's `root_pointer_` is neither; BtreeRoots lets
each use of it be a new load or the one before, and assumes that a use after a
store through the handle is a new load. A compiler that merged all loads of a
round could make a reader pin a root that is not published yet.

### Findings

**RocksDB shard.** `Release` drops an entry when `usage_ > capacity_` and asserts that the LRU
list is empty "since the cache is full" (`cache.cc:387-389`). Insert without a
returned handle and without the strict limit lists its entry even when pinned
entries already fill the capacity (line 465). The next Release then meets a
non-empty list: `ReleaseAssertion` is violated. What does hold, and is proved,
is `OverCapacity`: at most one entry is listed.

**ObVarCache.** The interface says that clear clears "all cache item"
(`ob_cache.h:121`). When a pair is out, clear recycles the current block in place,
cannot free it, and fails. `cur_mem_block_offset_` stays behind the items that
were walked while `item_num_` starts again at 0, so the next walk over the block
(line 926) unlinks the wrong items. A later clear then frees the block and reports
success while the hash table still holds an item in it: `ClearEmpties` is
violated. Clients that call clear alone and with every pair reverted do not meet
this; `ob_cache` checks those.

## 4. Proofs

TLAPS proves the following for every value of the constants that satisfies the
assumptions of the module (null values outside their sets, positive limits,
finitely many addresses where charges are added up, finitely many readers where
they are counted). The two shards, the recycler, the LevelDB skip list and the
B-tree have a theorem for every safety property of their runs; of the queues the
safety part of `Progress` is proved, and of folly's skip list two of the four
invariants.

A leaf that needs no arithmetic names `ZenonT`: it is the faster prover there.

**Lists and totals** (`CacheLemmas`). What `Append`, `Tail`, `RemoveFirst` and
putting in front do to the members, the length and the injectivity of a list;
and what a sum over a finite set does when one or two of its terms change. The
latter is proved from the definition of `SumFunctionOnSet` by the minimal
counterexample: the assumption `Finite(Handle)` says that every nonempty set of
sets of addresses has a minimal member.

**RocksDB shard** (`RocksLRUCacheProofs`; every property that its run checks
and that holds).

* *Safety.* The properties are not inductive alone. The invariant `IInv` adds
  `Control` (where a thread is says whether it holds the mutex, has an entry in
  hand, or has entries to free), `TableKeys` (an entry is filed under its own
  key), `FreshEntry` (an entry being inserted is known to its thread only) and
  that the LRU list repeats nothing. There is one lemma per action. Besides
  `IInv'` it concludes which entries the action concerned (`Untouched`, `Only`,
  `Dropped`, `LivesOn`, `Accepted`), and the arguments below use nothing else of
  the action. Theorems: `TypeCorrect`, `EntryStatesHold`, `HandlesStayValid`,
  `NoDoubleFree`, `NothingLeaks`.
* *Contract.* To the contract an entry is live while it is settled, dying while
  it waits to be freed, and otherwise absent (`StateFacts`). With that every
  action maps to one step of `CacheContract` or stutters: `ContractKept`.
* *Usage.* `UsageExact` compares counters with sums over sets that change with
  every step. Each entry gets a weight, its charge or zero (`UseWeight`,
  `ListWeight`), and both sums become sums over all addresses, of which a step
  changes one or two terms. Theorems: `UsageIsExact`; `CountersNeverWrap`, since
  sums of charges are not negative; `StrictLimitKept`.
* *Capacity.* `CapacityRespected` follows from `IInv` and an argument about the
  eviction loops: they stop when the entry fits or the list is empty, and one
  entry at most is listed after that.

**LevelDB shard** (`LevelLRUCacheProofs`; every property that its run checks,
liveness apart).

* *Safety.* `RefsExact` and `NoDanglingHandle` follow from `Sound`, which says of
  each address either that its entry has exact references or that nothing refers
  to it. To be inductive it needs `Control`, `TableKeys` and a list without
  repetition. The cursor of Prune needs `Swept`: it stands at a position of the
  list before which every entry is pinned. Prune takes the entry at the cursor
  off the list or passes it; in the one case the position stays and in the other
  it moves on, and both keep `Swept`. A cursor thus never leads to a freed entry,
  although Prune frees entries of the list it walks. Theorems: `TypeCorrect`,
  `RefsCounted`, `HandlesStayValid`.
* *Prune.* `PruneTakesTheRest` is an action property. While Prune runs nobody
  else has the mutex, so only Prune itself takes entries off, and it tests the
  references first, which are exact. When it ends its position is past the end
  of the list, and `Swept` says that all that is left is pinned.
* *Usage, capacity, contract.* `UsageIsExact` uses the weights of the RocksDB
  proof, with one weight: an entry counts until it is freed. `CounterNeverWraps`
  follows. `CapacityRespected` says that nothing is left to evict, which is
  stronger than what holds of the RocksDB shard, because pinned entries are on
  the list too. `ContractKept` is the refinement of `CacheContract`.

**Oceanbase B-tree** (`BtreeRootsProofs`; every property that its run checks).
None of the properties is inductive, and the
invariant `IInv` has two halves.

* *Pins* (`PinInv`). `Tags` is the heart of the protocol: a published root
  pointer has its own sequence as the tag of its count only while it is current,
  or was until a moment ago and the writer has yet to complement the tag. A
  reader's compare-and-swap succeeds only on an unchanged tag, so only on such a
  root pointer. `Knows` says what the tag that a reader has read tells it at each
  point of get_read_handle: if any root pointer still has that sequence, it held
  the current version at some time of this call. This outlives the reuse of root
  pointers because a sequence is given once (`Ordered`). With `Shape` (a root
  pointer is on one list), `Counts` and `Pinned` this is inductive, and it gives
  `CountsAreExact` and `PinsAreRecent`.
* *Nodes* (`NodeInv`). `Allocated` and `Apart` say where each node is, `Draft`
  what the open write handle has copied, added and dropped. `Readable` says that
  the nodes of a version are all there as long as a reader has it or may still
  pin it. The recycling loop looks at sequences only: it releases what waits on a
  version except the nodes no newer than the nearest older version in use. That
  this is not too little needs the converse, `Complete`: a node that still waits
  is in every version from its own sequence on. Together they give `PinnedStayIntact`, `NodesAreAccounted` and the action
  property `RecycleReleasesTheRest`.
* *Rounds* (`RoundsInv`). What a reader has loaded in an undisturbed round is what
  it would load now: the root pointer it holds is the current one, and the count
  it read is the current count. By `Tags` its tag is then the sequence, so neither
  comparison nor the compare-and-swap can fail: `RoundsAreLockFree`, for any number
  of readers and publications.
* *Counting.* The number of holders of a root pointer is a `Cardinality`; what it
  does when a reader comes or goes is collected in `Sizes` and derived from
  `IsFiniteSet(Reader)` by the theorems about finite sets.

As in the runs, `CountExact`, `PinRecent` and `PinnedIntact` say nothing once
`stray` is set (section 2). `NodesAccounted`, `RecycleExact` and `LockFree` hold
regardless.

**LevelDB skip list** (`LevelSkipListProofs`). The order of the levels is
nearly inductive, since a link leads to the least greater node of its level.
Added are `SearchInv` (a search stands before its target on a node of its
level), `InsertInv` (`prev[l]` is the node before the new key on every level not
yet done) and `Unlinked` (who has a link where). Theorems: `TypeCorrect`,
`SortedAlways`, `NestedAlways`, `StoredAlways`, and the action properties
`SearchesExact`, `ScansUpward`, `NeverUnlinked`.

**folly NodeRecycler** (`NodeRecyclerProofs`). Added are `Control`, `DirtyInv`
and `Safe`: once an Accessor has passed the test under the lock, no node that
it is about to destroy is one that anybody may point to. Theorems:
`TypeCorrect`, `RefsCount`, `PointersStayValid`, `RemovedNodesOwned`,
`DirtyTold`.

**BlockingQueue, BlockingQueueImpl** (`BlockingQueueProofs`). The types and
`WaitJustified` are inductive together: the size leaves 0 or the limit only in a
step that empties the wait set. Theorems: `TypeCorrect`, `NoLostWakeup`, and
`Implements`, that the class refines the safety part of `BoundedQueue`
(`Contract`, which the run's `Progress` includes). `ImplNoLostWakeup` and
`ImplImplements` say the same of BlockingQueueImpl, which keeps the same
invariant.

**folly ConcurrentSkipList** (`ConcurrentSkipListProofs`). Searches run without
locks and may stand on removed nodes, so the invariant `IInv` cannot speak of
what is reachable. It says what a thread knows for good of the nodes it has met,
since the key and the height of an allocated node never change (`Stable`):
`SearchFine` (the predecessors found have smaller keys, and the successors larger
ones if the key was not found), `PredsFine` (predecessors descend with their
layers), `ChangeFine` (what is about to be linked, unlinked or replaced) and
`LocksFine` (which locks a thread holds where). `OtherKept` shows once that a step
of another thread keeps all this; the rest is one lemma per action. Theorems:
`UpwardAlways` and `OrderedLocking`, for any number of threads, keys and layers.
The second means that no circle of threads can wait for each other's locks.

### Only model-checked

* Liveness and the fair refinements: out of the prover's reach.
* HandleTable. What Resize does is a recursion over buckets and chains of any
  length, and the provers do not find an induction over sequences.
* ObVarCache: no obstacle of principle, planned.
* `LiveReachable`, `RecycledUnreachable` and `AnswersRight` of folly's skip list,
  which speak of what can be reached along chains of any length.
* By hand, on two threads: under weak fairness of each thread every call of
  folly's skip list returns (148,479 states). It is not a run, because a spin lock
  gives no thread a guarantee against the others.

## 5. Plan

1. folly's skip list composed with NodeRecycler, in place of the set of linked
   nodes there and of `recycled` here; last and pop_back.
2. RocksDB SkipList as a second implementation of what LevelSkipList promises.
3. The sharding layers, over `CacheContract` as the shard.
4. Redis sorted set (spans and ranks against positions), the cuckoo filter,
   Bloom filters, the other hash tables and B+ trees as algorithms against
   reference definitions.
5. lizardfs, TFS and toft caches; QLock and cmbtree.
6. Proofs: the invariants of ObVarCache, with what the walk over a block knows
   of the items behind it as the invariant.
