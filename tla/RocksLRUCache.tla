---------------------------- MODULE RocksLRUCache ----------------------------
(***************************************************************************)
(* One shard of the RocksDB block cache: class LRUCache of                 *)
(* src/ds_algor/lruCache/From rocksdb/cache.cc.                            *)
(*                                                                         *)
(* Every operation runs under mutex_.  A critical section without a loop   *)
(* is one action; Insert and SetCapacity contain the eviction loop, so     *)
(* they take the mutex in one action, run one action per iteration of the  *)
(* loop, and finish in an action that releases the mutex.  Entries that    *)
(* lost their last reference are collected in last_reference_list and      *)
(* freed, one action each, after the mutex is released.                    *)
(*                                                                         *)
(* A Handle is the address of an LRUHandle.  Addresses are reused once the *)
(* entry is freed.  The hash table is the map it implements (module        *)
(* HandleTable models its buckets); the circular list lru_ is a sequence,  *)
(* oldest entry first.                                                     *)
(***************************************************************************)
EXTENDS Integers, Sequences, Functions, Lists

CONSTANTS Thread,      \* client threads
          Key,         \* keys that hash to this shard
          Handle,      \* addresses at which an LRUHandle may be allocated
          Charges,     \* charges passed to Insert
          Capacities,  \* capacities passed to SetCapacity
          MaxPins,     \* bound: client handles outstanding on one entry
          NoEntry,     \* the contents of an address that is not allocated
          NoHandle,    \* nullptr
          NoThread     \* mutex_ is not held

(* struct LRUHandle *)
LRUHandle == [key: Key, charge: Charges, refs: Nat, in_cache: BOOLEAN]

ASSUME HandleAssumption == Finite(Handle)

ASSUME ConstAssumption ==
  /\ NoEntry \notin LRUHandle
  /\ NoHandle \notin Handle
  /\ NoThread \notin Thread
  /\ Charges \subseteq Nat
  /\ Capacities \subseteq Nat
  /\ MaxPins \in Nat

VARIABLES entry,     \* the heap: the LRUHandle at each address
          table,     \* table_, as the map from keys to entries
          lru,       \* lru_, oldest entry first
          usage,     \* usage_
          lruUsage,  \* lru_usage_
          capacity,  \* capacity_
          strict,    \* strict_capacity_limit_
          mutex,     \* the thread that holds mutex_
          pc,        \* the operation each thread is in
          fresh,     \* Insert's local e
          keep,      \* Insert's argument: handle != nullptr
          doomed,    \* the thread's last_reference_list
          pins       \* handles the clients hold: obtained and not released

shardVars  == <<table, lru, usage, lruUsage>>
configVars == <<capacity, strict>>
localVars  == <<pc, fresh, keep, doomed>>
vars == <<entry, shardVars, configVars, mutex, localVars, pins>>

-----------------------------------------------------------------------------

(* A shard as ShardedLRUCache's constructor leaves it. *)
Init ==
  /\ entry = [h \in Handle |-> NoEntry]
  /\ table = [k \in Key |-> NoHandle]
  /\ lru = <<>>
  /\ usage = 0 /\ lruUsage = 0
  /\ capacity \in Capacities
  /\ strict \in BOOLEAN
  /\ mutex = NoThread
  /\ pc = [t \in Thread |-> "idle"]
  /\ fresh = [t \in Thread |-> NoHandle]
  /\ keep = [t \in Thread |-> FALSE]
  /\ doomed = [t \in Thread |-> <<>>]
  /\ pins = [h \in Handle |-> 0]

(* A thread may call an operation when it is in none and mutex_ is free.   *)
MayCall(t) == pc[t] = "idle" /\ mutex = NoThread

(* Where a thread goes when it leaves mutex_ with the list s to free.      *)
AfterUnlock(s) == IF s = <<>> THEN "idle" ELSE "free"

(* Mutant of LRU_Remove: lru_usage_ is not charged back. *)
LRU_RemoveUncharged(e) ==
  /\ lru' = RemoveFirst(lru, e)
  /\ UNCHANGED lruUsage

(* LRU_Remove: e leaves the list. *)
LRU_Remove(e) ==
  /\ lru' = RemoveFirst(lru, e)
  /\ lruUsage' = lruUsage - entry[e].charge

(* LRU_Append: e becomes the newest entry of the list. *)
LRU_Append(e) ==
  /\ lru' = Append(lru, e)
  /\ lruUsage' = lruUsage + entry[e].charge

(* Entry x after it left the cache and lost n references. *)
Uncached(x, n) == [x EXCEPT !.refs = @ - n, !.in_cache = FALSE]

-----------------------------------------------------------------------------
(* Insert                                                                  *)

(* Mutant of InitialRefs: the returned handle is not counted. *)
InitialRefsCacheOnly(w) == 1

(* One reference from the cache, one for the returned handle. *)
InitialRefs(w) == IF w THEN 2 ELSE 1

(* The entry is allocated and filled in; then the mutex is taken.          *)
InsertBegin(t, k, c, w) ==
  /\ MayCall(t)
  /\ \E e \in Handle :
       /\ entry[e] = NoEntry
       /\ entry' = [entry EXCEPT ![e] = [key |-> k, charge |-> c,
                                         refs |-> InitialRefs(w),
                                         in_cache |-> TRUE]]
       /\ fresh' = [fresh EXCEPT ![t] = e]
  /\ keep' = [keep EXCEPT ![t] = w]
  /\ mutex' = t
  /\ pc' = [pc EXCEPT ![t] = "insert"]
  /\ UNCHANGED <<shardVars, configVars, doomed, pins>>

(* The charge EvictFromLRU was called with. *)
Incoming(t) == IF pc[t] = "insert" THEN entry[fresh[t]].charge ELSE 0

(* Mutant of MustEvict: the incoming charge is not counted. *)
MustEvictResident(t) == usage > capacity /\ lru # <<>>

(* The condition of the loop of EvictFromLRU. *)
MustEvict(t) == usage + Incoming(t) > capacity /\ lru # <<>>

(* One iteration of that loop. *)
EvictFromLRU(t) ==
  LET old == Head(lru) IN
  /\ mutex = t
  /\ MustEvict(t)
  /\ LRU_Remove(old)
  /\ table' = [table EXCEPT ![entry[old].key] = NoHandle]
  /\ entry' = [entry EXCEPT ![old] = Uncached(@, 1)]
  /\ usage' = usage - entry[old].charge
  /\ doomed' = [doomed EXCEPT ![t] = Append(@, old)]
  /\ UNCHANGED <<configVars, mutex, pc, fresh, keep, pins>>

(* Common to the two ways an Insert ends: unlock and go on to the frees.   *)
InsertReturn(t) ==
  /\ mutex' = NoThread
  /\ pc' = [pc EXCEPT ![t] = AfterUnlock(doomed'[t])]
  /\ fresh' = [fresh EXCEPT ![t] = NoHandle]
  /\ keep' = [keep EXCEPT ![t] = FALSE]
  /\ UNCHANGED configVars

(* Mutant of NoRoom: only what is pinned already counts. *)
NoRoomPinned(t) == strict /\ usage - lruUsage > capacity

(* The strict limit has no room for the entry. *)
NoRoom(t) == strict /\ usage - lruUsage + entry[fresh[t]].charge > capacity

(* With a handle requested the refused entry is deleted and the value      *)
(* stays the caller's; without, it is freed together with its value.       *)
Discard(t) ==
  IF keep[t]
    THEN /\ entry' = [entry EXCEPT ![fresh[t]] = NoEntry]
         /\ UNCHANGED doomed
    ELSE /\ doomed' = [doomed EXCEPT ![t] = Append(@, fresh[t])]
         /\ UNCHANGED entry

InsertReject(t) ==
  /\ mutex = t /\ pc[t] = "insert" /\ ~MustEvict(t)
  /\ NoRoom(t)
  /\ Discard(t)
  /\ InsertReturn(t)
  /\ UNCHANGED <<shardVars, pins>>

(* Mutant of LastRef: the displaced entry is freed even when pinned. *)
LastRefAlways(old) == old # NoHandle

(* The cache gives up the last reference of the entry it displaces. *)
LastRef(old) == old # NoHandle /\ entry[old].refs = 1

(* The entry enters the table.  An entry it displaces leaves the cache and *)
(* is collected when the cache held its last reference.                    *)
InsertAccept(t) ==
  LET e    == fresh[t]
      k    == entry[e].key
      old  == table[k]
      last == LastRef(old)
      gone == IF last THEN entry[old].charge ELSE 0
      rest == IF last THEN RemoveFirst(lru, old) ELSE lru
  IN
  /\ mutex = t /\ pc[t] = "insert" /\ ~MustEvict(t)
  /\ ~NoRoom(t)
  /\ table' = [table EXCEPT ![k] = e]
  /\ usage' = usage + entry[e].charge - gone
  /\ entry' = IF old = NoHandle THEN entry
              ELSE [entry EXCEPT ![old] = Uncached(@, 1)]
  /\ doomed' = [doomed EXCEPT ![t] = IF last THEN Append(@, old) ELSE @]
  /\ IF keep[t]
       THEN /\ lru' = rest
            /\ lruUsage' = lruUsage - gone
            /\ pins' = [pins EXCEPT ![e] = @ + 1]
       ELSE /\ lru' = Append(rest, e)
            /\ lruUsage' = lruUsage - gone + entry[e].charge
            /\ UNCHANGED pins
  /\ InsertReturn(t)

-----------------------------------------------------------------------------
(* SetCapacity, SetStrictCapacityLimit                                     *)

SetCapacityBegin(t, c) ==
  /\ MayCall(t)
  /\ capacity' = c
  /\ mutex' = t
  /\ pc' = [pc EXCEPT ![t] = "shrink"]
  /\ UNCHANGED <<entry, shardVars, strict, fresh, keep, doomed, pins>>

SetCapacityEnd(t) ==
  /\ mutex = t /\ pc[t] = "shrink" /\ ~MustEvict(t)
  /\ mutex' = NoThread
  /\ pc' = [pc EXCEPT ![t] = AfterUnlock(doomed[t])]
  /\ UNCHANGED <<entry, shardVars, configVars, fresh, keep, doomed, pins>>

SetStrictCapacityLimit(t, b) ==
  /\ MayCall(t)
  /\ strict' = b
  /\ UNCHANGED <<entry, shardVars, capacity, mutex, localVars, pins>>

-----------------------------------------------------------------------------
(* Lookup, Release, Erase                                                  *)

(* An entry only the cache refers to is on the list; pinning takes it off. *)
Unlist(e) ==
  IF entry[e].refs = 1 THEN LRU_Remove(e) ELSE UNCHANGED <<lru, lruUsage>>

Lookup(t, k) ==
  LET e == table[k] IN
  /\ MayCall(t)
  /\ e # NoHandle
  /\ pins[e] < MaxPins
  /\ Unlist(e)
  /\ entry' = [entry EXCEPT ![e].refs = @ + 1]
  /\ pins' = [pins EXCEPT ![e] = @ + 1]
  /\ UNCHANGED <<table, usage, configVars, mutex, localVars>>

(* Common to the ways a Release ends: the client gives its handle back,    *)
(* and the thread goes on to free e if nothing refers to it any more.      *)
GiveBack(t, e, last) ==
  /\ MayCall(t)
  /\ pins[e] > 0
  /\ pins' = [pins EXCEPT ![e] = @ - 1]
  /\ doomed' = [doomed EXCEPT ![t] = IF last THEN <<e>> ELSE @]
  /\ pc' = [pc EXCEPT ![t] = IF last THEN "free" ELSE @]
  /\ UNCHANGED <<configVars, mutex, fresh, keep>>

(* The last reference of an entry that had left the cache. *)
ReleaseLast(t, e) ==
  /\ GiveBack(t, e, TRUE)
  /\ entry[e].refs = 1
  /\ entry' = [entry EXCEPT ![e].refs = @ - 1]
  /\ usage' = usage - entry[e].charge
  /\ UNCHANGED <<table, lru, lruUsage>>

(* Without this handle only the cache still refers to e. *)
OnlyCacheLeft(e) == entry[e].refs = 2 /\ entry[e].in_cache

(* The cache is over capacity: e is dropped instead of listed. *)
ReleaseFull(t, e) ==
  /\ GiveBack(t, e, TRUE)
  /\ OnlyCacheLeft(e)
  /\ usage > capacity
  /\ table' = [table EXCEPT ![entry[e].key] = NoHandle]
  /\ entry' = [entry EXCEPT ![e] = Uncached(@, 2)]
  /\ usage' = usage - entry[e].charge
  /\ UNCHANGED <<lru, lruUsage>>

(* e becomes the newest entry that may be evicted. *)
ReleaseToLRU(t, e) ==
  /\ GiveBack(t, e, FALSE)
  /\ OnlyCacheLeft(e)
  /\ usage <= capacity
  /\ entry' = [entry EXCEPT ![e].refs = @ - 1]
  /\ LRU_Append(e)
  /\ UNCHANGED <<table, usage>>

(* Other clients still hold e. *)
ReleaseShared(t, e) ==
  /\ GiveBack(t, e, FALSE)
  /\ entry[e].refs > 1 /\ ~OnlyCacheLeft(e)
  /\ entry' = [entry EXCEPT ![e].refs = @ - 1]
  /\ UNCHANGED shardVars

Release(t, e) ==
  \/ ReleaseLast(t, e)
  \/ ReleaseFull(t, e)
  \/ ReleaseToLRU(t, e)
  \/ ReleaseShared(t, e)

Erase(t, k) ==
  LET e    == table[k]
      last == entry[e].refs = 1
  IN
  /\ MayCall(t)
  /\ e # NoHandle
  /\ table' = [table EXCEPT ![k] = NoHandle]
  /\ entry' = [entry EXCEPT ![e] = Uncached(@, 1)]
  /\ usage' = IF last THEN usage - entry[e].charge ELSE usage
  /\ IF last /\ entry[e].in_cache
       THEN LRU_Remove(e)
       ELSE UNCHANGED <<lru, lruUsage>>
  /\ doomed' = [doomed EXCEPT ![t] = IF last THEN <<e>> ELSE @]
  /\ pc' = [pc EXCEPT ![t] = IF last THEN "free" ELSE @]
  /\ UNCHANGED <<configVars, mutex, fresh, keep, pins>>

(* LRUHandle::Free on the next entry of the list, outside the mutex. *)
Free(t) ==
  /\ pc[t] = "free"
  /\ entry' = [entry EXCEPT ![Head(doomed[t])] = NoEntry]
  /\ doomed' = [doomed EXCEPT ![t] = Tail(@)]
  /\ pc' = [pc EXCEPT ![t] = AfterUnlock(doomed'[t])]
  /\ UNCHANGED <<shardVars, configVars, mutex, fresh, keep, pins>>

-----------------------------------------------------------------------------
(* Destruction                                                             *)

(* ~LRUCache and ~HandleTable: with every call returned and every handle   *)
(* released, the entries of the table that only the cache refers to are    *)
(* freed.  The heap outlives the shard: the next one is constructed in it. *)
Destroy ==
  /\ \A t \in Thread : pc[t] = "idle"
  /\ \A h \in Handle : pins[h] = 0
  /\ entry' = [h \in Handle |->
                 IF \E k \in Key : table[k] = h /\ entry[h].refs = 1
                   THEN NoEntry ELSE entry[h]]
  /\ table' = [k \in Key |-> NoHandle]
  /\ lru' = <<>>
  /\ usage' = 0 /\ lruUsage' = 0
  /\ capacity' \in Capacities
  /\ strict' \in BOOLEAN
  /\ UNCHANGED <<mutex, localVars, pins>>

-----------------------------------------------------------------------------

(* What a thread does on its own once it has called an operation. *)
Continue(t) ==
  \/ EvictFromLRU(t)
  \/ InsertReject(t)
  \/ InsertAccept(t)
  \/ SetCapacityEnd(t)
  \/ Free(t)

(* The calls a client may make. *)
Call(t) ==
  \/ \E k \in Key, c \in Charges, w \in BOOLEAN : InsertBegin(t, k, c, w)
  \/ \E c \in Capacities : SetCapacityBegin(t, c)
  \/ \E b \in BOOLEAN : SetStrictCapacityLimit(t, b)
  \/ \E k \in Key : Lookup(t, k) \/ Erase(t, k)
  \/ \E e \in Handle : Release(t, e)

Next == Destroy \/ \E t \in Thread : Continue(t) \/ Call(t)

Spec == Init /\ [][Next]_vars

-----------------------------------------------------------------------------
(* Properties                                                              *)

TypeOK ==
  /\ entry \in [Handle -> LRUHandle \cup {NoEntry}]
  /\ table \in [Key -> Handle \cup {NoHandle}]
  /\ lru \in Seq(Handle)
  /\ usage \in Int /\ lruUsage \in Int
  /\ capacity \in Capacities /\ strict \in BOOLEAN
  /\ mutex \in Thread \cup {NoThread}
  /\ pc \in [Thread -> {"idle", "insert", "shrink", "free"}]
  /\ fresh \in [Thread -> Handle \cup {NoHandle}]
  /\ keep \in [Thread -> BOOLEAN]
  /\ doomed \in [Thread -> Seq(Handle)]
  /\ pins \in [Handle -> Nat]

Allocated(h) == entry[h] # NoEntry
InTable(h)   == \E k \in Key : table[k] = h
OnLRU(h)     == Contains(lru, h)
InFlight(h)  == \E t \in Thread : fresh[t] = h
Doomed(h)    == \E t \in Thread : Contains(doomed[t], h)

(* An entry the shard or a client knows of: neither still being inserted   *)
(* nor already on its way to Free.                                         *)
Settled(h) == Allocated(h) /\ ~InFlight(h) /\ ~Doomed(h)

(* The three states of the comment above LRUHandle. *)
PinnedInCache(h) ==
  entry[h].refs > 1 /\ entry[h].in_cache /\ InTable(h) /\ ~OnLRU(h)
Evictable(h) ==
  entry[h].refs = 1 /\ entry[h].in_cache /\ InTable(h) /\ OnLRU(h)
PinnedOutside(h) ==
  entry[h].refs >= 1 /\ ~entry[h].in_cache /\ ~InTable(h) /\ ~OnLRU(h)

(* Every entry is in one of the three states the code's comment lists, and *)
(* its reference count is the number of handles out plus one for the cache *)
(* (Lookup, Release, Insert, Erase and EvictFromLRU keep it so together).  *)
EntryStates ==
  \A h \in Handle : Settled(h) =>
    /\ PinnedInCache(h) \/ Evictable(h) \/ PinnedOutside(h)
    /\ entry[h].refs = pins[h] + (IF entry[h].in_cache THEN 1 ELSE 0)

(* A handle a client holds, and an entry the table or the LRU list reaches,*)
(* is allocated and not on any thread's last_reference_list: no entry is   *)
(* freed, now or after the mutex is released, while something refers to it.*)
NoDanglingHandle ==
  \A h \in Handle : pins[h] > 0 \/ InTable(h) \/ OnLRU(h) => Settled(h)

(* The entries waiting to be freed outside the mutex are allocated, each   *)
(* is waiting once in all the lists together, and the assertion in         *)
(* LRUHandle::Free holds of it.                                            *)
FreedOnce ==
  /\ \A t \in Thread : IsInjective(doomed[t])
  /\ \A t, u \in Thread, h \in Handle :
       Contains(doomed[t], h) /\ Contains(doomed[u], h) => t = u
  /\ \A h \in Handle : Doomed(h) =>
       /\ Allocated(h)
       /\ \/ entry[h].refs = 1 /\ entry[h].in_cache
          \/ entry[h].refs = 0 /\ ~entry[h].in_cache

(* No allocated entry is lost: the table, a client, an Insert in progress  *)
(* or a last_reference_list still leads to it, also after the destructor,  *)
(* which frees only what it finds in the table.                            *)
NoLeak ==
  \A h \in Handle : Allocated(h) =>
    InTable(h) \/ pins[h] > 0 \/ InFlight(h) \/ Doomed(h)

(* Outside the critical sections, a shard over its capacity has at most    *)
(* one entry it could have evicted.  (The comment in Release says none:    *)
(* see ReleaseAssertion.)                                                  *)
OverCapacity == mutex = NoThread /\ usage > capacity => Len(lru) <= 1

(* With the strict limit set, no operation makes the usage grow to more    *)
(* than the capacity, whatever was pinned, evicted or replaced before.     *)
StrictLimit ==
  [][strict /\ strict' /\ usage' > usage => usage' <= capacity']_vars

(* The assertion of Release at line 389, "The LRU list must be empty since *)
(* the cache is full", at every moment at which a client may call Release  *)
(* and the call takes that branch.                                         *)
ReleaseAssertion ==
  \A h \in Handle :
    /\ mutex = NoThread /\ pins[h] > 0
    /\ OnlyCacheLeft(h) /\ usage > capacity
    => lru = <<>>
=============================================================================
