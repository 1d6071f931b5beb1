---------------------------- MODULE LevelLRUCache ----------------------------
(***************************************************************************)
(* One shard of the LevelDB cache: class LRUCache of                       *)
(* src/ds_algor/lruCache/From leveldb/cache.cc.                            *)
(*                                                                         *)
(* Every operation runs under mutex_, deleters included.  Insert and Prune *)
(* contain a loop over the LRU list: they take the mutex in one action,    *)
(* run one action per iteration, and release it in another.  Unlike in the *)
(* RocksDB cache, the list holds every entry of the table, pinned or not.  *)
(*                                                                         *)
(* A Handle is the address of an LRUHandle, reused once the entry is       *)
(* freed.  The hash table is the map it implements (see HandleTable); the  *)
(* circular list is a sequence, oldest entry first.                        *)
(***************************************************************************)
EXTENDS Integers, Sequences, Functions, Lists

CONSTANTS Thread,      \* client threads
          Key,         \* keys that hash to this shard
          Handle,      \* addresses at which an LRUHandle may be allocated
          Charges,     \* charges passed to Insert
          Capacities,  \* capacities a shard may be given
          MaxPins,     \* bound: client handles outstanding on one entry
          NoEntry,     \* the contents of an address that is not allocated
          NoHandle,    \* NULL, and &lru_ where a cursor reaches it
          NoThread     \* mutex_ is not held

(* struct LRUHandle *)
LRUHandle == [key: Key, charge: Charges, refs: Nat]

ASSUME ConstAssumption ==
  /\ NoEntry \notin LRUHandle
  /\ NoHandle \notin Handle
  /\ NoThread \notin Thread
  /\ Charges \subseteq Nat
  /\ Capacities \subseteq Nat
  /\ MaxPins \in Nat

ASSUME HandleAssumption == Finite(Handle)

VARIABLES entry,     \* the heap: the LRUHandle at each address
          table,     \* table_, as the map from keys to entries
          lru,       \* lru_, oldest entry first
          usage,     \* usage_
          capacity,  \* capacity_
          mutex,     \* the thread that holds mutex_
          pc,        \* the operation each thread is in
          cursor,    \* Prune's local e
          pins       \* handles the clients hold: obtained and not released

shardVars == <<table, lru, usage>>
vars == <<entry, shardVars, capacity, mutex, pc, cursor, pins>>

-----------------------------------------------------------------------------

(* A shard after its constructor and SetCapacity. *)
Init ==
  /\ entry = [h \in Handle |-> NoEntry]
  /\ table = [k \in Key |-> NoHandle]
  /\ lru = <<>>
  /\ usage = 0
  /\ capacity \in Capacities
  /\ mutex = NoThread
  /\ pc = [t \in Thread |-> "idle"]
  /\ cursor = [t \in Thread |-> NoHandle]
  /\ pins = [h \in Handle |-> 0]

(* A thread may call an operation when it is in none and mutex_ is free.   *)
MayCall(t) == pc[t] = "idle" /\ mutex = NoThread

(* Mutant of Unref: the entry is freed one reference too late. *)
UnrefLate(heap, e) ==
  IF heap[e].refs = 0 THEN [heap EXCEPT ![e] = NoEntry]
  ELSE [heap EXCEPT ![e].refs = @ - 1]

(* The heap after Unref(e): the last reference frees the entry. *)
Unref(heap, e) ==
  IF heap[e].refs = 1 THEN [heap EXCEPT ![e] = NoEntry]
  ELSE [heap EXCEPT ![e].refs = @ - 1]

(* Mutant of Refund: usage_ shrinks although clients still hold e. *)
RefundAlways(e) == entry[e].charge

(* What Unref(e) takes off usage_. *)
Refund(e) == IF entry[e].refs = 1 THEN entry[e].charge ELSE 0

(* Mutant of Evict: the table keeps its pointer to e. *)
EvictKeepsSlot(e) ==
  /\ lru' = RemoveFirst(lru, e)
  /\ entry' = Unref(entry, e)
  /\ usage' = usage - Refund(e)
  /\ UNCHANGED table

(* e leaves the table and the list and loses the cache's reference. *)
Evict(e) ==
  /\ lru' = RemoveFirst(lru, e)
  /\ table' = [table EXCEPT ![entry[e].key] = NoHandle]
  /\ entry' = Unref(entry, e)
  /\ usage' = usage - Refund(e)

-----------------------------------------------------------------------------
(* Insert, Lookup, Release, Erase                                          *)

(* Mutant of InitialRefs: the returned handle is not counted. *)
InitialRefsCacheOnly == 1

(* One reference from the cache, one for the returned handle. *)
InitialRefs == 2

(* The entry is allocated, listed, charged and entered in the table, and   *)
(* the entry it displaces is unlisted and unreferenced.                    *)
InsertBegin(t, k, c, e) ==
  LET old   == table[k]
      x     == [key |-> k, charge |-> c, refs |-> InitialRefs]
      added == [entry EXCEPT ![e] = x]
  IN
  /\ MayCall(t)
  /\ entry[e] = NoEntry
  /\ table' = [table EXCEPT ![k] = e]
  /\ IF old = NoHandle
       THEN /\ entry' = added
            /\ lru' = Append(lru, e)
            /\ usage' = usage + c
       ELSE /\ entry' = Unref(added, old)
            /\ lru' = RemoveFirst(Append(lru, e), old)
            /\ usage' = usage + c - Refund(old)
  /\ pins' = [pins EXCEPT ![e] = @ + 1]
  /\ mutex' = t
  /\ pc' = [pc EXCEPT ![t] = "insert"]
  /\ UNCHANGED <<capacity, cursor>>

(* Mutant of MustEvict: the loop stops one unit over the capacity. *)
MustEvictLate == usage > capacity + 1 /\ lru # <<>>

(* The condition of Insert's loop. *)
MustEvict == usage > capacity /\ lru # <<>>

(* One iteration of that loop. *)
InsertEvict(t) ==
  /\ mutex = t /\ pc[t] = "insert"
  /\ MustEvict
  /\ Evict(Head(lru))
  /\ UNCHANGED <<capacity, mutex, pc, cursor, pins>>

InsertEnd(t) ==
  /\ mutex = t /\ pc[t] = "insert"
  /\ ~MustEvict
  /\ mutex' = NoThread
  /\ pc' = [pc EXCEPT ![t] = "idle"]
  /\ UNCHANGED <<entry, shardVars, capacity, cursor, pins>>

(* Lookup: the entry found is pinned and becomes the newest of the list. *)
Lookup(t, k) ==
  LET e == table[k] IN
  /\ MayCall(t)
  /\ e # NoHandle
  /\ pins[e] < MaxPins
  /\ entry' = [entry EXCEPT ![e].refs = @ + 1]
  /\ lru' = Append(RemoveFirst(lru, e), e)
  /\ pins' = [pins EXCEPT ![e] = @ + 1]
  /\ UNCHANGED <<table, usage, capacity, mutex, pc, cursor>>

Release(t, e) ==
  /\ MayCall(t)
  /\ pins[e] > 0
  /\ pins' = [pins EXCEPT ![e] = @ - 1]
  /\ entry' = Unref(entry, e)
  /\ usage' = usage - Refund(e)
  /\ UNCHANGED <<table, lru, capacity, mutex, pc, cursor>>

Erase(t, k) ==
  LET e == table[k] IN
  /\ MayCall(t)
  /\ e # NoHandle
  /\ Evict(e)
  /\ UNCHANGED <<capacity, mutex, pc, cursor, pins>>

-----------------------------------------------------------------------------
(* Prune, destruction                                                      *)

(* Mutant of After: the walk ends with the first entry. *)
AfterFirst(s, e) == NoHandle

(* e->next: the entry after e on the list, or &lru_. *)
After(s, e) ==
  LET i == CHOOSE j \in DOMAIN s : s[j] = e IN
  IF i = Len(s) THEN NoHandle ELSE s[i + 1]

PruneBegin(t) ==
  /\ MayCall(t)
  /\ cursor' = [cursor EXCEPT ![t] = IF lru = <<>> THEN NoHandle ELSE Head(lru)]
  /\ mutex' = t
  /\ pc' = [pc EXCEPT ![t] = "prune"]
  /\ UNCHANGED <<entry, shardVars, capacity, pins>>

(* Only the cache refers to e. *)
Prunable(e) == entry[e].refs = 1

(* Mutant of PruneStep: a pinned entry is not passed over. *)
PruneStepStays(t) ==
  LET e == cursor[t] IN
  /\ mutex = t /\ pc[t] = "prune"
  /\ e # NoHandle
  /\ IF Prunable(e)
       THEN Evict(e) /\ cursor' = [cursor EXCEPT ![t] = After(lru, e)]
       ELSE UNCHANGED <<entry, shardVars, cursor>>
  /\ UNCHANGED <<capacity, mutex, pc, pins>>

(* One iteration of Prune: next is read before e may be freed. *)
PruneStep(t) ==
  LET e == cursor[t] IN
  /\ mutex = t /\ pc[t] = "prune"
  /\ e # NoHandle
  /\ IF Prunable(e) THEN Evict(e) ELSE UNCHANGED <<entry, shardVars>>
  /\ cursor' = [cursor EXCEPT ![t] = After(lru, e)]
  /\ UNCHANGED <<capacity, mutex, pc, pins>>

PruneEnd(t) ==
  /\ mutex = t /\ pc[t] = "prune"
  /\ cursor[t] = NoHandle
  /\ mutex' = NoThread
  /\ pc' = [pc EXCEPT ![t] = "idle"]
  /\ UNCHANGED <<entry, shardVars, capacity, cursor, pins>>

(* ~LRUCache, with every call returned and every handle released: what is  *)
(* on the list is unreferenced.  The next shard is constructed in the same *)
(* heap.                                                                   *)
Destroy ==
  /\ mutex = NoThread
  /\ \A h \in Handle : pins[h] = 0
  /\ entry' = [h \in Handle |->
                 IF Contains(lru, h) THEN Unref(entry, h)[h] ELSE entry[h]]
  /\ table' = [k \in Key |-> NoHandle]
  /\ lru' = <<>>
  /\ usage' = 0
  /\ capacity' \in Capacities
  /\ UNCHANGED <<mutex, pc, cursor, pins>>

-----------------------------------------------------------------------------

(* What a thread does on its own once it has called an operation. *)
Continue(t) ==
  \/ InsertEvict(t)
  \/ InsertEnd(t)
  \/ PruneStep(t)
  \/ PruneEnd(t)

(* The calls a client may make. *)
Call(t) ==
  \/ \E k \in Key, c \in Charges, e \in Handle : InsertBegin(t, k, c, e)
  \/ \E k \in Key : Lookup(t, k) \/ Erase(t, k)
  \/ \E e \in Handle : Release(t, e)
  \/ PruneBegin(t)

Next == Destroy \/ \E t \in Thread : Continue(t) \/ Call(t)

Spec == Init /\ [][Next]_vars

(* A thread inside an operation holds mutex_ and waits for nothing, so it  *)
(* is scheduled until the operation returns.                               *)
FairSpec == Spec /\ \A t \in Thread : WF_vars(Continue(t))

-----------------------------------------------------------------------------
(* Properties                                                              *)

TypeOK ==
  /\ entry \in [Handle -> LRUHandle \cup {NoEntry}]
  /\ table \in [Key -> Handle \cup {NoHandle}]
  /\ lru \in Seq(Handle)
  /\ usage \in Int
  /\ capacity \in Capacities
  /\ mutex \in Thread \cup {NoThread}
  /\ pc \in [Thread -> {"idle", "insert", "prune"}]
  /\ cursor \in [Thread -> Handle \cup {NoHandle}]
  /\ pins \in [Handle -> Nat]

Allocated(h) == entry[h] # NoEntry
InTable(h)   == \E k \in Key : table[k] = h
OnLRU(h)     == Contains(lru, h)

(* The table and the list always hold the same entries, and each entry has *)
(* one reference for that plus one per handle out: so the two loops, which *)
(* walk the list, reach all of the table, and Unref frees an entry exactly *)
(* when the cache and the clients have let go of it.                       *)
RefsExact ==
  /\ \A h \in Handle : InTable(h) <=> OnLRU(h)
  /\ \A h \in Handle : Allocated(h) =>
       /\ entry[h].refs = pins[h] + (IF InTable(h) THEN 1 ELSE 0)
       /\ entry[h].refs > 0

(* A handle out, a slot of the table, a link of the list and Prune's       *)
(* cursor always lead to an allocated entry.                               *)
NoDanglingHandle ==
  \A h \in Handle :
    pins[h] > 0 \/ InTable(h) \/ OnLRU(h) \/ (\E t \in Thread : cursor[t] = h)
    => Allocated(h)

Charge == [h \in Handle |-> entry[h].charge]

ChargeSum(S) == SumFunctionOnSet(Charge, S)

(* usage_ is the charge of all entries not yet freed, pinned ones that     *)
(* left the cache included, so that it never wraps below zero.             *)
UsageExact == usage = ChargeSum({h \in Handle : Allocated(h)})

(* Outside the critical sections, a shard over its capacity has nothing    *)
(* left to evict: everything charged to it is pinned and no longer cached. *)
OverCapacity == mutex = NoThread /\ usage > capacity => lru = <<>>

(* Prune removes exactly what nobody holds, although it removes entries    *)
(* from the list it walks: no entry with a handle out leaves the cache     *)
(* while it runs, and all others have left when it ends.                   *)
PruneExact ==
  [][\A t \in Thread :
       /\ pc[t] = "prune" =>
            \A h \in Handle : InTable(h) /\ pins[h] > 0 => InTable(h)'
       /\ PruneEnd(t) =>
            \A h \in Handle : InTable(h) => pins[h] > 0]_vars

(* Every call returns: both loops come to an end. *)
CallsReturn == \A t \in Thread : pc[t] # "idle" ~> pc[t] = "idle"

-----------------------------------------------------------------------------
(* The shard keeps the contract of a cache: deleters run at once. *)

States == [h \in Handle |-> IF Allocated(h) THEN "live" ELSE "none"]

ContractOf == INSTANCE CacheContract WITH
  Entry <- Handle,
  NoOne <- NoHandle,
  map   <- table,
  held  <- pins,
  state <- States

(* Whatever the interleaving of the clients, what they see of the shard is *)
(* a behaviour of CacheContract.                                           *)
KeepsContract == ContractOf!Contract
=============================================================================
