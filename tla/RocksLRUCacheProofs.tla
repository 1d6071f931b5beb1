------------------------- MODULE RocksLRUCacheProofs ------------------------
(***************************************************************************)
(* What a RocksDB cache shard promises, proved for any number of entries,  *)
(* keys and threads, any charges and capacities: its safety; that every    *)
(* step is a step of CacheContract or a stutter; that the usage counters   *)
(* are exact, the eviction loops keep to the capacity, and Insert keeps to *)
(* the strict limit.                                                       *)
(*                                                                         *)
(* First come the inductive invariant, what the proofs say about the heap  *)
(* and the lists of entries to free, and that every operation preserves    *)
(* the invariant.                                                          *)
(*                                                                         *)
(* usage_ is a sum over the entries.  The argument adds up a weight of     *)
(* every entry, its charge or zero, so that a step that concerns one entry *)
(* changes the sum by the change of that weight.                           *)
(***************************************************************************)
EXTENDS RocksLRUCache, CacheLemmas, RocksLRUCacheContract

(* Where a thread is says whether it holds mutex_, has an entry of its own *)
(* and has entries left to free.                                           *)
Control ==
  \A t \in Thread :
    /\ mutex = t <=> pc[t] \in {"insert", "shrink"}
    /\ fresh[t] # NoHandle <=> pc[t] = "insert"
    /\ pc[t] = "free" => doomed[t] # <<>>
    /\ pc[t] = "idle" => doomed[t] = <<>>

(* The table files an entry under its own key. *)
TableKeys ==
  \A k \in Key : table[k] # NoHandle => entry[table[k]].key = k

(* An entry being inserted is known to the inserting thread only. *)
FreshEntry ==
  \A t \in Thread : fresh[t] # NoHandle =>
    LET e == fresh[t] IN
    /\ Allocated(e) /\ entry[e].in_cache /\ pins[e] = 0
    /\ entry[e].refs = InitialRefs(keep[t])
    /\ ~InTable(e) /\ ~OnLRU(e) /\ ~Doomed(e)

(* The inductive invariant. *)
IInv ==
  /\ TypeOK
  /\ Control
  /\ TableKeys
  /\ FreshEntry
  /\ IsInjective(lru)
  /\ EntryStates
  /\ NoDanglingHandle
  /\ FreedOnce
  /\ NoLeak

(* What a step may leave of an entry: all that the clients and the usage   *)
(* counters depend on ...                                                  *)
Untouched(h) ==
  /\ Settled(h)' <=> Settled(h)
  /\ Doomed(h)' <=> Doomed(h)
  /\ InTable(h)' <=> InTable(h)
  /\ OnLRU(h)' <=> OnLRU(h)
  /\ pins'[h] = pins[h]
  /\ Settled(h) => entry'[h].charge = entry[h].charge

(* ... that it lives on with the same charge ... *)
LivesOn(h) ==
  /\ Settled(h) /\ Settled(h)'
  /\ entry'[h].charge = entry[h].charge

(* ... or nothing but the thread that will free it. *)
Dropped(h) ==
  /\ Settled(h) /\ Doomed(h)'
  /\ ~InTable(h)' /\ ~OnLRU(h)' /\ pins'[h] = 0

(* A step that concerns one entry at most. *)
Only(e) == \A h \in Handle : h # e => Untouched(h)

-----------------------------------------------------------------------------

(* A shard as constructed satisfies the invariant. *)
LEMMA InitInv == Init => IInv
<1> SUFFICES ASSUME Init PROVE IInv
  BY ZenonT(60)
<1> USE ConstAssumption
<1>1. \A s : s = <<>> => IsInjective(s) /\ \A y : ~Contains(s, y)
  BY EmptyList, ZenonT(60)
<1>2. TypeOK
  BY DEF Init, TypeOK
<1>3. \A h \in Handle : ~Allocated(h) /\ ~InTable(h) /\ ~InFlight(h)
  BY ZenonT(60) DEF Init, Allocated, InTable, InFlight
<1>4. \A h \in Handle : ~OnLRU(h) /\ ~Doomed(h)
  BY <1>1, ZenonT(60) DEF Init, OnLRU, Doomed
<1>5. Control /\ TableKeys /\ FreshEntry
  BY ZenonT(60) DEF Init, Control, TableKeys, FreshEntry
<1>6. EntryStates /\ NoDanglingHandle /\ NoLeak
  BY <1>3, <1>4 DEF Init, EntryStates, NoDanglingHandle, NoLeak, Settled
<1>7. FreedOnce /\ IsInjective(lru)
  BY <1>1, <1>4, ZenonT(60) DEF Init, FreedOnce
<1> QED BY <1>2, <1>5, <1>6, <1>7, ZenonT(60) DEF IInv

(* The fields of an LRUHandle. *)
LEMMA FieldTypes ==
  ASSUME NEW x \in LRUHandle
  PROVE  /\ x.key \in Key /\ x.charge \in Nat
         /\ x.refs \in Nat /\ x.in_cache \in BOOLEAN
<1>1. x.key \in Key /\ x.charge \in Charges /\ x.refs \in Nat /\ x.in_cache \in BOOLEAN
  BY ZenonT(60) DEF LRUHandle
<1> QED BY Zenon, <1>1, ConstAssumption

(* What the invariant says of an entry the shard knows of, in the form the *)
(* proofs below use.                                                       *)
LEMMA SettledFacts ==
  ASSUME IInv, NEW h \in Handle, Settled(h)
  PROVE  /\ entry[h] \in LRUHandle
         /\ entry[h].refs = pins[h] + (IF entry[h].in_cache THEN 1 ELSE 0)
         /\ entry[h].refs >= 1
         /\ InTable(h) <=> entry[h].in_cache
         /\ OnLRU(h) <=> entry[h].in_cache /\ entry[h].refs = 1
         /\ InTable(h) => table[entry[h].key] = h
<1>1. entry[h] \in LRUHandle
  BY ZenonT(60) DEF IInv, TypeOK, Settled, Allocated
<1>2. InTable(h) => table[entry[h].key] = h
  BY ConstAssumption, ZenonT(60) DEF IInv, TableKeys, InTable
<1> QED BY <1>1, <1>2 DEF IInv, EntryStates, PinnedInCache, Evictable,
             PinnedOutside, LRUHandle, TypeOK

(* Pushing an entry on a last_reference_list keeps the lists disjoint and  *)
(* without repetition if it was on none.                                   *)
LEMMA DoomedAppend ==
  ASSUME IInv, NEW t \in Thread, NEW e \in Handle, ~Doomed(e),
         doomed' = [doomed EXCEPT ![t] = Append(doomed[t], e)]
  PROVE  /\ doomed' \in [Thread -> Seq(Handle)]
         /\ doomed'[t] # <<>>
         /\ \A u \in Thread : u # t => doomed'[u] = doomed[u]
         /\ \A h \in Handle : Doomed(h)' <=> Doomed(h) \/ h = e
         /\ \A u \in Thread : IsInjective(doomed'[u])
         /\ \A u, v \in Thread, h \in Handle :
              Contains(doomed'[u], h) /\ Contains(doomed'[v], h) => u = v
<1>1. /\ doomed \in [Thread -> Seq(Handle)]
      /\ \A u \in Thread : IsInjective(doomed[u]) /\ ~Contains(doomed[u], e)
  BY ZenonT(60) DEF IInv, TypeOK, FreedOnce, Doomed
<1>2. /\ doomed'[t] = Append(doomed[t], e)
      /\ \A u \in Thread : u # t => doomed'[u] = doomed[u]
  BY <1>1, ZenonT(60)
<1>3. /\ doomed'[t] \in Seq(Handle) /\ doomed'[t] # <<>>
      /\ IsInjective(doomed'[t])
      /\ \A h : Contains(doomed'[t], h) <=> Contains(doomed[t], h) \/ h = e
  BY <1>1, <1>2, AppendList
<1>4. doomed' \in [Thread -> Seq(Handle)]
  BY <1>1, <1>3, ZenonT(60)
<1>5. \A h \in Handle : Doomed(h)' <=> Doomed(h) \/ h = e
  BY <1>2, <1>3, ZenonT(60) DEF Doomed
<1>6. \A u, v \in Thread, h \in Handle :
        Contains(doomed'[u], h) /\ Contains(doomed'[v], h) => u = v
  BY <1>1, <1>2, <1>3, ZenonT(60) DEF IInv, FreedOnce
<1> QED BY <1>1, <1>2, <1>3, <1>4, <1>5, <1>6, ZenonT(60)

(* The heap after entry e lost n references and, for the cache's own one,  *)
(* left the cache.                                                         *)
LEMMA HeapUpdate ==
  ASSUME TypeOK, NEW e \in Handle, entry[e] \in LRUHandle, NEW n \in Nat,
         entry[e].refs >= n,
         \/ entry' = [entry EXCEPT ![e] = Uncached(entry[e], n)]
         \/ /\ entry' = [entry EXCEPT ![e] = [entry[e] EXCEPT !.refs = @ - n]]
            /\ ~entry[e].in_cache
  PROVE  /\ entry' \in [Handle -> LRUHandle \cup {NoEntry}]
         /\ entry'[e] \in LRUHandle
         /\ entry'[e].key = entry[e].key /\ entry'[e].charge = entry[e].charge
         /\ entry'[e].refs = entry[e].refs - n
         /\ entry'[e].in_cache = FALSE
         /\ \A h \in Handle : h # e => entry'[h] = entry[h]
<1>1. entry[e].refs - n \in Nat /\ entry[e].in_cache \in BOOLEAN
  BY FieldTypes
<1>2. PICK x \in LRUHandle : /\ entry' = [entry EXCEPT ![e] = x]
                            /\ x.refs = entry[e].refs - n /\ x.in_cache = FALSE
                            /\ x.key = entry[e].key /\ x.charge = entry[e].charge
  <2>1. CASE entry' = [entry EXCEPT ![e] = Uncached(entry[e], n)]
    <3>1. /\ Uncached(entry[e], n) \in LRUHandle
          /\ Uncached(entry[e], n).refs = entry[e].refs - n
          /\ Uncached(entry[e], n).in_cache = FALSE
          /\ Uncached(entry[e], n).key = entry[e].key
          /\ Uncached(entry[e], n).charge = entry[e].charge
      BY Zenon, <1>1 DEF Uncached, LRUHandle
    <3> QED BY Zenon, <2>1, <3>1
  <2>2. CASE /\ entry' = [entry EXCEPT ![e] = [entry[e] EXCEPT !.refs = @ - n]]
             /\ ~entry[e].in_cache
    <3> DEFINE x == [entry[e] EXCEPT !.refs = @ - n]
    <3>1. /\ x \in LRUHandle /\ x.refs = entry[e].refs - n
          /\ x.in_cache = entry[e].in_cache /\ x.key = entry[e].key
          /\ x.charge = entry[e].charge
      BY <1>1, ZenonT(60) DEF LRUHandle
    <3>2. entry' = [entry EXCEPT ![e] = x] /\ entry[e].in_cache = FALSE
      BY <1>1, <2>2, ZenonT(60)
    <3> HIDE DEF x
    <3> QED BY Zenon, <3>1, <3>2
  <2> QED BY Zenon, <2>1, <2>2
<1> QED BY <1>2, ZenonT(60) DEF TypeOK

(* An entry nothing refers to any more leaves the table and the list and   *)
(* is pushed on the last_reference_list of the thread that drops it: what  *)
(* an eviction, the last Release and the last Erase have in common.        *)
DropShared(t, e) ==
  /\ Settled(e)
  /\ table' = [k \in Key |-> IF table[k] = e THEN NoHandle ELSE table[k]]
  /\ lru' \in Seq(Handle) /\ IsInjective(lru')
  /\ \A h \in Handle : OnLRU(h)' <=> OnLRU(h) /\ h # e
  /\ usage' \in Int /\ lruUsage' \in Int
  /\ UNCHANGED <<capacity, strict, mutex, fresh, keep>>

DropCounts(t, e) ==
  /\ entry' \in [Handle -> LRUHandle \cup {NoEntry}]
  /\ entry'[e] \in LRUHandle
  /\ entry'[e].refs = 0 /\ entry'[e].in_cache = FALSE
  /\ \A h \in Handle : h # e => entry'[h] = entry[h]
  /\ doomed' = [doomed EXCEPT ![t] = Append(doomed[t], e)]
  /\ pins' = [pins EXCEPT ![e] = 0]
  /\ pc' = [pc EXCEPT ![t] = IF mutex = t THEN pc[t] ELSE "free"]

(* Dropping an entry preserves the invariant. *)
LEMMA DropInv ==
  ASSUME IInv, NEW t \in Thread, NEW e \in Handle,
         DropShared(t, e), DropCounts(t, e)
  PROVE  IInv' /\ Only(e) /\ Dropped(e)
<1> USE ConstAssumption DEF DropShared, DropCounts
<1>1. entry[e] \in LRUHandle
  BY SettledFacts, ZenonT(60)
<1>2. /\ entry' \in [Handle -> LRUHandle \cup {NoEntry}]
      /\ entry'[e] \in LRUHandle
      /\ entry'[e].refs = 0 /\ entry'[e].in_cache = FALSE
      /\ \A h \in Handle : h # e => entry'[h] = entry[h]
  BY ZenonT(60)
<1>3. /\ pins' \in [Handle -> Nat] /\ pins'[e] = 0
      /\ \A h \in Handle : h # e => pins'[h] = pins[h]
  BY ZenonT(60) DEF IInv, TypeOK
<1>4. /\ doomed' \in [Thread -> Seq(Handle)]
      /\ doomed'[t] # <<>>
      /\ \A u \in Thread : u # t => doomed'[u] = doomed[u]
      /\ \A h \in Handle : Doomed(h)' <=> Doomed(h) \/ h = e
      /\ \A u \in Thread : IsInjective(doomed'[u])
      /\ \A u, v \in Thread, h \in Handle :
           Contains(doomed'[u], h) /\ Contains(doomed'[v], h) => u = v
  BY Zenon, DoomedAppend DEF Settled
<1>5. \A h \in Handle : /\ InTable(h)' <=> InTable(h) /\ h # e
                        /\ InFlight(h)' <=> InFlight(h)
                        /\ Allocated(h)' <=> Allocated(h)
  <2>1. \A h \in Handle : InTable(h)' <=> InTable(h) /\ h # e
    BY ZenonT(60) DEF InTable
  <2>2. \A h \in Handle : InFlight(h)' <=> InFlight(h)
    BY ZenonT(60) DEF InFlight
  <2>3. \A h \in Handle : Allocated(h)' <=> Allocated(h)
    BY <1>1, <1>2, ZenonT(60) DEF Allocated
  <2> QED BY <2>1, <2>2, <2>3, ZenonT(60)
<1>6. \A h \in Handle : Settled(h)' <=> Settled(h) /\ h # e
  BY <1>4, <1>5, ZenonT(60) DEF Settled
<1>7. TypeOK'
  <2>1. table' \in [Key -> Handle \cup {NoHandle}]
    BY ZenonT(60) DEF IInv, TypeOK
  <2> QED BY <1>2, <1>3, <1>4, <2>1, ZenonT(60) DEF IInv, TypeOK
<1>8. Control'
  BY <1>4, ZenonT(60) DEF IInv, Control, TypeOK
<1>9. TableKeys'
  BY <1>2, ZenonT(60) DEF IInv, TableKeys, TypeOK
<1>10. FreshEntry'
  BY SMTT(30), <1>2, <1>3, <1>4, <1>5
     DEF IInv, FreshEntry, TypeOK, Settled, InFlight
<1>11. EntryStates'
  BY <1>2, <1>3, <1>5, <1>6, ZenonT(60)
     DEF IInv, EntryStates, PinnedInCache, Evictable, PinnedOutside
<1>12. NoDanglingHandle' /\ NoLeak'
  BY <1>3, <1>4, <1>5, <1>6 DEF IInv, NoDanglingHandle, NoLeak
<1>13. FreedOnce'
  BY <1>2, <1>4, <1>5, ZenonT(60) DEF IInv, FreedOnce, Settled
<1>14. Only(e)
  BY <1>2, <1>3, <1>4, <1>5, <1>6, ZenonT(60) DEF Only, Untouched
<1>15. Dropped(e)
  BY <1>3, <1>4, <1>5, ZenonT(60) DEF Dropped
<1>16. IInv'
  BY <1>7, <1>8, <1>9, <1>10, <1>11, <1>12, <1>13, ZenonT(60) DEF IInv
<1> QED BY <1>14, <1>15, <1>16, ZenonT(60)

(* One iteration of EvictFromLRU's loop preserves the invariant. *)
LEMMA EvictInv ==
  ASSUME IInv, NEW t \in Thread, EvictFromLRU(t)
  PROVE  /\ IInv' /\ Only(Head(lru))
         /\ \A h \in Handle : h = Head(lru) => Dropped(h)
<1> USE ConstAssumption
<1> DEFINE old == Head(lru)
<1>1. /\ old \in Handle /\ OnLRU(old)
      /\ lru' \in Seq(Handle) /\ IsInjective(lru')
      /\ \A h \in Handle : OnLRU(h)' <=> OnLRU(h) /\ h # old
  BY TailList, RemoveList, ZenonT(60)
     DEF IInv, TypeOK, EvictFromLRU, MustEvict, LRU_Remove, OnLRU
<1> HIDE DEF old
<1>2. Settled(old)
  BY <1>1, ZenonT(60) DEF IInv, NoDanglingHandle
<1>3. /\ entry[old] \in LRUHandle /\ entry[old].refs = 1 /\ entry[old].in_cache
      /\ pins[old] = 0 /\ InTable(old) /\ table[entry[old].key] = old
  BY <1>1, <1>2, SettledFacts DEF IInv, TypeOK
<1>4. /\ entry[old].charge \in Int /\ entry[old].key \in Key
      /\ \A k \in Key : table[k] = old <=> k = entry[old].key
  BY <1>1, <1>3, FieldTypes DEF IInv, TypeOK, TableKeys
<1>5. /\ entry' = [entry EXCEPT ![old] = Uncached(entry[old], 1)]
      /\ table' = [table EXCEPT ![entry[old].key] = NoHandle]
      /\ doomed' = [doomed EXCEPT ![t] = Append(doomed[t], old)]
      /\ usage' = usage - entry[old].charge
      /\ lruUsage' = lruUsage - entry[old].charge
      /\ UNCHANGED <<capacity, strict, mutex, pc, fresh, keep, pins>>
      /\ mutex = t
  BY ZenonT(60) DEF EvictFromLRU, LRU_Remove, old, configVars
<1>6. DropShared(t, old)
  <2>1. table' = [k \in Key |-> IF table[k] = old THEN NoHandle ELSE table[k]]
    BY Zenon, <1>4, <1>5 DEF IInv, TypeOK
  <2>2. usage' \in Int /\ lruUsage' \in Int
    <3>1. usage \in Int /\ lruUsage \in Int
      BY ZenonT(60) DEF IInv, TypeOK
    <3>2. entry[old].charge \in Int
      BY <1>4, ZenonT(60)
    <3> QED BY <1>5, <3>1, <3>2
  <2> QED BY Zenon, <1>1, <1>2, <1>5, <2>1, <2>2 DEF DropShared
<1>7. DropCounts(t, old)
  <2>1. /\ entry' \in [Handle -> LRUHandle \cup {NoEntry}]
        /\ entry'[old] \in LRUHandle
        /\ entry'[old].refs = 0 /\ entry'[old].in_cache = FALSE
        /\ \A h \in Handle : h # old => entry'[h] = entry[h]
    <3>1. /\ TypeOK /\ 1 \in Nat /\ entry[old].refs >= 1 /\ entry[old].refs - 1 = 0
          /\ entry' = [entry EXCEPT ![old] = Uncached(entry[old], 1)]
      BY <1>3, <1>5 DEF IInv
    <3>2. /\ entry' \in [Handle -> LRUHandle \cup {NoEntry}]
          /\ entry'[old] \in LRUHandle
          /\ entry'[old].refs = entry[old].refs - 1 /\ entry'[old].in_cache = FALSE
          /\ \A h \in Handle : h # old => entry'[h] = entry[h]
      BY Zenon, <1>1, <1>3, <3>1, HeapUpdate
    <3> QED BY <3>1, <3>2, ZenonT(60)
  <2>2. pins' = [pins EXCEPT ![old] = 0]
    BY <1>3, <1>5, ZenonT(60) DEF IInv, TypeOK
  <2>3. pc' = [pc EXCEPT ![t] = IF mutex = t THEN pc[t] ELSE "free"]
    BY <1>5, ZenonT(60) DEF IInv, TypeOK
  <2> QED BY Zenon, <1>5, <2>1, <2>2, <2>3 DEF DropCounts
<1>8. ASSUME NEW e \in Handle, e = old
      PROVE  IInv' /\ Only(e) /\ Dropped(e)
  BY <1>6, <1>7, <1>8, DropInv, ZenonT(60)
<1> QED BY <1>1, <1>8, ZenonT(60) DEF old

(* A step that leaves the entries, the handles to them and the lists alone *)
(* preserves the invariant if the threads stay where Control says.         *)
LEMMA FrameInv ==
  ASSUME IInv, TypeOK', Control',
         UNCHANGED <<entry, table, lru, fresh, keep, doomed, pins>>
  PROVE  IInv' /\ \A h \in Handle : Untouched(h)
<1>1. \A h \in Handle : /\ InTable(h)' <=> InTable(h)
                        /\ InFlight(h)' <=> InFlight(h)
                        /\ Doomed(h)' <=> Doomed(h)
                        /\ OnLRU(h)' <=> OnLRU(h)
                        /\ Allocated(h)' <=> Allocated(h)
  BY ZenonT(60) DEF InTable, InFlight, Doomed, OnLRU, Allocated
<1>2. \A h \in Handle : Settled(h)' <=> Settled(h)
  BY <1>1, ZenonT(60) DEF Settled
<1>3. TableKeys' /\ IsInjective(lru')
  BY ZenonT(60) DEF IInv, TableKeys
<1>4. FreshEntry'
  BY <1>1, ZenonT(60) DEF IInv, FreshEntry, TypeOK
<1>5. EntryStates'
  BY <1>1, <1>2, ZenonT(60)
     DEF IInv, EntryStates, PinnedInCache, Evictable, PinnedOutside
<1>6. NoDanglingHandle' /\ NoLeak'
  BY <1>1, <1>2, ZenonT(60) DEF IInv, NoDanglingHandle, NoLeak
<1>7. FreedOnce'
  BY <1>1, ZenonT(60) DEF IInv, FreedOnce
<1>8. \A h \in Handle : Untouched(h)
  BY <1>1, <1>2, ZenonT(60) DEF Untouched
<1> QED BY <1>3, <1>4, <1>5, <1>6, <1>7, <1>8, ZenonT(60) DEF IInv

(* Both ends of SetCapacity preserve the invariant. *)
LEMMA SetCapacityInv ==
  ASSUME IInv, NEW t \in Thread,
         (\E c \in Capacities : SetCapacityBegin(t, c)) \/ SetCapacityEnd(t)
  PROVE  IInv' /\ \A h \in Handle : Untouched(h)
<1> USE ConstAssumption
<1>1. CASE \E c \in Capacities : SetCapacityBegin(t, c)
  <2>1. PICK c \in Capacities : SetCapacityBegin(t, c)
    BY <1>1, ZenonT(60)
  <2>2. TypeOK'
    BY <2>1, ZenonT(60) DEF IInv, TypeOK, SetCapacityBegin, shardVars
  <2>3. Control'
    BY <2>1, ZenonT(60) DEF IInv, TypeOK, Control, SetCapacityBegin, MayCall
  <2> QED BY <2>1, <2>2, <2>3, FrameInv, ZenonT(60) DEF SetCapacityBegin, shardVars
<1>2. CASE SetCapacityEnd(t)
  <2>1. TypeOK'
    BY <1>2, ZenonT(60)
       DEF IInv, TypeOK, SetCapacityEnd, AfterUnlock, shardVars, configVars
  <2>2. Control'
    BY <1>2, ZenonT(60) DEF IInv, TypeOK, Control, SetCapacityEnd, AfterUnlock
  <2> QED BY <1>2, <2>1, <2>2, FrameInv, ZenonT(60) DEF SetCapacityEnd, shardVars
<1> QED BY <1>1, <1>2, ZenonT(60)

(* SetStrictCapacityLimit preserves the invariant. *)
LEMMA SetStrictInv ==
  ASSUME IInv, NEW t \in Thread, NEW b \in BOOLEAN, SetStrictCapacityLimit(t, b)
  PROVE  IInv' /\ \A h \in Handle : Untouched(h)
<1>1. TypeOK'
  BY ZenonT(60) DEF IInv, TypeOK, SetStrictCapacityLimit, shardVars, localVars
<1>2. Control'
  BY ZenonT(60) DEF IInv, Control, SetStrictCapacityLimit, localVars
<1> QED BY <1>1, <1>2, FrameInv, ZenonT(60)
           DEF SetStrictCapacityLimit, shardVars, localVars

-----------------------------------------------------------------------------

(* Lookup preserves the invariant: the entry found gains a reference and   *)
(* is not on the LRU list any more.                                        *)
LEMMA LookupInv ==
  ASSUME IInv, NEW t \in Thread, NEW k \in Key, Lookup(t, k)
  PROVE  /\ IInv' /\ Only(table[k])
         /\ \A h \in Handle :
              h = table[k] => LivesOn(h) /\ InTable(h)' /\ ~OnLRU(h)'
<1> USE ConstAssumption
<1> DEFINE e == table[k]
<1>1. e \in Handle /\ InTable(e)
  BY ZenonT(60) DEF Lookup, IInv, TypeOK, InTable
<1>2. Settled(e)
  BY <1>1, ZenonT(60) DEF IInv, NoDanglingHandle
<1>3. /\ entry[e] \in LRUHandle /\ entry[e].in_cache
      /\ entry[e].refs = pins[e] + 1
      /\ OnLRU(e) <=> entry[e].refs = 1
  BY <1>1, <1>2, SettledFacts, ZenonT(60)
<1>4. pins[e] \in Nat /\ entry[e].refs \in Nat /\ entry[e].charge \in Nat
  BY <1>1, <1>3, FieldTypes, ZenonT(60) DEF IInv, TypeOK
<1>5. /\ entry' = [entry EXCEPT ![e] = [entry[e] EXCEPT !.refs = @ + 1]]
      /\ pins' = [pins EXCEPT ![e] = pins[e] + 1]
      /\ UNCHANGED <<table, usage, capacity, strict, mutex, pc, fresh, keep, doomed>>
  BY ZenonT(60) DEF Lookup, configVars, localVars
<1>6. /\ lru' \in Seq(Handle) /\ IsInjective(lru') /\ lruUsage' \in Int
      /\ \A h \in Handle : OnLRU(h)' <=> OnLRU(h) /\ h # e
  <2>1. CASE entry[e].refs = 1
    <3>1. lru' = RemoveFirst(lru, e) /\ lruUsage' = lruUsage - entry[e].charge
      BY <2>1, ZenonT(60) DEF Lookup, Unlist, LRU_Remove
    <3>2. lru \in Seq(Handle) /\ IsInjective(lru) /\ lruUsage \in Int
      BY ZenonT(60) DEF IInv, TypeOK
    <3>3. Contains(lru, e)
      BY <1>3, <2>1, ZenonT(60) DEF OnLRU
    <3>4. lruUsage' \in Int
      BY <1>4, <3>1, <3>2
    <3>5. /\ lru' \in Seq(Handle) /\ IsInjective(lru')
          /\ \A h : Contains(lru', h) <=> Contains(lru, h) /\ h # e
      BY <3>1, <3>2, <3>3, RemoveList, ZenonT(60)
    <3> QED BY <3>4, <3>5, ZenonT(60) DEF OnLRU
  <2>2. CASE entry[e].refs # 1
    <3>1. UNCHANGED <<lru, lruUsage>>
      BY <2>2, ZenonT(60) DEF Lookup, Unlist
    <3> QED BY <1>3, <2>2, <3>1, ZenonT(60) DEF OnLRU, IInv, TypeOK
  <2> QED BY <2>1, <2>2, ZenonT(60)
<1> HIDE DEF e
<1>7. /\ entry' \in [Handle -> LRUHandle \cup {NoEntry}]
      /\ entry'[e] \in LRUHandle /\ entry'[e].key = entry[e].key
      /\ entry'[e].charge = entry[e].charge
      /\ entry'[e].refs = entry[e].refs + 1 /\ entry'[e].in_cache
      /\ \A h \in Handle : h # e => entry'[h] = entry[h]
      /\ pins' \in [Handle -> Nat] /\ pins'[e] = pins[e] + 1
      /\ \A h \in Handle : h # e => pins'[h] = pins[h]
  <2> DEFINE x == [entry[e] EXCEPT !.refs = @ + 1]
  <2>1. /\ x \in LRUHandle /\ x.key = entry[e].key /\ x.charge = entry[e].charge
        /\ x.refs = entry[e].refs + 1 /\ x.in_cache
    BY <1>3, <1>4 DEF LRUHandle
  <2>2. entry' = [entry EXCEPT ![e] = x] /\ entry \in [Handle -> LRUHandle \cup {NoEntry}]
    BY <1>5, ZenonT(60) DEF IInv, TypeOK
  <2> HIDE DEF x
  <2>3. /\ pins' \in [Handle -> Nat] /\ pins'[e] = pins[e] + 1
        /\ \A h \in Handle : h # e => pins'[h] = pins[h]
    BY SMTT(30), <1>1, <1>4, <1>5 DEF IInv, TypeOK
  <2> QED BY Zenon, <1>1, <2>1, <2>2, <2>3
<1>8. \A h \in Handle : /\ InTable(h)' <=> InTable(h)
                        /\ InFlight(h)' <=> InFlight(h)
                        /\ Doomed(h)' <=> Doomed(h)
                        /\ Allocated(h)' <=> Allocated(h)
  BY <1>1, <1>3, <1>5, <1>7 DEF InTable, InFlight, Doomed, Allocated
<1>9. \A h \in Handle : Settled(h)' <=> Settled(h)
  BY <1>8, ZenonT(60) DEF Settled
<1>10. TypeOK' /\ Control'
  BY <1>5, <1>6, <1>7, ZenonT(60) DEF IInv, TypeOK, Control
<1>11. TableKeys'
  BY SMTT(30), <1>5, <1>7 DEF IInv, TypeOK, TableKeys
<1>12. FreshEntry'
  BY SMTT(30), <1>2, <1>5, <1>6, <1>7, <1>8
     DEF IInv, FreshEntry, TypeOK, Settled, InFlight
<1>13. EntryStates'
  <2>1. ASSUME NEW h \in Handle, Settled(h)', h # e
        PROVE  /\ (PinnedInCache(h) \/ Evictable(h) \/ PinnedOutside(h))'
               /\ (entry[h].refs = pins[h] + (IF entry[h].in_cache THEN 1 ELSE 0))'
    BY ZenonT(30), <1>6, <1>7, <1>8, <1>9, <2>1
       DEF IInv, EntryStates, PinnedInCache, Evictable, PinnedOutside
  <2>2. ASSUME NEW h \in Handle, h = e
        PROVE  /\ PinnedInCache(h)'
               /\ (entry[h].refs = pins[h] + (IF entry[h].in_cache THEN 1 ELSE 0))'
    <3>1. entry'[h].refs > 1 /\ entry'[h].refs = pins'[h] + 1
      BY <1>3, <1>4, <1>7, <2>2
    <3>2. InTable(h)' /\ ~OnLRU(h)' /\ entry'[h].in_cache
      BY <1>1, <1>6, <1>7, <1>8, <2>2, ZenonT(60)
    <3> QED BY <3>1, <3>2, ZenonT(60) DEF PinnedInCache
  <2> QED BY <2>1, <2>2, ZenonT(60) DEF EntryStates
<1>14. NoDanglingHandle' /\ NoLeak'
  BY Zenon, <1>1, <1>2, <1>6, <1>7, <1>8, <1>9 DEF IInv, NoDanglingHandle, NoLeak
<1>15. FreedOnce'
  BY <1>2, <1>5, <1>7, <1>8, ZenonT(60) DEF IInv, FreedOnce, Settled
<1>16. Only(e)
  BY <1>6, <1>7, <1>8, <1>9, ZenonT(60) DEF Only, Untouched
<1>17. \A h \in Handle : h = e => LivesOn(h) /\ InTable(h)' /\ ~OnLRU(h)'
  BY <1>1, <1>2, <1>6, <1>7, <1>8, <1>9, ZenonT(60) DEF LivesOn
<1>18. IInv'
  BY <1>6, <1>10, <1>11, <1>12, <1>13, <1>14, <1>15, ZenonT(60) DEF IInv
<1> QED BY <1>16, <1>17, <1>18, ZenonT(60) DEF e

(* A handle goes back and the entry stays referenced: only its counts, and *)
(* perhaps its place on the list, change.                                  *)
LEMMA ReleaseKeepInv ==
  ASSUME IInv, NEW t \in Thread, NEW e \in Handle,
         ReleaseToLRU(t, e) \/ ReleaseShared(t, e)
  PROVE  /\ IInv' /\ Only(e) /\ LivesOn(e)
         /\ InTable(e)' <=> InTable(e)
         /\ ~OnLRU(e) /\ (OnLRU(e)' <=> ReleaseToLRU(t, e))
         /\ entry[e].refs > 1
<1> USE ConstAssumption
<1>1. /\ pins[e] > 0 /\ pins' = [pins EXCEPT ![e] = pins[e] - 1]
      /\ entry' = [entry EXCEPT ![e] = [entry[e] EXCEPT !.refs = @ - 1]]
      /\ doomed' = [doomed EXCEPT ![t] = doomed[t]]
      /\ pc' = [pc EXCEPT ![t] = pc[t]]
      /\ UNCHANGED <<capacity, strict, mutex, fresh, keep, table, usage>>
  BY ZenonT(60) DEF ReleaseToLRU, ReleaseShared, GiveBack, configVars, shardVars
<1>2. Settled(e)
  BY <1>1, ZenonT(60) DEF IInv, NoDanglingHandle
<1>3. /\ entry[e] \in LRUHandle
      /\ entry[e].refs = pins[e] + (IF entry[e].in_cache THEN 1 ELSE 0)
      /\ InTable(e) <=> entry[e].in_cache
      /\ OnLRU(e) <=> entry[e].in_cache /\ entry[e].refs = 1
  BY <1>2, SettledFacts, ZenonT(60)
<1>4. /\ pins[e] \in Nat /\ entry[e].refs \in Nat /\ entry[e].charge \in Nat
      /\ entry[e].in_cache \in BOOLEAN
  BY <1>3, FieldTypes, ZenonT(60) DEF IInv, TypeOK
<1>5. ~OnLRU(e) /\ entry[e].refs > 1
  <2>1. entry[e].refs = 2 \/ entry[e].refs > 1
    BY Zenon DEF ReleaseToLRU, ReleaseShared, OnlyCacheLeft
  <2> QED BY <1>3, <1>4, <2>1
<1>6. /\ lru' \in Seq(Handle) /\ IsInjective(lru') /\ lruUsage' \in Int
      /\ \A h \in Handle :
           OnLRU(h)' <=> \/ OnLRU(h)
                         \/ h = e /\ entry[e].refs = 2 /\ entry[e].in_cache
  <2>1. CASE ReleaseToLRU(t, e)
    <3>1. /\ lru' = Append(lru, e) /\ lruUsage' = lruUsage + entry[e].charge
          /\ entry[e].refs = 2 /\ entry[e].in_cache
      BY <2>1, ZenonT(60) DEF ReleaseToLRU, LRU_Append, OnlyCacheLeft
    <3>2. lru \in Seq(Handle) /\ IsInjective(lru) /\ usage \in Int /\ lruUsage \in Int
      BY ZenonT(60) DEF IInv, TypeOK
    <3> QED BY <1>4, <1>5, <3>1, <3>2, AppendList DEF OnLRU
  <2>2. CASE ReleaseShared(t, e)
    <3>1. UNCHANGED <<lru, lruUsage>> /\ ~(entry[e].refs = 2 /\ entry[e].in_cache)
      BY <2>2, ZenonT(60) DEF ReleaseShared, OnlyCacheLeft, shardVars
    <3> QED BY <3>1, ZenonT(60) DEF OnLRU, IInv, TypeOK
  <2> QED BY <2>1, <2>2, ZenonT(60)
<1>7. /\ entry' \in [Handle -> LRUHandle \cup {NoEntry}]
      /\ entry'[e] \in LRUHandle /\ entry'[e].key = entry[e].key
      /\ entry'[e].charge = entry[e].charge
      /\ entry'[e].refs = entry[e].refs - 1
      /\ entry'[e].in_cache = entry[e].in_cache
      /\ \A h \in Handle : h # e => entry'[h] = entry[h]
      /\ pins' \in [Handle -> Nat] /\ pins'[e] = pins[e] - 1
      /\ \A h \in Handle : h # e => pins'[h] = pins[h]
      /\ doomed' = doomed /\ pc' = pc
  <2>1. entry \in [Handle -> LRUHandle \cup {NoEntry}] /\ pins \in [Handle -> Nat]
    BY ZenonT(60) DEF IInv, TypeOK
  <2>2. entry[e].refs - 1 \in Nat /\ pins[e] - 1 \in Nat
    BY <1>1, <1>4, <1>5
  <2> DEFINE x == [entry[e] EXCEPT !.refs = @ - 1]
  <2>3. /\ x \in LRUHandle /\ x.key = entry[e].key /\ x.charge = entry[e].charge
        /\ x.refs = entry[e].refs - 1 /\ x.in_cache = entry[e].in_cache
    BY <1>3, <2>2, ZenonT(60) DEF LRUHandle
  <2>4. entry' = [entry EXCEPT ![e] = x]
    BY <1>1, ZenonT(60)
  <2> HIDE DEF x
  <2>5. doomed' = doomed /\ pc' = pc
    BY <1>1, ZenonT(60) DEF IInv, TypeOK
  <2>6. /\ entry' \in [Handle -> LRUHandle \cup {NoEntry}]
        /\ entry'[e] = x /\ \A h \in Handle : h # e => entry'[h] = entry[h]
    BY <2>1, <2>3, <2>4, ZenonT(60)
  <2>7. /\ pins' \in [Handle -> Nat] /\ pins'[e] = pins[e] - 1
        /\ \A h \in Handle : h # e => pins'[h] = pins[h]
    BY <1>1, <2>1, <2>2, ZenonT(60)
  <2> QED BY <2>3, <2>5, <2>6, <2>7, ZenonT(60)
<1>8. \A h \in Handle : /\ InTable(h)' <=> InTable(h)
                        /\ InFlight(h)' <=> InFlight(h)
                        /\ Doomed(h)' <=> Doomed(h)
                        /\ Allocated(h)' <=> Allocated(h)
  BY <1>1, <1>3, <1>7 DEF InTable, InFlight, Doomed, Allocated
<1>9. \A h \in Handle : Settled(h)' <=> Settled(h)
  BY <1>8, ZenonT(60) DEF Settled
<1>10. TypeOK' /\ Control'
  <2>1. TypeOK'
    BY <1>1, <1>6, <1>7, ZenonT(60) DEF IInv, TypeOK
  <2>2. Control'
    BY <1>1, <1>6, <1>7 DEF IInv, Control
  <2> QED BY <2>1, <2>2, ZenonT(60)
<1>11. TableKeys'
  BY <1>1, <1>7, ZenonT(60) DEF IInv, TypeOK, TableKeys
<1>12. FreshEntry'
  BY SMTT(30), <1>1, <1>2, <1>6, <1>7, <1>8
     DEF IInv, FreshEntry, TypeOK, Settled, InFlight
<1>13. EntryStates'
  <2>1. ASSUME NEW h \in Handle, Settled(h)', h # e
        PROVE  /\ (PinnedInCache(h) \/ Evictable(h) \/ PinnedOutside(h))'
               /\ (entry[h].refs = pins[h] + (IF entry[h].in_cache THEN 1 ELSE 0))'
    BY ZenonT(30), <1>6, <1>7, <1>8, <1>9, <2>1
       DEF IInv, EntryStates, PinnedInCache, Evictable, PinnedOutside
  <2>2. /\ (PinnedInCache(e) \/ Evictable(e) \/ PinnedOutside(e))'
        /\ (entry[e].refs = pins[e] + (IF entry[e].in_cache THEN 1 ELSE 0))'
    BY SMTT(30), <1>1, <1>3, <1>4, <1>5, <1>6, <1>7, <1>8
       DEF PinnedInCache, Evictable, PinnedOutside
  <2> QED BY <2>1, <2>2, ZenonT(60) DEF EntryStates
<1>14. NoDanglingHandle' /\ NoLeak'
  BY SMTT(30), <1>1, <1>2, <1>3, <1>4, <1>5, <1>6, <1>7, <1>8, <1>9
     DEF IInv, NoDanglingHandle, NoLeak
<1>15. FreedOnce'
  BY <1>2, <1>7, <1>8, ZenonT(60) DEF IInv, FreedOnce, Settled
<1>16. Only(e)
  BY <1>6, <1>7, <1>8, <1>9, ZenonT(60) DEF Only, Untouched
<1>17. LivesOn(e) /\ (InTable(e)' <=> InTable(e))
  BY <1>2, <1>7, <1>8, <1>9, ZenonT(60) DEF LivesOn
<1>18. OnLRU(e)' <=> ReleaseToLRU(t, e)
  BY <1>5, <1>6, ZenonT(60) DEF ReleaseToLRU, ReleaseShared, OnlyCacheLeft
<1>19. IInv'
  BY <1>6, <1>10, <1>11, <1>12, <1>13, <1>14, <1>15, ZenonT(60) DEF IInv
<1> QED BY <1>5, <1>16, <1>17, <1>18, <1>19, ZenonT(60)

(* The list an idle thread starts collecting in is empty. *)
LEMMA FirstDoomed ==
  ASSUME IInv, NEW t \in Thread, NEW e \in Handle, pc[t] = "idle"
  PROVE  <<e>> = Append(doomed[t], e)
<1>1. doomed[t] = <<>>
  BY ZenonT(60) DEF IInv, Control
<1> QED BY <1>1

(* A Release that ends the life of the entry preserves the invariant. *)
LEMMA ReleaseDropInv ==
  ASSUME IInv, NEW t \in Thread, NEW e \in Handle,
         ReleaseLast(t, e) \/ ReleaseFull(t, e)
  PROVE  IInv' /\ Only(e) /\ Dropped(e) /\ pins[e] = 1 /\ ~OnLRU(e)
<1> USE ConstAssumption
<1>1. /\ pc[t] = "idle" /\ mutex = NoThread
      /\ pins[e] > 0 /\ pins' = [pins EXCEPT ![e] = pins[e] - 1]
      /\ doomed' = [doomed EXCEPT ![t] = <<e>>]
      /\ pc' = [pc EXCEPT ![t] = "free"]
      /\ usage' = usage - entry[e].charge
      /\ UNCHANGED <<capacity, strict, mutex, fresh, keep, lru, lruUsage>>
  BY ZenonT(60) DEF ReleaseLast, ReleaseFull, GiveBack, MayCall, configVars
<1>2. Settled(e)
  BY <1>1, ZenonT(60) DEF IInv, NoDanglingHandle
<1>3. /\ entry[e] \in LRUHandle
      /\ entry[e].refs = pins[e] + (IF entry[e].in_cache THEN 1 ELSE 0)
      /\ InTable(e) <=> entry[e].in_cache
      /\ OnLRU(e) <=> entry[e].in_cache /\ entry[e].refs = 1
      /\ InTable(e) => table[entry[e].key] = e
  BY <1>2, SettledFacts, ZenonT(60)
<1>4. /\ pins[e] \in Nat /\ entry[e].refs \in Nat /\ entry[e].charge \in Nat
      /\ entry[e].in_cache \in BOOLEAN /\ entry[e].key \in Key
  BY <1>3, FieldTypes, ZenonT(60) DEF IInv, TypeOK
<1>5. ~OnLRU(e)
  BY <1>1, <1>3, <1>4
<1>6. /\ pins[e] = 1
      /\ \/ /\ entry[e].refs = 1 /\ ~entry[e].in_cache /\ UNCHANGED table
            /\ entry' = [entry EXCEPT ![e] = [entry[e] EXCEPT !.refs = @ - 1]]
         \/ /\ entry[e].refs = 2 /\ entry[e].in_cache
            /\ table' = [table EXCEPT ![entry[e].key] = NoHandle]
            /\ entry' = [entry EXCEPT ![e] = Uncached(entry[e], 2)]
  <2>1. CASE ReleaseLast(t, e)
    <3>1. /\ entry[e].refs = 1 /\ UNCHANGED table
          /\ entry' = [entry EXCEPT ![e] = [entry[e] EXCEPT !.refs = @ - 1]]
      BY <2>1, ZenonT(60) DEF ReleaseLast
    <3>2. pins[e] = 1 /\ ~entry[e].in_cache
      BY <1>1, <1>3, <1>4, <3>1
    <3> QED BY <3>1, <3>2, ZenonT(60)
  <2>2. CASE ReleaseFull(t, e)
    <3>1. /\ entry[e].refs = 2 /\ entry[e].in_cache
          /\ table' = [table EXCEPT ![entry[e].key] = NoHandle]
          /\ entry' = [entry EXCEPT ![e] = Uncached(entry[e], 2)]
      BY <2>2, ZenonT(60) DEF ReleaseFull, OnlyCacheLeft
    <3>2. pins[e] = 1
      BY SMTT(30), <1>3, <1>4, <3>1
    <3> QED BY <3>1, <3>2, ZenonT(60)
  <2> QED BY <2>1, <2>2, ZenonT(60)
<1>7. table' = [k \in Key |-> IF table[k] = e THEN NoHandle ELSE table[k]]
  <2>1. CASE entry[e].in_cache
    <3>1. \A k \in Key : table[k] = e <=> k = entry[e].key
      BY <1>3, <1>4, <2>1, ZenonT(60) DEF IInv, TableKeys, TypeOK
    <3> QED BY <1>4, <1>6, <2>1, <3>1, ZenonT(60) DEF IInv, TypeOK
  <2>2. CASE ~entry[e].in_cache
    <3>1. \A k \in Key : table[k] # e
      BY <1>3, <2>2, ZenonT(60) DEF InTable
    <3> QED BY <1>6, <2>2, <3>1, ZenonT(60) DEF IInv, TypeOK
  <2> QED BY <2>1, <2>2, ZenonT(60)
<1>8. DropShared(t, e)
  <2>1. \A h \in Handle : OnLRU(h)' <=> OnLRU(h) /\ h # e
    BY <1>1, <1>5, ZenonT(60) DEF OnLRU
  <2>2. /\ lru' \in Seq(Handle) /\ IsInjective(lru')
        /\ usage' \in Int /\ lruUsage' \in Int
    BY <1>1, <1>4 DEF IInv, TypeOK
  <2> QED BY <1>1, <1>2, <1>7, <2>1, <2>2, ZenonT(60) DEF DropShared
<1>9. DropCounts(t, e)
  <2>1. /\ entry' \in [Handle -> LRUHandle \cup {NoEntry}]
        /\ entry'[e] \in LRUHandle
        /\ entry'[e].refs = 0 /\ entry'[e].in_cache = FALSE
        /\ \A h \in Handle : h # e => entry'[h] = entry[h]
    <3>1. PICK n \in Nat :
            /\ n = entry[e].refs
            /\ \/ entry' = [entry EXCEPT ![e] = Uncached(entry[e], n)]
               \/ /\ entry' = [entry EXCEPT ![e] = [entry[e] EXCEPT !.refs = @ - n]]
                  /\ ~entry[e].in_cache
      <4>1. 1 \in Nat /\ 2 \in Nat
        BY ZenonT(60)
      <4> QED BY <1>6, <4>1, ZenonT(60)
    <3>2. entry[e].refs >= n /\ entry[e].refs - n = 0
      BY <3>1
    <3>3. TypeOK
      BY ZenonT(60) DEF IInv
    <3>4. /\ entry' \in [Handle -> LRUHandle \cup {NoEntry}]
          /\ entry'[e] \in LRUHandle
          /\ entry'[e].refs = entry[e].refs - n
          /\ entry'[e].in_cache = FALSE
          /\ \A h \in Handle : h # e => entry'[h] = entry[h]
      BY Zenon, <1>3, <3>1, <3>2, <3>3, HeapUpdate
    <3> QED BY <3>2, <3>4, ZenonT(60)
  <2>2. doomed' = [doomed EXCEPT ![t] = Append(doomed[t], e)]
    BY Zenon, <1>1, FirstDoomed
  <2>3. pins' = [pins EXCEPT ![e] = 0]
    BY <1>1, <1>6
  <2>4. pc' = [pc EXCEPT ![t] = IF mutex = t THEN pc[t] ELSE "free"]
    BY Zenon, <1>1
  <2> QED BY <2>1, <2>2, <2>3, <2>4, ZenonT(60) DEF DropCounts
<1> QED BY <1>5, <1>6, <1>8, <1>9, DropInv, ZenonT(60)

-----------------------------------------------------------------------------

(* Allocating the entry of an Insert preserves the invariant: the address  *)
(* was free, so nothing in the shard referred to it.                       *)
LEMMA InsertBeginInv ==
  ASSUME IInv, NEW t \in Thread, NEW k \in Key, NEW c \in Charges,
         NEW w \in BOOLEAN, InsertBegin(t, k, c, w)
  PROVE  IInv' /\ \A h \in Handle : Untouched(h)
<1> USE ConstAssumption
<1>1. PICK e \in Handle :
        /\ entry[e] = NoEntry
        /\ entry' = [entry EXCEPT ![e] = [key |-> k, charge |-> c,
                                          refs |-> InitialRefs(w),
                                          in_cache |-> TRUE]]
        /\ fresh' = [fresh EXCEPT ![t] = e]
  BY Zenon DEF InsertBegin
<1>2. /\ keep' = [keep EXCEPT ![t] = w] /\ mutex' = t
      /\ pc' = [pc EXCEPT ![t] = "insert"]
      /\ UNCHANGED <<table, lru, usage, lruUsage, capacity, strict, doomed, pins>>
      /\ pc[t] = "idle" /\ mutex = NoThread
  BY ZenonT(60) DEF InsertBegin, MayCall, shardVars, configVars
<1>3. InitialRefs(w) \in Nat
  BY ZenonT(60) DEF InitialRefs
<1>4. /\ entry' \in [Handle -> LRUHandle \cup {NoEntry}]
      /\ entry'[e] \in LRUHandle
      /\ entry'[e].refs = InitialRefs(w) /\ entry'[e].in_cache
      /\ \A h \in Handle : h # e => entry'[h] = entry[h]
  BY <1>1, <1>3, ZenonT(60) DEF LRUHandle, IInv, TypeOK
<1>5. ~Settled(e) /\ ~Allocated(e) /\ ~Doomed(e) /\ ~InTable(e) /\ ~OnLRU(e) /\ pins[e] = 0
  <2>1. ~Allocated(e) /\ ~Settled(e)
    BY <1>1, ZenonT(60) DEF Allocated, Settled
  <2>2. ~Doomed(e)
    BY <2>1, ZenonT(60) DEF IInv, FreedOnce
  <2>3. ~InTable(e) /\ ~OnLRU(e) /\ ~(pins[e] > 0)
    BY <2>1, ZenonT(60) DEF IInv, NoDanglingHandle
  <2>4. pins[e] \in Nat
    BY ZenonT(60) DEF IInv, TypeOK
  <2>5. pins[e] = 0
    BY <2>3, <2>4
  <2> QED BY <2>1, <2>2, <2>3, <2>5, ZenonT(60)
<1>6. \A u \in Thread : u # t => fresh[u] = NoHandle /\ fresh'[u] = fresh[u]
  BY <1>1, <1>2, ZenonT(60) DEF IInv, TypeOK, Control
<1>7. fresh'[t] = e /\ keep'[t] = w /\ fresh[t] = NoHandle
  BY <1>1, <1>2, ZenonT(60) DEF IInv, TypeOK, Control
<1>8. \A h \in Handle : /\ InTable(h)' <=> InTable(h)
                        /\ OnLRU(h)' <=> OnLRU(h)
                        /\ Doomed(h)' <=> Doomed(h)
                        /\ InFlight(h)' <=> h = e
                        /\ ~InFlight(h)
                        /\ Allocated(h)' <=> Allocated(h) \/ h = e
  BY <1>2, <1>4, <1>6, <1>7, ZenonT(60)
     DEF InTable, OnLRU, Doomed, InFlight, Allocated
<1>9. \A h \in Handle : Settled(h)' <=> Settled(h)
  BY <1>5, <1>8, ZenonT(60) DEF Settled
<1>10. TypeOK'
  BY <1>1, <1>2, <1>4, ZenonT(60) DEF IInv, TypeOK
<1>11. Control'
  BY <1>1, <1>2, <1>6, <1>7, ZenonT(60) DEF IInv, TypeOK, Control
<1>12. TableKeys'
  BY <1>2, <1>4, <1>5, ZenonT(60) DEF IInv, TypeOK, TableKeys, InTable
<1>13. FreshEntry'
  BY <1>2, <1>4, <1>5, <1>6, <1>7, <1>8, ZenonT(60) DEF IInv, FreshEntry
<1>14. EntryStates'
  BY <1>2, <1>4, <1>5, <1>8, <1>9, ZenonT(60)
     DEF IInv, EntryStates, PinnedInCache, Evictable, PinnedOutside
<1>15. NoDanglingHandle' /\ NoLeak'
  BY <1>2, <1>8, <1>9, ZenonT(60) DEF IInv, NoDanglingHandle, NoLeak
<1>16. FreedOnce' /\ IsInjective(lru')
  BY <1>2, <1>4, <1>5, <1>8, ZenonT(60) DEF IInv, FreedOnce
<1>17. \A h \in Handle : Untouched(h)
  BY <1>2, <1>4, <1>5, <1>8, <1>9, ZenonT(60) DEF Untouched
<1> QED BY <1>17, <1>10, <1>11, <1>12, <1>13, <1>14, <1>15, <1>16, ZenonT(60)
           DEF IInv

(* An Insert refused under the strict limit preserves the invariant: its   *)
(* entry, known to no other thread, is deleted or left to be freed.        *)
LEMMA InsertRejectInv ==
  ASSUME IInv, NEW t \in Thread, InsertReject(t)
  PROVE  /\ IInv' /\ Only(fresh[t])
         /\ \A h \in Handle : h = fresh[t] =>
              /\ InFlight(h) /\ ~InTable(h) /\ ~OnLRU(h) /\ pins[h] = 0
              /\ ~Settled(h)' /\ (Doomed(h)' <=> ~keep[t])
<1> USE ConstAssumption
<1> DEFINE e == fresh[t]
<1>1. /\ mutex = t /\ pc[t] = "insert" /\ e \in Handle
      /\ mutex' = NoThread
      /\ pc' = [pc EXCEPT ![t] = AfterUnlock(doomed'[t])]
      /\ fresh' = [fresh EXCEPT ![t] = NoHandle]
      /\ keep' = [keep EXCEPT ![t] = FALSE]
      /\ UNCHANGED <<capacity, strict, table, lru, usage, lruUsage, pins>>
  BY ZenonT(60)
     DEF InsertReject, InsertReturn, IInv, TypeOK, Control, shardVars, configVars
<1>2. /\ Allocated(e) /\ entry[e].in_cache /\ pins[e] = 0
      /\ entry[e].refs = InitialRefs(keep[t])
      /\ ~InTable(e) /\ ~OnLRU(e) /\ ~Doomed(e)
  BY <1>1, ZenonT(60) DEF IInv, FreshEntry
<1>3. \A u \in Thread : u # t => fresh[u] = NoHandle /\ pc[u] \notin {"insert", "shrink"}
  BY <1>1, ZenonT(60) DEF IInv, TypeOK, Control
<1> HIDE DEF e
<1>4. \A h \in Handle : /\ InTable(h)' <=> InTable(h)
                        /\ OnLRU(h)' <=> OnLRU(h)
                        /\ ~InFlight(h)'
                        /\ InFlight(h) <=> h = e
  BY <1>1, <1>3, ZenonT(60) DEF InTable, OnLRU, InFlight, IInv, TypeOK, e
<1>5. FreshEntry' /\ IsInjective(lru')
  BY ZenonT(30), <1>1, <1>3 DEF FreshEntry, IInv, TypeOK
<1>6. AfterUnlock(doomed'[t]) = IF doomed'[t] = <<>> THEN "idle" ELSE "free"
  BY ZenonT(60) DEF AfterUnlock
<1>7. CASE keep[t]
  <2>1. entry' = [entry EXCEPT ![e] = NoEntry] /\ doomed' = doomed
    BY <1>7, ZenonT(60) DEF InsertReject, Discard, e
  <2>2. \A h \in Handle : h # e => entry'[h] = entry[h]
    BY <2>1, ZenonT(60) DEF IInv, TypeOK
  <2>3. \A h \in Handle : /\ Allocated(h)' <=> Allocated(h) /\ h # e
                          /\ Doomed(h)' <=> Doomed(h)
    BY <1>1, <2>1, <2>2, ZenonT(60) DEF Allocated, Doomed, IInv, TypeOK
  <2>4. \A h \in Handle : Settled(h)' <=> Settled(h)
    BY <1>2, <1>4, <2>3, ZenonT(60) DEF Settled
  <2>5. TypeOK'
    BY <1>1, <1>6, <2>1, ZenonT(60) DEF IInv, TypeOK
  <2>6. Control'
    BY <1>1, <1>3, <1>6, <2>1, ZenonT(60) DEF IInv, TypeOK, Control
  <2>7. TableKeys'
    BY <1>1, <1>2, <2>2, ZenonT(60) DEF IInv, TypeOK, TableKeys, InTable
  <2>8. EntryStates'
    BY <1>1, <1>2, <1>4, <2>2, <2>3, <2>4, ZenonT(60)
       DEF IInv, EntryStates, PinnedInCache, Evictable, PinnedOutside, Settled
  <2>9. NoDanglingHandle' /\ NoLeak'
    BY <1>1, <1>2, <1>4, <2>3, <2>4, ZenonT(60) DEF IInv, NoDanglingHandle, NoLeak
  <2>10. FreedOnce'
    BY <1>2, <2>1, <2>2, <2>3, ZenonT(60) DEF IInv, FreedOnce
  <2>11. Only(e)
    BY <1>1, <1>4, <2>2, <2>3, <2>4, ZenonT(60) DEF Only, Untouched
  <2>12. \A h \in Handle : h = e =>
           /\ InFlight(h) /\ ~InTable(h) /\ ~OnLRU(h) /\ pins[h] = 0
           /\ ~Settled(h)' /\ (Doomed(h)' <=> ~keep[t])
    BY <1>2, <1>4, <1>7, <2>3, <2>4, ZenonT(60) DEF Settled
  <2>13. IInv'
    BY <1>5, <2>5, <2>6, <2>7, <2>8, <2>9, <2>10, ZenonT(60) DEF IInv
  <2> QED BY <2>11, <2>12, <2>13, ZenonT(60) DEF e
<1>8. CASE ~keep[t]
  <2>1. doomed' = [doomed EXCEPT ![t] = Append(doomed[t], e)] /\ entry' = entry
    BY <1>8, ZenonT(60) DEF InsertReject, Discard, e
  <2>2. /\ doomed' \in [Thread -> Seq(Handle)]
        /\ doomed'[t] # <<>>
        /\ \A u \in Thread : u # t => doomed'[u] = doomed[u]
        /\ \A h \in Handle : Doomed(h)' <=> Doomed(h) \/ h = e
        /\ \A u \in Thread : IsInjective(doomed'[u])
        /\ \A u, v \in Thread, h \in Handle :
             Contains(doomed'[u], h) /\ Contains(doomed'[v], h) => u = v
    BY Zenon, <1>1, <1>2, <2>1, DoomedAppend DEF e
  <2>3. \A h \in Handle : /\ Allocated(h)' <=> Allocated(h)
                          /\ Settled(h)' <=> Settled(h)
    BY <1>2, <1>4, <2>1, <2>2, ZenonT(60) DEF Settled, Allocated
  <2>4. TypeOK'
    BY <1>1, <1>6, <2>1, <2>2, ZenonT(60) DEF IInv, TypeOK
  <2>5. Control'
    BY <1>1, <1>3, <1>6, <2>2, ZenonT(60) DEF IInv, TypeOK, Control
  <2>6. TableKeys'
    BY <1>1, <2>1, ZenonT(60) DEF IInv, TableKeys
  <2>7. EntryStates'
    BY <1>1, <1>4, <2>1, <2>3, ZenonT(60)
       DEF IInv, EntryStates, PinnedInCache, Evictable, PinnedOutside
  <2>8. NoDanglingHandle' /\ NoLeak'
    BY <1>1, <1>4, <2>2, <2>3, ZenonT(60) DEF IInv, NoDanglingHandle, NoLeak
  <2>9. FreedOnce'
    BY <1>2, <1>8, <2>1, <2>2, <2>3, ZenonT(60) DEF IInv, FreedOnce, InitialRefs
  <2>10. Only(e)
    BY <1>1, <1>4, <2>1, <2>2, <2>3, ZenonT(60) DEF Only, Untouched
  <2>11. \A h \in Handle : h = e =>
           /\ InFlight(h) /\ ~InTable(h) /\ ~OnLRU(h) /\ pins[h] = 0
           /\ ~Settled(h)' /\ (Doomed(h)' <=> ~keep[t])
    BY <1>2, <1>4, <1>8, <2>2, <2>3, ZenonT(60) DEF Settled
  <2>12. IInv'
    BY <1>5, <2>4, <2>5, <2>6, <2>7, <2>8, <2>9, ZenonT(60) DEF IInv
  <2> QED BY <2>10, <2>11, <2>12, ZenonT(60) DEF e
<1> QED BY <1>7, <1>8, ZenonT(60)

(* What an accepted Insert makes of its entry e and of the one it replaces.*)
Accepted(t, e, old) ==
  /\ \A h \in Handle : h # e /\ h # old => Untouched(h)
  /\ \A h \in Handle : h = e =>
       /\ InFlight(h) /\ ~InTable(h) /\ ~OnLRU(h) /\ pins[h] = 0
       /\ Settled(h)' /\ InTable(h)' /\ (OnLRU(h)' <=> ~keep[t])
       /\ pins'[h] = (IF keep[t] THEN 1 ELSE 0)
       /\ entry'[h].charge = entry[h].charge
  /\ \A h \in Handle : h = old =>
       /\ LastRef(h) => Dropped(h)
       /\ ~LastRef(h) => LivesOn(h)
       /\ ~InTable(h)' /\ ~OnLRU(h)' /\ pins'[h] = pins[h]

(* An accepted Insert preserves the invariant: its entry replaces the one  *)
(* the table had for the key, which is dropped when only the cache had it  *)
(* and lives on outside the cache when clients still hold it.              *)
LEMMA InsertAcceptInv ==
  ASSUME IInv, NEW t \in Thread, InsertAccept(t)
  PROVE  IInv' /\ Accepted(t, fresh[t], table[entry[fresh[t]].key])
<1> USE ConstAssumption
<1> DEFINE e    == fresh[t]
           k    == entry[e].key
           old  == table[k]
           last == LastRef(old)
           gone == IF last THEN entry[old].charge ELSE 0
           rest == IF last THEN RemoveFirst(lru, old) ELSE lru
<1>1. /\ mutex = t /\ pc[t] = "insert"
      /\ table' = [table EXCEPT ![k] = e]
      /\ usage' = usage + entry[e].charge - gone
      /\ entry' = IF old = NoHandle THEN entry
                  ELSE [entry EXCEPT ![old] = Uncached(entry[old], 1)]
      /\ doomed' = [doomed EXCEPT ![t] = IF last THEN Append(@, old) ELSE @]
      /\ lru' = IF keep[t] THEN rest ELSE Append(rest, e)
      /\ lruUsage' = IF keep[t] THEN lruUsage - gone
                     ELSE lruUsage - gone + entry[e].charge
      /\ pins' = IF keep[t] THEN [pins EXCEPT ![e] = @ + 1] ELSE pins
      /\ mutex' = NoThread
      /\ pc' = [pc EXCEPT ![t] = AfterUnlock(doomed'[t])]
      /\ fresh' = [fresh EXCEPT ![t] = NoHandle]
      /\ keep' = [keep EXCEPT ![t] = FALSE]
      /\ UNCHANGED <<capacity, strict>>
  BY ZenonT(30) DEF InsertAccept, InsertReturn, configVars
<1>2. e \in Handle /\ keep[t] \in BOOLEAN
  BY ZenonT(30), <1>1 DEF IInv, TypeOK, Control
<1>3. /\ Allocated(e) /\ entry[e].in_cache /\ pins[e] = 0
      /\ entry[e].refs = InitialRefs(keep[t])
      /\ ~InTable(e) /\ ~OnLRU(e) /\ ~Doomed(e)
  BY <1>2, ZenonT(60) DEF IInv, FreshEntry
<1>4. entry[e] \in LRUHandle
  BY <1>2, <1>3, ZenonT(60) DEF IInv, TypeOK, Allocated
<1>5. k \in Key /\ entry[e].charge \in Nat /\ old \in Handle \cup {NoHandle}
  BY <1>4, FieldTypes, ZenonT(60) DEF IInv, TypeOK
<1>6. \A u \in Thread : u # t => fresh[u] = NoHandle /\ pc[u] \notin {"insert", "shrink"}
  BY ZenonT(30), <1>1 DEF IInv, TypeOK, Control
<1> HIDE DEF e, k, gone, rest, last
<1>7. ASSUME old # NoHandle
      PROVE  /\ old \in Handle /\ InTable(old) /\ Settled(old) /\ old # e
             /\ entry[old] \in LRUHandle /\ entry[old].in_cache
             /\ entry[old].refs = pins[old] + 1
             /\ OnLRU(old) <=> entry[old].refs = 1
             /\ entry[old].refs \in Nat /\ entry[old].charge \in Nat
             /\ pins[old] \in Nat
  <2>1. old \in Handle /\ InTable(old) /\ old # e
    BY <1>3, <1>5, <1>7, ZenonT(60) DEF InTable
  <2>2. Settled(old)
    BY <2>1, ZenonT(60) DEF IInv, NoDanglingHandle
  <2>3. pins[old] \in Nat
    BY <2>1, ZenonT(60) DEF IInv, TypeOK
  <2> HIDE DEF old
  <2> QED BY <2>1, <2>2, <2>3, SettledFacts, FieldTypes, ZenonT(60)
<1>8. \A j \in Key : j # k => table[j] # old \/ old = NoHandle
  BY ZenonT(30), <1>5, <1>7 DEF IInv, TypeOK, TableKeys
<1>9. \A h \in Handle : InTable(h)' <=> h = e \/ (InTable(h) /\ h # old)
  BY <1>1, <1>2, <1>5, <1>8, ZenonT(60) DEF InTable, IInv, TypeOK
<1>10. last <=> old # NoHandle /\ entry[old].refs = 1
  BY ZenonT(60) DEF last, LastRef
<1> HIDE DEF old
<1>11. /\ rest \in Seq(Handle) /\ IsInjective(rest)
       /\ \A h \in Handle : Contains(rest, h) <=> OnLRU(h) /\ h # old
       /\ gone \in Nat
  <2>1. lru \in Seq(Handle) /\ IsInjective(lru)
    BY ZenonT(60) DEF IInv, TypeOK
  <2>2. CASE last
    <3>1. rest = RemoveFirst(lru, old) /\ gone = entry[old].charge
      BY <2>2, ZenonT(60) DEF rest, gone
    <3>2. Contains(lru, old) /\ gone \in Nat
      BY <1>7, <1>10, <2>2, <3>1, ZenonT(60) DEF OnLRU
    <3> QED BY <2>1, <3>1, <3>2, RemoveList, ZenonT(60) DEF OnLRU
  <2>3. CASE ~last
    <3>1. rest = lru /\ gone = 0
      BY <2>3, ZenonT(60) DEF rest, gone
    <3>2. \A h \in Handle : h = old => ~OnLRU(h)
      BY <1>7, <1>10, <2>3, ZenonT(60)
    <3> QED BY <2>1, <3>1, <3>2, ZenonT(60) DEF OnLRU
  <2> QED BY <2>2, <2>3, ZenonT(60)
<1>12. /\ lru' \in Seq(Handle) /\ IsInjective(lru')
       /\ \A h \in Handle :
            OnLRU(h)' <=> (OnLRU(h) /\ h # old) \/ (~keep[t] /\ h = e)
  <2>1. CASE keep[t]
    BY <1>1, <1>11, <2>1, ZenonT(60) DEF OnLRU
  <2>2. CASE ~keep[t]
    <3>1. lru' = Append(rest, e) /\ ~Contains(rest, e)
      BY <1>1, <1>2, <1>3, <1>11, <2>2, ZenonT(60)
    <3> QED BY <1>2, <1>11, <2>2, <3>1, AppendList, ZenonT(60) DEF OnLRU
  <2> QED BY <2>1, <2>2, ZenonT(60)
<1>13. /\ entry' \in [Handle -> LRUHandle \cup {NoEntry}]
       /\ \A h \in Handle : h # old => entry'[h] = entry[h]
       /\ old # NoHandle => /\ entry'[old] \in LRUHandle
                            /\ entry'[old].key = entry[old].key
                            /\ entry'[old].charge = entry[old].charge
                            /\ entry'[old].refs = entry[old].refs - 1
                            /\ entry'[old].in_cache = FALSE
  <2>1. CASE old = NoHandle
    BY <1>1, <2>1, ZenonT(60) DEF IInv, TypeOK
  <2>2. CASE old # NoHandle
    <3>1. 1 \in Nat /\ entry[old].refs >= 1
      BY <1>7, <2>2
    <3>2. TypeOK
      BY ZenonT(60) DEF IInv
    <3>3. entry' = [entry EXCEPT ![old] = Uncached(entry[old], 1)]
      BY <1>1, <2>2, ZenonT(60)
    <3> QED BY ZenonT(30), <1>7, <2>2, <3>1, <3>2, <3>3, HeapUpdate
  <2> QED BY Zenon, <2>1, <2>2
<1>14. /\ pins' \in [Handle -> Nat]
       /\ pins'[e] = IF keep[t] THEN 1 ELSE 0
       /\ \A h \in Handle : h # e => pins'[h] = pins[h]
  BY SMTT(30), <1>1, <1>2, <1>3 DEF IInv, TypeOK
<1>15. /\ doomed' \in [Thread -> Seq(Handle)]
       /\ \A u \in Thread : u # t => doomed'[u] = doomed[u]
       /\ \A h \in Handle : Doomed(h)' <=> Doomed(h) \/ (last /\ h = old)
       /\ \A u \in Thread : IsInjective(doomed'[u])
       /\ \A u, v \in Thread, h \in Handle :
            Contains(doomed'[u], h) /\ Contains(doomed'[v], h) => u = v
  <2>1. CASE last
    <3>1. old \in Handle /\ ~Doomed(old)
      BY <1>7, <1>10, <2>1, ZenonT(60) DEF Settled
    <3>2. doomed' = [doomed EXCEPT ![t] = Append(doomed[t], old)]
      BY <1>1, <2>1, ZenonT(60)
    <3> QED BY ZenonT(30), <2>1, <3>1, <3>2, DoomedAppend
  <2>2. CASE ~last
    <3>1. doomed' = doomed
      BY <1>1, <2>2, ZenonT(60) DEF IInv, TypeOK
    <3> QED BY <2>2, <3>1, ZenonT(60) DEF Doomed, IInv, TypeOK, FreedOnce
  <2> QED BY <2>1, <2>2, ZenonT(60)
<1>16. \A h \in Handle : ~InFlight(h)' /\ (InFlight(h) <=> h = e)
  BY <1>1, <1>6, ZenonT(60) DEF InFlight, IInv, TypeOK, e
<1>17. \A h \in Handle : Allocated(h)' <=> Allocated(h)
  BY <1>7, <1>13, ZenonT(60) DEF Allocated
<1>18. \A h \in Handle :
         Settled(h)' <=> (Settled(h) /\ ~(last /\ h = old)) \/ h = e
  <2>1. ~(last /\ e = old)
    BY <1>7, <1>10, ZenonT(60)
  <2> QED BY <1>3, <1>15, <1>16, <1>17, <2>1, ZenonT(60) DEF Settled
<1>19. TypeOK'
  <2>1. usage' \in Int /\ lruUsage' \in Int
    <3>1. usage \in Int /\ lruUsage \in Int
      BY ZenonT(60) DEF IInv, TypeOK
    <3> QED BY SMTT(30), <1>1, <1>5, <1>11, <3>1
  <2>2. table' \in [Key -> Handle \cup {NoHandle}]
    BY <1>1, <1>2, <1>5, ZenonT(60) DEF IInv, TypeOK
  <2>3. pc' \in [Thread -> {"idle", "insert", "shrink", "free"}]
    BY <1>1, ZenonT(60) DEF IInv, TypeOK, AfterUnlock
  <2>4. /\ fresh' \in [Thread -> Handle \cup {NoHandle}]
        /\ keep' \in [Thread -> BOOLEAN]
    BY <1>1, ZenonT(60) DEF IInv, TypeOK
  <2> QED BY <1>1, <1>12, <1>13, <1>14, <1>15, <2>1, <2>2, <2>3, <2>4, ZenonT(60)
          DEF IInv, TypeOK
<1>20. Control'
  BY Zenon, <1>1, <1>6, <1>15 DEF IInv, TypeOK, Control, AfterUnlock
<1>21. TableKeys'
  <2> SUFFICES ASSUME NEW j \in Key, table'[j] # NoHandle
               PROVE  entry'[table'[j]].key = j
    BY ZenonT(60) DEF TableKeys
  <2>1. CASE j = k
    BY <1>1, <1>2, <1>5, <1>7, <1>13, <2>1, ZenonT(60) DEF IInv, TypeOK, k
  <2>2. CASE j # k
    BY <1>1, <1>5, <1>8, <1>13, <2>2, ZenonT(60) DEF IInv, TypeOK, TableKeys
  <2> QED BY <2>1, <2>2, ZenonT(60)
<1>22. FreshEntry'
  BY <1>1, <1>6, ZenonT(60) DEF IInv, TypeOK, FreshEntry
<1>23. EntryStates'
  <2> SUFFICES ASSUME NEW h \in Handle, Settled(h)'
               PROVE  /\ (PinnedInCache(h) \/ Evictable(h) \/ PinnedOutside(h))'
                      /\ entry'[h].refs = pins'[h] + (IF entry'[h].in_cache THEN 1 ELSE 0)
    BY ZenonT(60) DEF EntryStates
  <2>1. CASE h = e
    <3>1. entry'[h] = entry[h]
      BY <1>7, <1>13, <2>1, ZenonT(60)
    <3>2. entry[h].refs = IF keep[t] THEN 2 ELSE 1
      BY <1>3, <2>1, ZenonT(60) DEF InitialRefs
    <3>3. OnLRU(h)' <=> ~keep[t]
      BY <1>3, <1>12, <2>1, ZenonT(60)
    <3> QED BY SMTT(30), <1>2, <1>3, <1>9, <1>14, <2>1, <3>1, <3>2, <3>3
            DEF PinnedInCache, Evictable
  <2>2. CASE h = old /\ h # e
    <3>1. old # NoHandle /\ entry[old].refs # 1
      BY <1>2, <1>10, <1>18, <2>2, ZenonT(60)
    <3>2. /\ entry[old].refs = pins[old] + 1 /\ pins[old] \in Nat
          /\ entry'[old].refs = entry[old].refs - 1
          /\ entry'[h].in_cache = FALSE /\ pins'[h] = pins[h]
      BY <1>7, <1>13, <1>14, <2>2, <3>1, ZenonT(60)
    <3>3. entry'[h].refs >= 1 /\ entry'[h].refs = pins'[h] + 0
      BY <2>2, <3>1, <3>2
    <3>4. ~InTable(h)' /\ ~OnLRU(h)'
      BY <1>9, <1>12, <2>2, ZenonT(60)
    <3> QED BY <3>2, <3>3, <3>4, ZenonT(60) DEF PinnedOutside
  <2>3. CASE h # old /\ h # e
    BY <1>9, <1>12, <1>13, <1>14, <1>18, <2>3, ZenonT(60)
       DEF IInv, EntryStates, PinnedInCache, Evictable, PinnedOutside
  <2> QED BY <2>1, <2>2, <2>3, ZenonT(60)
<1>24. NoDanglingHandle'
  <2>1. last => pins[old] = 0
    BY SMTT(30), <1>7, <1>10
  <2> QED BY SMTT(30), <1>7, <1>9, <1>10, <1>12, <1>14, <1>18, <2>1
          DEF IInv, NoDanglingHandle
<1>25. NoLeak'
  <2>1. old # NoHandle /\ ~last => pins[old] > 0
    BY SMTT(30), <1>7, <1>10
  <2> QED BY ZenonT(30), <1>7, <1>9, <1>14, <1>15, <1>16, <1>17, <2>1
             DEF IInv, NoLeak
<1>26. FreedOnce'
  <2>1. last => entry'[old].refs = 0 /\ entry'[old].in_cache = FALSE
    BY <1>7, <1>10, <1>13
  <2>2. old # NoHandle => ~Doomed(old) /\ Allocated(old)
    BY <1>7, ZenonT(60) DEF Settled
  <2> QED BY <1>10, <1>13, <1>15, <1>17, <2>1, <2>2, ZenonT(60) DEF IInv, FreedOnce
<1>27. \A h \in Handle : h # e /\ h # old => Untouched(h)
  BY <1>9, <1>12, <1>13, <1>14, <1>15, <1>18, ZenonT(60) DEF Untouched
<1>28. \A h \in Handle : h = e =>
         /\ InFlight(h) /\ ~InTable(h) /\ ~OnLRU(h) /\ pins[h] = 0
         /\ Settled(h)' /\ InTable(h)' /\ (OnLRU(h)' <=> ~keep[t])
         /\ pins'[h] = (IF keep[t] THEN 1 ELSE 0)
         /\ entry'[h].charge = entry[h].charge
  <2>1. e # old
    BY <1>2, <1>7, ZenonT(60)
  <2> QED BY <1>3, <1>9, <1>12, <1>13, <1>14, <1>16, <1>18, <2>1, ZenonT(60)
<1>29. \A h \in Handle : h = old =>
         /\ LastRef(h) => Dropped(h)
         /\ ~LastRef(h) => LivesOn(h)
         /\ ~InTable(h)' /\ ~OnLRU(h)' /\ pins'[h] = pins[h]
  <2> SUFFICES ASSUME NEW h \in Handle, h = old
               PROVE  /\ LastRef(h) => Dropped(h)
                      /\ ~LastRef(h) => LivesOn(h)
                      /\ ~InTable(h)' /\ ~OnLRU(h)' /\ pins'[h] = pins[h]
    BY ZenonT(60)
  <2>1. old # NoHandle /\ h # e
    BY <1>7, ZenonT(60)
  <2>2. ~InTable(h)' /\ ~OnLRU(h)' /\ pins'[h] = pins[h]
    BY <1>9, <1>12, <1>14, <2>1, ZenonT(60)
  <2>3. LastRef(h) => Dropped(h)
    <3>1. LastRef(h) => pins[h] = 0
      BY <1>7, <2>1 DEF LastRef
    <3> QED BY <1>7, <1>15, <2>1, <2>2, <3>1, ZenonT(60) DEF Dropped, last
  <2>4. ~LastRef(h) => LivesOn(h)
    BY <1>7, <1>13, <1>18, <2>1, ZenonT(60) DEF LivesOn, last
  <2> QED BY <2>2, <2>3, <2>4, ZenonT(60)
<1>30. Accepted(t, e, old)
  BY <1>27, <1>28, <1>29, ZenonT(60) DEF Accepted
<1>31. IInv'
  BY <1>12, <1>19, <1>20, <1>21, <1>22, <1>23, <1>24, <1>25, <1>26, ZenonT(60)
     DEF IInv
<1> QED BY <1>30, <1>31, ZenonT(60) DEF e, old, k
-----------------------------------------------------------------------------

(* Erase preserves the invariant: an entry only the cache refers to is     *)
(* dropped, a pinned one leaves the cache and lives on outside.            *)
LEMMA EraseInv ==
  ASSUME IInv, NEW t \in Thread, NEW k \in Key, Erase(t, k)
  PROVE  /\ IInv' /\ Only(table[k])
         /\ \A h \in Handle : h = table[k] =>
              /\ entry[h].refs = 1 => Dropped(h)
              /\ entry[h].refs # 1 => LivesOn(h)
              /\ ~InTable(h)' /\ ~OnLRU(h)'
<1> USE ConstAssumption
<1> DEFINE e == table[k]
<1>1. e \in Handle /\ InTable(e)
  BY ZenonT(60) DEF Erase, IInv, TypeOK, InTable
<1>2. Settled(e)
  BY <1>1, ZenonT(60) DEF IInv, NoDanglingHandle
<1>3. /\ entry[e] \in LRUHandle /\ entry[e].in_cache
      /\ entry[e].refs = pins[e] + 1
      /\ OnLRU(e) <=> entry[e].refs = 1
      /\ entry[e].key = k
  BY <1>1, <1>2, SettledFacts, ZenonT(60) DEF IInv, TableKeys
<1>4. pins[e] \in Nat /\ entry[e].refs \in Nat /\ entry[e].charge \in Nat
  BY <1>1, <1>3, FieldTypes, ZenonT(60) DEF IInv, TypeOK
<1>5. /\ pc[t] = "idle" /\ mutex = NoThread
      /\ table' = [table EXCEPT ![k] = NoHandle]
      /\ entry' = [entry EXCEPT ![e] = Uncached(entry[e], 1)]
      /\ usage' = IF entry[e].refs = 1 THEN usage - entry[e].charge ELSE usage
      /\ doomed' = [doomed EXCEPT ![t] = IF entry[e].refs = 1 THEN <<e>> ELSE @]
      /\ pc' = [pc EXCEPT ![t] = IF entry[e].refs = 1 THEN "free" ELSE @]
      /\ UNCHANGED <<capacity, strict, mutex, fresh, keep, pins>>
  BY ZenonT(60) DEF Erase, MayCall, configVars
<1> HIDE DEF e
<1>6. /\ lru' \in Seq(Handle) /\ IsInjective(lru') /\ lruUsage' \in Int
      /\ \A h \in Handle : OnLRU(h)' <=> OnLRU(h) /\ h # e
  <2>1. CASE entry[e].refs = 1
    <3>1. lru' = RemoveFirst(lru, e) /\ lruUsage' = lruUsage - entry[e].charge
      BY <1>3, <2>1, ZenonT(60) DEF Erase, LRU_Remove, e
    <3>2. OnLRU(e) /\ lruUsage' \in Int
      BY SMTT(30), <1>3, <1>4, <2>1, <3>1 DEF IInv, TypeOK
    <3> QED BY <1>1, <3>1, <3>2, RemoveList, ZenonT(60) DEF OnLRU, IInv, TypeOK
  <2>2. CASE entry[e].refs # 1
    <3>1. UNCHANGED <<lru, lruUsage>>
      BY <2>2, ZenonT(60) DEF Erase, e
    <3> QED BY <1>3, <2>2, <3>1, ZenonT(60) DEF OnLRU, IInv, TypeOK
  <2> QED BY <2>1, <2>2, ZenonT(60)
<1>7. \A j \in Key : table[j] = e <=> j = k
  BY <1>1, <1>3, ZenonT(60) DEF IInv, TableKeys, TypeOK, e
<1>8. table' = [j \in Key |-> IF table[j] = e THEN NoHandle ELSE table[j]]
  BY Zenon, <1>5, <1>7 DEF IInv, TypeOK
<1>9. /\ entry' \in [Handle -> LRUHandle \cup {NoEntry}]
      /\ entry'[e] \in LRUHandle
      /\ entry'[e].key = entry[e].key /\ entry'[e].charge = entry[e].charge
      /\ entry'[e].refs = entry[e].refs - 1 /\ entry'[e].in_cache = FALSE
      /\ \A h \in Handle : h # e => entry'[h] = entry[h]
  <2>1. 1 \in Nat /\ entry[e].refs >= 1
    BY <1>3, <1>4
  <2>2. TypeOK
    BY ZenonT(60) DEF IInv
  <2> QED BY Zenon, <1>1, <1>3, <1>5, <2>1, <2>2, HeapUpdate
<1>10. CASE entry[e].refs = 1
  <2>1. DropShared(t, e)
    <3>1. usage' \in Int
      BY <1>4, <1>5 DEF IInv, TypeOK
    <3> QED BY Zenon, <1>2, <1>5, <1>6, <1>8, <3>1 DEF DropShared
  <2>2. DropCounts(t, e)
    <3>1. doomed' = [doomed EXCEPT ![t] = Append(doomed[t], e)]
      BY Zenon, <1>1, <1>5, <1>10, FirstDoomed
    <3>2. pins' = [pins EXCEPT ![e] = 0]
      BY <1>1, <1>3, <1>4, <1>5, <1>10 DEF IInv, TypeOK
    <3>3. pc' = [pc EXCEPT ![t] = IF mutex = t THEN pc[t] ELSE "free"]
      BY Zenon, <1>5, <1>10
    <3>4. entry'[e].refs = 0
      BY <1>9, <1>10
    <3> QED BY Zenon, <1>9, <3>1, <3>2, <3>3, <3>4 DEF DropCounts
  <2>3. ASSUME NEW h \in Handle, h = e
        PROVE  IInv' /\ Only(h) /\ Dropped(h)
    BY <2>1, <2>2, <2>3, DropInv, ZenonT(60)
  <2> QED BY <1>1, <1>10, <2>3, ZenonT(60) DEF e, Dropped
<1>11. CASE entry[e].refs # 1
  <2>1. UNCHANGED <<usage, doomed, pc>> /\ pins[e] > 0
    <3>1. pins[e] > 0
      BY <1>3, <1>4, <1>11
    <3>2. UNCHANGED <<usage, doomed, pc>>
      BY <1>5, <1>11, ZenonT(60) DEF IInv, TypeOK
    <3> QED BY <3>1, <3>2, ZenonT(60)
  <2>2. \A h \in Handle : /\ InTable(h)' <=> InTable(h) /\ h # e
                          /\ InFlight(h)' <=> InFlight(h)
                          /\ Doomed(h)' <=> Doomed(h)
                          /\ Allocated(h)' <=> Allocated(h)
    <3>1. \A h \in Handle : InTable(h)' <=> InTable(h) /\ h # e
      BY <1>8, ZenonT(60) DEF InTable
    <3> QED BY <1>3, <1>5, <1>9, <2>1, <3>1, ZenonT(60)
               DEF InFlight, Doomed, Allocated
  <2>3. \A h \in Handle : Settled(h)' <=> Settled(h)
    BY <2>2, ZenonT(60) DEF Settled
  <2>4. TypeOK' /\ Control'
    BY <1>5, <1>6, <1>9, <2>1, ZenonT(60) DEF IInv, TypeOK, Control
  <2>5. TableKeys'
    BY <1>8, <1>9, ZenonT(60) DEF IInv, TypeOK, TableKeys
  <2>6. FreshEntry'
    <3>1. fresh \in [Thread -> Handle \cup {NoHandle}] /\ FreshEntry
      BY ZenonT(60) DEF IInv, TypeOK
    <3> QED BY SMTT(30), <1>2, <1>5, <1>6, <1>9, <2>2, <3>1
               DEF FreshEntry, Settled, InFlight
  <2>7. EntryStates'
    BY SMTT(30), <1>3, <1>4, <1>5, <1>6, <1>9, <1>11, <2>1, <2>2, <2>3
       DEF IInv, EntryStates, PinnedInCache, Evictable, PinnedOutside
  <2>8. NoDanglingHandle' /\ NoLeak'
    BY <1>5, <1>6, <2>1, <2>2, <2>3, ZenonT(60) DEF IInv, NoDanglingHandle, NoLeak
  <2>9. FreedOnce'
    BY <1>2, <1>9, <2>1, <2>2, ZenonT(60) DEF IInv, FreedOnce, Settled
  <2>10. Only(e)
    BY <1>5, <1>6, <1>9, <2>2, <2>3, ZenonT(60) DEF Only, Untouched
  <2>11. \A h \in Handle : h = e => LivesOn(h) /\ ~InTable(h)' /\ ~OnLRU(h)'
    BY <1>2, <1>6, <1>9, <2>2, <2>3, ZenonT(60) DEF LivesOn
  <2>12. IInv'
    BY <1>6, <2>4, <2>5, <2>6, <2>7, <2>8, <2>9, ZenonT(60) DEF IInv
  <2> QED BY <1>11, <2>10, <2>11, <2>12, ZenonT(60) DEF e
<1> QED BY <1>10, <1>11, ZenonT(60)

(* Freeing an entry outside the mutex preserves the invariant: nothing     *)
(* refers to it.                                                           *)
LEMMA FreeInv ==
  ASSUME IInv, NEW t \in Thread, Free(t)
  PROVE  /\ IInv' /\ Only(Head(doomed[t])) /\ Head(doomed[t]) \in Handle
         /\ \A h \in Handle : h = Head(doomed[t]) =>
              /\ Doomed(h) /\ ~Doomed(h)' /\ ~Settled(h)'
              /\ ~InTable(h) /\ ~OnLRU(h) /\ pins[h] = 0
<1> USE ConstAssumption
<1> DEFINE e == Head(doomed[t])
<1>1. /\ pc[t] = "free" /\ doomed[t] \in Seq(Handle) /\ doomed[t] # <<>>
      /\ IsInjective(doomed[t])
  BY ZenonT(60) DEF Free, IInv, Control, TypeOK, FreedOnce
<1>2. /\ e \in Handle /\ Contains(doomed[t], e)
      /\ Tail(doomed[t]) \in Seq(Handle) /\ IsInjective(Tail(doomed[t]))
      /\ \A h : Contains(Tail(doomed[t]), h) <=> Contains(doomed[t], h) /\ h # e
  BY <1>1, TailList, ZenonT(60)
<1>3. /\ entry' = [entry EXCEPT ![e] = NoEntry]
      /\ doomed' = [doomed EXCEPT ![t] = Tail(doomed[t])]
      /\ pc' = [pc EXCEPT ![t] = AfterUnlock(doomed'[t])]
      /\ UNCHANGED <<table, lru, usage, lruUsage, capacity, strict, mutex, fresh, keep, pins>>
  BY ZenonT(60) DEF Free, shardVars, configVars
<1> HIDE DEF e
<1>4. Doomed(e)
  BY <1>2, ZenonT(60) DEF Doomed
<1>5. ~Settled(e)
  BY <1>4, ZenonT(60) DEF Settled
<1>6. pins[e] = 0 /\ ~InTable(e) /\ ~OnLRU(e)
  BY <1>2, <1>5 DEF IInv, NoDanglingHandle, TypeOK
<1>7. ~InFlight(e)
  BY <1>2, <1>4, ZenonT(60) DEF IInv, FreshEntry, InFlight
<1>8. /\ doomed' \in [Thread -> Seq(Handle)] /\ doomed'[t] = Tail(doomed[t])
      /\ \A u \in Thread : u # t => doomed'[u] = doomed[u]
  BY <1>2, <1>3, ZenonT(60) DEF IInv, TypeOK
<1>9. \A u \in Thread, h \in Handle :
        Contains(doomed'[u], h) <=> Contains(doomed[u], h) /\ h # e
  <2>1. \A u \in Thread : u # t => ~Contains(doomed[u], e)
    BY <1>2, ZenonT(60) DEF IInv, FreedOnce
  <2> QED BY Zenon, <1>2, <1>8, <2>1
<1>10. \A h \in Handle : /\ InTable(h)' <=> InTable(h)
                         /\ OnLRU(h)' <=> OnLRU(h)
                         /\ InFlight(h)' <=> InFlight(h)
                         /\ Doomed(h)' <=> Doomed(h) /\ h # e
  BY <1>3, <1>9, ZenonT(60) DEF InTable, OnLRU, InFlight, Doomed
<1>11. /\ entry' \in [Handle -> LRUHandle \cup {NoEntry}]
       /\ entry'[e] = NoEntry /\ \A h \in Handle : h # e => entry'[h] = entry[h]
  BY <1>2, <1>3, ZenonT(60) DEF IInv, TypeOK
<1>12. \A h \in Handle : Allocated(h)' <=> Allocated(h) /\ h # e
  BY <1>11, ZenonT(60) DEF Allocated
<1>13. \A h \in Handle : Settled(h)' <=> Settled(h)
  BY <1>5, <1>10, <1>12, ZenonT(60) DEF Settled
<1>14. pc' \in [Thread -> {"idle", "insert", "shrink", "free"}]
  BY <1>3, ZenonT(60) DEF IInv, TypeOK, AfterUnlock
<1>15. TypeOK'
  BY <1>3, <1>8, <1>11, <1>14, ZenonT(60) DEF IInv, TypeOK
<1>16. Control'
  BY <1>1, <1>3, <1>8, ZenonT(60) DEF IInv, TypeOK, Control, AfterUnlock
<1>17. TableKeys'
  BY <1>3, <1>6, <1>11, ZenonT(60) DEF IInv, TypeOK, TableKeys, InTable
<1>18. FreshEntry'
  BY <1>3, <1>7, <1>10, <1>11, <1>12 DEF IInv, TypeOK, FreshEntry, InFlight
<1>19. EntryStates'
  BY <1>3, <1>5, <1>10, <1>11, <1>13, ZenonT(60)
     DEF IInv, EntryStates, PinnedInCache, Evictable, PinnedOutside
<1>20. NoDanglingHandle' /\ NoLeak'
  BY <1>3, <1>10, <1>12, <1>13, ZenonT(60) DEF IInv, NoDanglingHandle, NoLeak
<1>21. FreedOnce'
  <2>1. \A u \in Thread : IsInjective(doomed'[u])
    BY Zenon, <1>2, <1>8 DEF IInv, FreedOnce
  <2> QED BY <1>9, <1>10, <1>11, <1>12, <2>1, ZenonT(60) DEF IInv, FreedOnce
<1>22. Only(e)
  BY <1>3, <1>10, <1>11, <1>13, ZenonT(60) DEF Only, Untouched
<1>23. \A h \in Handle : h = e =>
         /\ Doomed(h) /\ ~Doomed(h)' /\ ~Settled(h)'
         /\ ~InTable(h) /\ ~OnLRU(h) /\ pins[h] = 0
  BY <1>4, <1>5, <1>6, <1>10, <1>13, ZenonT(60)
<1>24. IInv'
  BY <1>3, <1>15, <1>16, <1>17, <1>18, <1>19, <1>20, <1>21, ZenonT(60) DEF IInv
<1> QED BY <1>2, <1>22, <1>23, <1>24, ZenonT(60) DEF e

(* The destructor preserves the invariant: with no call in progress and no *)
(* handle out, every entry is in the table and has the cache's reference   *)
(* only, so freeing those leaves nothing allocated.                        *)
LEMMA DestroyInv ==
  ASSUME IInv, Destroy
  PROVE  /\ IInv'
         /\ \A h \in Handle : /\ ~Doomed(h) /\ ~Doomed(h)' /\ ~Settled(h)'
                               /\ ~InTable(h)' /\ ~OnLRU(h)' /\ pins'[h] = 0
<1> USE ConstAssumption
<1>1. /\ \A t \in Thread : pc[t] = "idle"
      /\ \A h \in Handle : pins[h] = 0
      /\ entry' = [h \in Handle |->
                     IF \E k \in Key : table[k] = h /\ entry[h].refs = 1
                       THEN NoEntry ELSE entry[h]]
      /\ table' = [k \in Key |-> NoHandle]
      /\ lru' = <<>> /\ usage' = 0 /\ lruUsage' = 0
      /\ capacity' \in Capacities /\ strict' \in BOOLEAN
      /\ UNCHANGED <<mutex, pc, fresh, keep, doomed, pins>>
  BY ZenonT(60) DEF Destroy, localVars
<1>2. \A t \in Thread : fresh[t] = NoHandle /\ doomed[t] = <<>>
  BY <1>1, ZenonT(60) DEF IInv, Control
<1>3. \A s : s = <<>> => IsInjective(s) /\ \A y : ~Contains(s, y)
  BY EmptyList, ZenonT(60)
<1>4. \A h \in Handle : ~InFlight(h) /\ ~InFlight(h)' /\ ~Doomed(h) /\ ~Doomed(h)'
  BY <1>1, <1>2, <1>3, ZenonT(60) DEF InFlight, Doomed
<1>5. \A h \in Handle : ~InTable(h)' /\ ~OnLRU(h)'
  BY <1>1, <1>3, ZenonT(60) DEF InTable, OnLRU
<1>6. \A h \in Handle : ~Allocated(h)'
  <2> SUFFICES ASSUME NEW h \in Handle, Allocated(h) PROVE entry'[h] = NoEntry
    BY <1>1, ZenonT(60) DEF Allocated
  <2>1. ~(0 > 0)
    OBVIOUS
  <2>2. Settled(h) /\ InTable(h)
    BY <1>1, <1>4, <2>1, ZenonT(60) DEF Settled, IInv, NoLeak
  <2>3. entry[h].refs = 1
    <3>1. /\ entry[h].refs = pins[h] + (IF entry[h].in_cache THEN 1 ELSE 0)
          /\ InTable(h) <=> entry[h].in_cache
      BY <2>2, SettledFacts, ZenonT(60)
    <3>2. pins[h] = 0
      BY ZenonT(60), <1>1
    <3> QED BY <2>2, <3>1, <3>2
  <2> QED BY <1>1, <2>2, <2>3, ZenonT(60) DEF InTable
<1>7. \A h \in Handle : entry'[h] = NoEntry
  BY <1>6, ZenonT(60) DEF Allocated
<1>8. TypeOK'
  <2>1. entry' \in [Handle -> LRUHandle \cup {NoEntry}]
    BY <1>1, <1>7, ZenonT(60)
  <2>2. <<>> \in Seq(Handle) /\ 0 \in Int
    OBVIOUS
  <2> QED BY <1>1, <2>1, <2>2, ZenonT(60) DEF IInv, TypeOK
<1>9. Control' /\ TableKeys' /\ FreshEntry'
  BY <1>1, <1>2, ZenonT(60) DEF IInv, Control, TableKeys, FreshEntry
<1>10. EntryStates' /\ NoDanglingHandle' /\ NoLeak'
  <2>1. ~(0 > 0)
    OBVIOUS
  <2> QED BY <1>1, <1>5, <1>6, <2>1, ZenonT(60)
          DEF EntryStates, NoDanglingHandle, NoLeak, Settled
<1>11. FreedOnce' /\ IsInjective(lru')
  BY <1>1, <1>3, <1>4, ZenonT(60) DEF IInv, FreedOnce
<1>12. \A h \in Handle : /\ ~Doomed(h) /\ ~Doomed(h)' /\ ~Settled(h)'
                         /\ ~InTable(h)' /\ ~OnLRU(h)' /\ pins'[h] = 0
  BY <1>1, <1>4, <1>5, <1>6, ZenonT(60) DEF Settled
<1> QED BY <1>8, <1>9, <1>10, <1>11, <1>12, ZenonT(60) DEF IInv

-----------------------------------------------------------------------------

(* Every step of the shard preserves the inductive invariant. *)
LEMMA NextInv == IInv /\ [Next]_vars => IInv'
<1> SUFFICES ASSUME IInv, [Next]_vars PROVE IInv'
  BY ZenonT(60)
<1>1. CASE UNCHANGED vars
  <2>1. UNCHANGED <<entry, table, lru, usage, lruUsage, capacity, strict, mutex,
                    pc, fresh, keep, doomed, pins>>
    BY <1>1, ZenonT(60) DEF vars, shardVars, configVars, localVars
  <2>2. TypeOK' /\ Control'
    BY <2>1, ZenonT(60) DEF IInv, TypeOK, Control
  <2> QED BY <2>1, <2>2, FrameInv, ZenonT(60)
<1>2. CASE Destroy
  BY <1>2, DestroyInv, ZenonT(60)
<1>3. ASSUME NEW t \in Thread, Continue(t) PROVE IInv'
  BY <1>3, EvictInv, InsertRejectInv, InsertAcceptInv, SetCapacityInv, FreeInv,
     ZenonT(60)
     DEF Continue
<1>4. ASSUME NEW t \in Thread, Call(t) PROVE IInv'
  <2>1. ASSUME NEW k \in Key, NEW c \in Charges, NEW w \in BOOLEAN,
               InsertBegin(t, k, c, w)
        PROVE  IInv'
    BY <2>1, InsertBeginInv, ZenonT(60)
  <2>2. CASE \E c \in Capacities : SetCapacityBegin(t, c)
    BY <2>2, SetCapacityInv, ZenonT(60)
  <2>3. ASSUME NEW b \in BOOLEAN, SetStrictCapacityLimit(t, b) PROVE IInv'
    BY <2>3, SetStrictInv, ZenonT(60)
  <2>4. ASSUME NEW k \in Key, Lookup(t, k) \/ Erase(t, k) PROVE IInv'
    BY <2>4, LookupInv, EraseInv, ZenonT(60)
  <2>5. ASSUME NEW e \in Handle, Release(t, e) PROVE IInv'
    BY <2>5, ReleaseDropInv, ReleaseKeepInv, ZenonT(60) DEF Release
  <2> QED BY <1>4, <2>1, <2>2, <2>3, <2>4, <2>5, ZenonT(60) DEF Call
<1> QED BY <1>1, <1>2, <1>3, <1>4, ZenonT(60) DEF Next

(* The inductive invariant holds throughout. *)
THEOREM Invariance == Spec => []IInv
  BY InitInv, NextInv, PTL DEF Spec

(* No operation assigns a value outside its type; in particular the        *)
(* unsigned reference count never drops below zero.                        *)
THEOREM TypeCorrect == Spec => []TypeOK
<1>1. IInv => TypeOK
  BY ZenonT(60) DEF IInv
<1> QED BY <1>1, Invariance, PTL

(* Every entry is in one of the three states of the comment above          *)
(* LRUHandle, with the reference count that goes with it, whatever the     *)
(* threads insert, look up, release, erase and evict.                      *)
THEOREM EntryStatesHold == Spec => []EntryStates
<1>1. IInv => EntryStates
  BY ZenonT(60) DEF IInv
<1> QED BY <1>1, Invariance, PTL

(* No handle of a client, table slot or list link ever leads to an entry   *)
(* that was freed or is about to be: freeing outside the mutex is safe.    *)
THEOREM HandlesStayValid == Spec => []NoDanglingHandle
<1>1. IInv => NoDanglingHandle
  BY ZenonT(60) DEF IInv
<1> QED BY <1>1, Invariance, PTL

(* No entry is freed twice, by one thread or by two, and the assertion of  *)
(* LRUHandle::Free never fails.                                            *)
THEOREM NoDoubleFree == Spec => []FreedOnce
<1>1. IInv => FreedOnce
  BY ZenonT(60) DEF IInv
<1> QED BY <1>1, Invariance, PTL

(* No entry is lost: the destructor finds what it has to free.             *)
THEOREM NothingLeaks == Spec => []NoLeak
<1>1. IInv => NoLeak
  BY ZenonT(60) DEF IInv
<1> QED BY <1>1, Invariance, PTL

-----------------------------------------------------------------------------
(* The shard implements the contract                                       *)

(* What the contract sees of an entry. *)
StateFacts ==
  \A h \in Handle :
    /\ Settled(h) => States[h] = "live"
    /\ Doomed(h) => States[h] = "dying"
    /\ ~Settled(h) /\ ~Doomed(h) => States[h] = "none"

(* In every state of the shard the contract sees the settled entries as    *)
(* live and the entries whose freeing is due as dying.                     *)
LEMMA StatesOf == IInv => StateFacts
<1> SUFFICES ASSUME IInv, NEW h \in Handle
             PROVE  /\ Settled(h) => States[h] = "live"
                    /\ Doomed(h) => States[h] = "dying"
                    /\ ~Settled(h) /\ ~Doomed(h) => States[h] = "none"
  BY ZenonT(60) DEF StateFacts
<1>1. Doomed(h) => Allocated(h) /\ ~InFlight(h)
  BY ConstAssumption, ZenonT(60) DEF IInv, FreedOnce, FreshEntry, InFlight
<1> QED BY <1>1, ZenonT(60) DEF States, ContractState, Settled

(* The same of the state after a step. *)
LEMMA StatesOfNext == IInv' => StateFacts'
  BY StatesOf, PTL

(* A step that concerns one entry changes the state of that entry only. *)
LEMMA StateOne ==
  ASSUME IInv, IInv', NEW e \in Handle, Only(e), NEW s, States'[e] = s
  PROVE  States' = [States EXCEPT ![e] = s]
<1>1. StateFacts /\ StateFacts'
  BY StatesOf, StatesOfNext, ZenonT(60)
<1>2. \A h \in Handle : h # e => States'[h] = States[h]
  BY <1>1 DEF Only, Untouched, StateFacts
<1>3. States = [h \in Handle |-> States[h]] /\ States' = [h \in Handle |-> States'[h]]
  BY ZenonT(60) DEF States
<1> QED BY <1>2, <1>3, ZenonT(60)

(* A step that settles, unsettles, dooms or frees no entry is a stutter to *)
(* the contract as far as the states of the entries go.                    *)
LEMMA StateFrame ==
  ASSUME IInv, IInv', \A h \in Handle : Untouched(h)
  PROVE  States' = States
<1>1. StateFacts /\ StateFacts'
  BY StatesOf, StatesOfNext, ZenonT(60)
<1>2. \A h \in Handle : States'[h] = States[h]
  BY <1>1 DEF Untouched, StateFacts
<1>3. States = [h \in Handle |-> States[h]] /\ States' = [h \in Handle |-> States'[h]]
  BY ZenonT(60) DEF States
<1> QED BY <1>2, <1>3, ZenonT(60)

(* An entry leaves the table with nobody holding it: the cache drops it.   *)
LEMMA DropStep ==
  ASSUME IInv, IInv', NEW k \in Key, NEW e \in Handle, e = table[k], Only(e),
         Dropped(e), table' = [table EXCEPT ![k] = NoHandle], pins' = pins
  PROVE  ContractOf!ContractNext
<1>1. States' = [States EXCEPT ![e] = "dying"]
  <2>1. States'[e] = "dying"
    BY StatesOfNext, ZenonT(60) DEF StateFacts, Dropped
  <2> QED BY <2>1, StateOne, ZenonT(60)
<1>2. pins[e] = 0 /\ ~(pins[e] > 0)
  BY DEF Dropped
<1>3. ContractOf!CDrop(k)
  BY <1>1, <1>2, ConstAssumption, ZenonT(60) DEF ContractOf!CDrop, ContractOf!Retire
<1> QED BY <1>3, ZenonT(60) DEF ContractOf!ContractNext

(* An iteration of EvictFromLRU drops the entry at the head of the list. *)
LEMMA EvictStep ==
  ASSUME IInv, NEW t \in Thread, EvictFromLRU(t)
  PROVE  ContractOf!ContractNext
<1>1. PICK e \in Handle : e = Head(lru) /\ OnLRU(e)
  <2>1. lru \in Seq(Handle) /\ lru # <<>>
    BY ZenonT(60) DEF IInv, TypeOK, EvictFromLRU, MustEvict
  <2> QED BY <2>1 DEF OnLRU, Contains
<1>2. IInv' /\ Only(e) /\ Dropped(e)
  BY <1>1, EvictInv, ZenonT(60)
<1>3. Settled(e)
  BY <1>2, ZenonT(60) DEF Dropped
<1>4. table[entry[e].key] = e /\ entry[e].key \in Key
  BY <1>1, <1>3, SettledFacts, FieldTypes, ZenonT(60)
<1>5. PICK k \in Key : k = entry[e].key
  BY <1>4, ZenonT(60)
<1>6. table' = [table EXCEPT ![k] = NoHandle] /\ pins' = pins
  BY <1>1, <1>5, ZenonT(60) DEF EvictFromLRU
<1> QED BY <1>2, <1>4, <1>5, <1>6, DropStep, ZenonT(60)

(* Erase drops the entry of its key, which lives on while it is held. *)
LEMMA EraseStep ==
  ASSUME IInv, NEW t \in Thread, NEW k \in Key, Erase(t, k)
  PROVE  ContractOf!ContractNext
<1>1. PICK e \in Handle : e = table[k]
  BY ZenonT(60) DEF Erase, IInv, TypeOK
<1>2. /\ IInv' /\ Only(e)
      /\ entry[e].refs = 1 => Dropped(e)
      /\ entry[e].refs # 1 => LivesOn(e)
  BY <1>1, EraseInv, ZenonT(60)
<1>3. table' = [table EXCEPT ![k] = NoHandle] /\ pins' = pins
  BY <1>1, ZenonT(60) DEF Erase
<1>4. CASE entry[e].refs = 1
  BY <1>1, <1>2, <1>3, <1>4, DropStep, ZenonT(60)
<1>5. CASE entry[e].refs # 1
  <2>1. States' = [States EXCEPT ![e] = "live"]
    <3>1. States'[e] = "live"
      BY <1>2, <1>5, StatesOfNext, ZenonT(60) DEF StateFacts, LivesOn
    <3> QED BY <1>2, <3>1, StateOne, ZenonT(60)
  <2>2. pins[e] > 0
    <3>1. Settled(e) /\ InTable(e)
      BY <1>1, <1>2, <1>5, ZenonT(60) DEF LivesOn, InTable
    <3>2. pins[e] \in Nat
      BY ZenonT(60) DEF IInv, TypeOK
    <3> QED BY <1>5, <3>1, <3>2, SettledFacts
  <2>3. ContractOf!CDrop(k)
    BY <1>1, <1>3, <2>1, <2>2, ConstAssumption, ZenonT(60)
       DEF ContractOf!CDrop, ContractOf!Retire
  <2> QED BY <2>3, ZenonT(60) DEF ContractOf!ContractNext
<1> QED BY <1>4, <1>5, ZenonT(60)

(* A Lookup that finds an entry hands out a handle to it. *)
LEMMA LookupStep ==
  ASSUME IInv, NEW t \in Thread, NEW k \in Key, Lookup(t, k)
  PROVE  ContractOf!ContractNext
<1>1. PICK e \in Handle : e = table[k]
  BY ZenonT(60) DEF Lookup, IInv, TypeOK
<1>2. IInv' /\ Only(e) /\ LivesOn(e)
  BY <1>1, LookupInv, ZenonT(60)
<1>3. States' = States
  <2>1. States'[e] = "live" /\ States[e] = "live"
    BY <1>2, StatesOf, StatesOfNext, ZenonT(60) DEF StateFacts, LivesOn
  <2>2. States' = [States EXCEPT ![e] = "live"]
    BY <1>2, <2>1, StateOne, ZenonT(60)
  <2> QED BY <2>1, <2>2, ZenonT(60) DEF States
<1>4. table' = table /\ pins' = [pins EXCEPT ![table[k]] = @ + 1]
  BY ZenonT(60) DEF Lookup
<1>5. ContractOf!CLookup(k)
  BY <1>1, <1>3, <1>4, ConstAssumption, ZenonT(60) DEF ContractOf!CLookup
<1> QED BY <1>5, ZenonT(60) DEF ContractOf!ContractNext

(* A Release gives a handle back, and drops the entry or keeps it. *)
LEMMA ReleaseStep ==
  ASSUME IInv, NEW t \in Thread, NEW e \in Handle, Release(t, e)
  PROVE  ContractOf!ContractNext
<1>1. pins[e] > 0 /\ pins' = [pins EXCEPT ![e] = @ - 1]
  BY ZenonT(60)
     DEF Release, ReleaseLast, ReleaseFull, ReleaseToLRU, ReleaseShared, GiveBack
<1>2. Settled(e)
  BY <1>1, ZenonT(60) DEF IInv, NoDanglingHandle
<1>3. pins[e] \in Nat
  BY ZenonT(60) DEF IInv, TypeOK
<1>4. CASE ReleaseLast(t, e) \/ ReleaseFull(t, e)
  <2>1. IInv' /\ Only(e) /\ Dropped(e) /\ pins[e] = 1
    BY <1>4, ReleaseDropInv, ZenonT(60)
  <2>2. States' = [States EXCEPT ![e] = "dying"]
    <3>1. States'[e] = "dying"
      BY <2>1, StatesOfNext, ZenonT(60) DEF StateFacts, Dropped
    <3> QED BY <2>1, <3>1, StateOne, ZenonT(60)
  <2>3. table' = [k \in Key |-> IF table[k] = e THEN NoHandle ELSE table[k]]
    <3>1. \A k \in Key : table[k] = e => k = entry[e].key
      BY ConstAssumption, ZenonT(60) DEF IInv, TableKeys
    <3>2. CASE ReleaseLast(t, e)
      <4>1. table' = table /\ entry[e].refs = 1
        BY <3>2, ZenonT(60) DEF ReleaseLast
      <4>2. ~entry[e].in_cache
        BY <1>2, <2>1, <4>1, SettledFacts
      <4>3. \A k \in Key : table[k] # e
        BY <1>2, <4>2, SettledFacts, ZenonT(60) DEF InTable
      <4>4. table \in [Key -> Handle \cup {NoHandle}]
        BY ZenonT(60) DEF IInv, TypeOK
      <4> QED BY <4>1, <4>3, <4>4, ZenonT(60)
    <3>3. CASE ReleaseFull(t, e)
      <4>1. table' = [table EXCEPT ![entry[e].key] = NoHandle] /\ entry[e].in_cache
        BY <3>3, ZenonT(60) DEF ReleaseFull, OnlyCacheLeft
      <4>2. table[entry[e].key] = e /\ entry[e].key \in Key
        BY <1>2, <4>1, SettledFacts, FieldTypes, ZenonT(60)
      <4>3. table \in [Key -> Handle \cup {NoHandle}]
        BY ZenonT(60) DEF IInv, TypeOK
      <4> QED BY <3>1, <4>1, <4>2, <4>3, ZenonT(60)
    <3> QED BY <1>4, <3>2, <3>3, ZenonT(60)
  <2>4. ContractOf!CRelease(e)
    BY <1>1, <2>1, <2>2, <2>3, ZenonT(60) DEF ContractOf!CRelease
  <2> QED BY <2>4, ZenonT(60) DEF ContractOf!ContractNext
<1>5. CASE ReleaseToLRU(t, e) \/ ReleaseShared(t, e)
  <2>1. IInv' /\ Only(e) /\ LivesOn(e) /\ entry[e].refs > 1
    BY <1>5, ReleaseKeepInv, ZenonT(60)
  <2>2. States' = States
    <3>1. States'[e] = "live" /\ States[e] = "live"
      BY <2>1, StatesOf, StatesOfNext, ZenonT(60) DEF StateFacts, LivesOn
    <3>2. States' = [States EXCEPT ![e] = "live"]
      BY <2>1, <3>1, StateOne, ZenonT(60)
    <3> QED BY <3>1, <3>2, ZenonT(60) DEF States
  <2>3. table' = table
    BY <1>5, ZenonT(60) DEF ReleaseToLRU, ReleaseShared, shardVars
  <2>4. pins[e] > 1 \/ InTable(e)
    BY <1>2, <1>3, <2>1, SettledFacts
  <2>5. ContractOf!CRelease(e)
    BY <1>1, <2>2, <2>3, <2>4, ZenonT(60)
       DEF ContractOf!CRelease, ContractOf!Cached, InTable
  <2> QED BY <2>5, ZenonT(60) DEF ContractOf!ContractNext
<1> QED BY <1>4, <1>5, ZenonT(60) DEF Release

(* An accepted Insert caches its entry and displaces the one cached before.*)
LEMMA AcceptStep ==
  ASSUME IInv, NEW t \in Thread, InsertAccept(t)
  PROVE  ContractOf!ContractNext
<1>1. PICK e \in Handle : e = fresh[t]
  BY ZenonT(60) DEF InsertAccept, IInv, TypeOK, Control
<1>2. entry[e] \in LRUHandle
  BY <1>1, ConstAssumption, ZenonT(60) DEF IInv, TypeOK, FreshEntry, Allocated
<1>3. PICK k \in Key : k = entry[e].key
  BY <1>2, FieldTypes, ZenonT(60)
<1>4. PICK old \in Handle \cup {NoHandle} : old = table[k]
  BY ZenonT(60) DEF IInv, TypeOK
<1>5. IInv' /\ Accepted(t, e, old)
  BY <1>1, <1>3, <1>4, InsertAcceptInv, ZenonT(60)
<1>6. /\ pins[e] = 0 /\ ~Settled(e) /\ ~Doomed(e) /\ ~InTable(e) /\ Settled(e)'
  <2>1. ~Doomed(e)
    BY <1>1, ConstAssumption, ZenonT(60) DEF IInv, FreshEntry
  <2> QED BY <1>5, <2>1, ZenonT(60) DEF Accepted, Settled
<1>7. StateFacts /\ StateFacts'
  BY <1>5, StatesOf, StatesOfNext, ZenonT(60)
<1>8. States[e] = "none" /\ States'[e] = "live"
  BY <1>6, <1>7, ZenonT(60) DEF StateFacts
<1>9. table' = [table EXCEPT ![k] = e]
  BY <1>1, <1>3, ZenonT(60) DEF InsertAccept
<1>10. \E n \in {0, 1} : pins' = [pins EXCEPT ![e] = n]
  <2>1. pins \in [Handle -> Nat]
    BY ZenonT(60) DEF IInv, TypeOK
  <2>2. pins' = [pins EXCEPT ![e] = @ + 1] \/ pins' = pins
    BY <1>1, ZenonT(60) DEF InsertAccept
  <2> QED BY <1>6, <2>1, <2>2
<1>11. \A h \in Handle : h # e /\ h # old => States'[h] = States[h]
  <2>1. \A h \in Handle : h # e /\ h # old => Untouched(h)
    BY <1>5, ZenonT(60) DEF Accepted
  <2> QED BY <1>7, <2>1 DEF Untouched, StateFacts
<1>12. States = [h \in Handle |-> States[h]] /\ States' = [h \in Handle |-> States'[h]]
  BY ZenonT(60) DEF States
<1>13. CASE old = NoHandle
  <2>1. States' = [States EXCEPT ![e] = "live"]
    BY <1>8, <1>11, <1>12, <1>13, ConstAssumption, ZenonT(60)
  <2>2. \E n \in {0, 1} : ContractOf!CInsert(k, e, n)
    BY <1>4, <1>8, <1>9, <1>10, <1>13, <2>1, ZenonT(60) DEF ContractOf!CInsert
  <2> QED BY <2>2, ZenonT(60) DEF ContractOf!ContractNext
<1>14. CASE old # NoHandle
  <2>1. old \in Handle /\ InTable(old) /\ old # e
    BY <1>4, <1>6, <1>14, ZenonT(60) DEF InTable
  <2>2. /\ LastRef(old) => Dropped(old)
        /\ ~LastRef(old) => LivesOn(old)
        /\ pins'[old] = pins[old]
    BY <1>5, <2>1, ZenonT(60) DEF Accepted
  <2>3. PICK s \in {"live", "dying", "none"} :
          ContractOf!Retire(pins[old], s) /\ States'[old] = s
    <3>1. CASE LastRef(old)
      <4>1. States'[old] = "dying" /\ pins[old] = 0
        BY <1>7, <2>1, <2>2, <3>1, ZenonT(60) DEF StateFacts, Dropped
      <4> QED BY <4>1 DEF ContractOf!Retire
    <3>2. CASE ~LastRef(old)
      <4>1. States'[old] = "live" /\ Settled(old)
        BY <1>7, <2>1, <2>2, <3>2, ZenonT(60) DEF StateFacts, LivesOn
      <4>2. pins[old] \in Nat
        BY <2>1, ZenonT(60) DEF IInv, TypeOK
      <4>3. pins[old] > 0
        BY <1>14, <2>1, <3>2, <4>1, <4>2, SettledFacts DEF LastRef
      <4> QED BY <4>1, <4>3, ZenonT(60) DEF ContractOf!Retire
    <3> QED BY <3>1, <3>2, ZenonT(60)
  <2>4. States' = [States EXCEPT ![e] = "live", ![old] = s]
    BY <1>8, <1>11, <1>12, <2>1, <2>3, ZenonT(60)
  <2>5. \E n \in {0, 1} : ContractOf!CInsert(k, e, n)
    BY <1>4, <1>8, <1>9, <1>10, <1>14, <2>3, <2>4, ZenonT(60) DEF ContractOf!CInsert
  <2> QED BY <2>5, ZenonT(60) DEF ContractOf!ContractNext
<1> QED BY <1>13, <1>14, ZenonT(60)

(* A refused Insert disposes of the value, or leaves it to the caller.     *)
LEMMA RejectStep ==
  ASSUME IInv, NEW t \in Thread, InsertReject(t)
  PROVE  ContractOf!ContractNext \/ UNCHANGED <<table, pins, States>>
<1>1. PICK e \in Handle : e = fresh[t]
  BY ZenonT(60) DEF InsertReject, IInv, TypeOK, Control
<1>2. /\ IInv' /\ Only(e) /\ ~Settled(e) /\ ~Settled(e)' /\ (Doomed(e)' <=> ~keep[t])
  BY <1>1, InsertRejectInv, ZenonT(60) DEF Settled
<1>3. ~Doomed(e)
  BY <1>1, ConstAssumption, ZenonT(60) DEF IInv, FreshEntry
<1>4. StateFacts /\ StateFacts'
  BY <1>2, StatesOf, StatesOfNext, ZenonT(60)
<1>5. table' = table /\ pins' = pins
  BY ZenonT(60) DEF InsertReject, shardVars
<1>6. CASE keep[t]
  <2>1. States'[e] = "none" /\ States[e] = "none"
    BY <1>2, <1>3, <1>4, <1>6, ZenonT(60) DEF StateFacts
  <2>2. States' = [States EXCEPT ![e] = "none"]
    BY <1>2, <2>1, StateOne, ZenonT(60)
  <2>3. States' = States
    BY <2>1, <2>2, ZenonT(60) DEF States
  <2> QED BY <1>5, <2>3, ZenonT(60)
<1>7. CASE ~keep[t]
  <2>1. States'[e] = "dying" /\ States[e] = "none"
    BY <1>2, <1>3, <1>4, <1>7, ZenonT(60) DEF StateFacts
  <2>2. States' = [States EXCEPT ![e] = "dying"]
    BY <1>2, <2>1, StateOne, ZenonT(60)
  <2>3. ContractOf!CRefuse(e)
    BY <1>5, <2>1, <2>2, ZenonT(60) DEF ContractOf!CRefuse
  <2> QED BY <2>3, ZenonT(60) DEF ContractOf!ContractNext
<1> QED BY <1>6, <1>7, ZenonT(60)

(* A free outside the mutex is the deletion of a dying entry. *)
LEMMA FreeStep ==
  ASSUME IInv, NEW t \in Thread, Free(t)
  PROVE  ContractOf!ContractNext
<1>1. PICK e \in Handle : e = Head(doomed[t])
  BY FreeInv, ZenonT(60)
<1>2. IInv' /\ Only(e) /\ Doomed(e) /\ ~Doomed(e)' /\ ~Settled(e)'
  BY <1>1, FreeInv, ZenonT(60)
<1>3. StateFacts /\ StateFacts'
  BY <1>2, StatesOf, StatesOfNext, ZenonT(60)
<1>4. States[e] = "dying" /\ States'[e] = "none"
  BY <1>2, <1>3, ZenonT(60) DEF StateFacts
<1>5. States' = [States EXCEPT ![e] = "none"]
  BY <1>2, <1>4, StateOne, ZenonT(60)
<1>6. ContractOf!CDelete(e)
  BY <1>4, <1>5, ZenonT(60) DEF ContractOf!CDelete, Free, shardVars
<1> QED BY <1>6, ZenonT(60) DEF ContractOf!ContractNext

(* The destructor leaves nothing behind. *)
LEMMA DestroyStep ==
  ASSUME IInv, Destroy
  PROVE  ContractOf!ContractNext
<1>1. /\ IInv'
      /\ \A h \in Handle : ~Doomed(h) /\ ~Doomed(h)' /\ ~Settled(h)'
  BY DestroyInv, ZenonT(60)
<1>2. StateFacts /\ StateFacts'
  BY <1>1, StatesOf, StatesOfNext, ZenonT(60)
<1>3. \A h \in Handle : States'[h] = "none" /\ States[h] # "dying"
  BY <1>1, <1>2, ZenonT(60) DEF StateFacts
<1>4. States' = [h \in Handle |-> "none"]
  BY <1>3, ZenonT(60) DEF States
<1>5. ContractOf!CDestroy
  BY <1>3, <1>4, ZenonT(60) DEF ContractOf!CDestroy, Destroy
<1> QED BY <1>5, ZenonT(60) DEF ContractOf!ContractNext

(* Every step of the shard is a step of the contract or leaves what the    *)
(* clients see unchanged.                                                  *)
LEMMA NextContract ==
  ASSUME IInv, [Next]_vars
  PROVE  ContractOf!ContractNext \/ UNCHANGED <<table, pins, States>>
<1>1. CASE UNCHANGED vars
  BY <1>1, ZenonT(60) DEF vars, shardVars, localVars, States, ContractState,
                          Allocated, InFlight, Doomed
<1>2. CASE Destroy
  BY <1>2, DestroyStep, ZenonT(60)
<1>3. ASSUME NEW t \in Thread, Continue(t)
      PROVE  ContractOf!ContractNext \/ UNCHANGED <<table, pins, States>>
  <2>1. CASE SetCapacityEnd(t)
    <3>1. UNCHANGED <<table, pins>>
      BY <2>1, ZenonT(60) DEF SetCapacityEnd, shardVars
    <3>2. IInv' /\ \A h \in Handle : Untouched(h)
      BY <2>1, SetCapacityInv, ZenonT(60)
    <3> QED BY <3>1, <3>2, StateFrame, ZenonT(60)
  <2> QED BY <1>3, <2>1, EvictStep, RejectStep, AcceptStep, FreeStep, ZenonT(60)
          DEF Continue
<1>4. ASSUME NEW t \in Thread, Call(t)
      PROVE  ContractOf!ContractNext \/ UNCHANGED <<table, pins, States>>
  <2>1. ASSUME NEW k \in Key, NEW c \in Charges, NEW w \in BOOLEAN,
               InsertBegin(t, k, c, w)
        PROVE  UNCHANGED <<table, pins, States>>
    <3>1. UNCHANGED <<table, pins>>
      BY <2>1, ZenonT(60) DEF InsertBegin, shardVars
    <3>2. IInv' /\ \A h \in Handle : Untouched(h)
      BY <2>1, InsertBeginInv, ZenonT(60)
    <3> QED BY <3>1, <3>2, StateFrame, ZenonT(60)
  <2>2. ASSUME NEW c \in Capacities, SetCapacityBegin(t, c)
        PROVE  UNCHANGED <<table, pins, States>>
    <3>1. UNCHANGED <<table, pins>>
      BY <2>2, ZenonT(60) DEF SetCapacityBegin, shardVars
    <3>2. IInv' /\ \A h \in Handle : Untouched(h)
      BY <2>2, SetCapacityInv, ZenonT(60)
    <3> QED BY <3>1, <3>2, StateFrame, ZenonT(60)
  <2>3. ASSUME NEW b \in BOOLEAN, SetStrictCapacityLimit(t, b)
        PROVE  UNCHANGED <<table, pins, States>>
    <3>1. UNCHANGED <<table, pins>>
      BY <2>3, ZenonT(60) DEF SetStrictCapacityLimit, shardVars
    <3>2. IInv' /\ \A h \in Handle : Untouched(h)
      BY <2>3, SetStrictInv, ZenonT(60)
    <3> QED BY <3>1, <3>2, StateFrame, ZenonT(60)
  <2> QED BY <1>4, <2>1, <2>2, <2>3, LookupStep, EraseStep, ReleaseStep, ZenonT(60)
          DEF Call
<1> QED BY <1>1, <1>2, <1>3, <1>4, ZenonT(60) DEF Next

(* Whatever the interleaving of the clients, the eviction loops and the    *)
(* frees outside the mutex, a shard implements CacheContract: an entry     *)
(* stays as it is while it is cached or held, and is deleted once, when it *)
(* is neither.                                                             *)
THEOREM ContractKept == Spec => KeepsContract
<1>1. Init => ContractOf!ContractInit
  <2>1. Init => States = [h \in Handle |-> "none"]
    BY ZenonT(60) DEF Init, States, ContractState, Allocated
  <2> QED BY <2>1, ZenonT(60) DEF Init, ContractOf!ContractInit
<1>2. IInv /\ [Next]_vars => [ContractOf!ContractNext]_(ContractOf!contractVars)
  BY NextContract, ZenonT(60) DEF ContractOf!contractVars
<1> QED BY <1>1, <1>2, Invariance, PTL DEF Spec, KeepsContract, ContractOf!Contract

-----------------------------------------------------------------------------
(* The capacity                                                            *)

(* A list with no member is empty, and removing never makes one longer. *)
LEMMA ListLength ==
  ASSUME IInv
  PROVE  /\ lru \in Seq(Handle) /\ Len(lru) \in Nat
         /\ lru = <<>> <=> Len(lru) = 0
         /\ lru = <<>> => \A h : ~OnLRU(h)
         /\ \A h : OnLRU(h) => Len(RemoveFirst(lru, h)) = Len(lru) - 1
<1>1. lru \in Seq(Handle) /\ IsInjective(lru)
  BY ZenonT(60) DEF IInv, TypeOK
<1>2. Len(lru) \in Nat /\ (lru = <<>> <=> Len(lru) = 0)
  BY <1>1
<1>3. lru = <<>> => \A h : ~OnLRU(h)
  BY EmptyList, ZenonT(60) DEF OnLRU
<1>4. \A h : OnLRU(h) => Len(RemoveFirst(lru, h)) = Len(lru) - 1
  BY <1>1, RemoveList, ZenonT(60) DEF OnLRU
<1> QED BY <1>1, <1>2, <1>3, <1>4, ZenonT(60)

(* A step after which the usage is within the capacity, or which neither   *)
(* raises the usage nor lengthens the list, or which ends with at most one *)
(* entry on the list, cannot leave two entries on the list of a full shard.*)
LEMMA CapacityStep ==
  ASSUME IInv, OverCapacity, NEW n \in Nat, NEW u \in Int,
         Len(lru') = n, usage' = u, capacity' \in Nat,
         \/ u <= capacity'
         \/ n <= 1
         \/ mutex' # NoThread
         \/ mutex = NoThread /\ capacity' = capacity /\ u <= usage /\ n <= Len(lru)
  PROVE  OverCapacity'
<1>1. Len(lru) \in Nat /\ usage \in Int /\ capacity \in Nat
  BY ListLength, ConstAssumption, ZenonT(60) DEF IInv, TypeOK
<1> QED BY <1>1 DEF OverCapacity

(* An Insert ends with the usage within the capacity, unless eviction had  *)
(* emptied the list: then at most its own entry is on it.                  *)
LEMMA InsertCapacity ==
  ASSUME IInv, OverCapacity, NEW t \in Thread, InsertAccept(t) \/ InsertReject(t)
  PROVE  OverCapacity'
<1> USE ConstAssumption
<1> DEFINE e == fresh[t]
<1>1. e \in Handle /\ Incoming(t) = entry[e].charge /\ UNCHANGED capacity
  BY ZenonT(30) DEF InsertAccept, InsertReject, InsertReturn, configVars, Incoming,
         IInv, TypeOK, Control
<1>2. entry[e].charge \in Nat /\ entry[e] \in LRUHandle
  BY <1>1, FieldTypes, ZenonT(60) DEF IInv, TypeOK, FreshEntry, Allocated
<1>3. usage \in Int /\ capacity \in Nat
  BY ZenonT(60) DEF IInv, TypeOK
<1>4. usage + entry[e].charge <= capacity \/ lru = <<>>
  <2>1. ~MustEvict(t)
    BY ZenonT(30) DEF InsertAccept, InsertReject
  <2> HIDE DEF e
  <2> QED BY SMTT(30), <1>1, <1>2, <1>3, <2>1 DEF MustEvict
<1>5. CASE InsertReject(t)
  <2>1. UNCHANGED <<usage, lru>>
    BY <1>5, ZenonT(60) DEF InsertReject, shardVars
  <2>2. usage <= capacity \/ Len(lru) <= 1
    BY SMTT(30), <1>2, <1>3, <1>4
  <2> QED BY <1>1, <1>3, <2>1, <2>2, ListLength, CapacityStep, ZenonT(60)
<1>6. CASE InsertAccept(t)
  <2> DEFINE old  == table[entry[e].key]
             gone == IF LastRef(old) THEN entry[old].charge ELSE 0
             rest == IF LastRef(old) THEN RemoveFirst(lru, old) ELSE lru
  <2>1. /\ usage' = usage + entry[e].charge - gone
        /\ lru' = rest \/ lru' = Append(rest, e)
    BY ZenonT(30), <1>6 DEF InsertAccept
  <2>2. LastRef(old) => OnLRU(old) /\ entry[old].charge \in Nat
    <3> SUFFICES ASSUME LastRef(old) PROVE OnLRU(old) /\ entry[old].charge \in Nat
      BY ZenonT(30)
    <3>1. old \in Handle /\ InTable(old) /\ entry[old].refs = 1
      BY <1>2, FieldTypes, ZenonT(60) DEF IInv, TypeOK, LastRef, InTable
    <3>2. Settled(old)
      BY <3>1, ZenonT(60) DEF IInv, NoDanglingHandle
    <3> HIDE DEF old
    <3> QED BY <3>1, <3>2, SettledFacts, FieldTypes, ZenonT(60)
  <2>3. gone \in Nat
    BY <2>2, ZenonT(60)
  <2> HIDE DEF old, gone
  <2>4. usage' \in Int /\ lru' \in Seq(Handle)
    <3>1. usage' \in Int
      BY <1>2, <1>3, <2>1, <2>3
    <3>2. IInv'
      BY <1>6, InsertAcceptInv, ZenonT(60)
    <3> QED BY <3>1, <3>2, ZenonT(60) DEF IInv, TypeOK
  <2>5. CASE usage + entry[e].charge <= capacity
    <3>1. usage' <= capacity'
      BY SMTT(30), <1>1, <1>2, <1>3, <2>1, <2>3, <2>5
    <3> QED BY SMTT(30), <1>1, <1>3, <2>4, <3>1, CapacityStep
  <2>6. CASE lru = <<>>
    <3>1. rest = <<>>
      BY <2>2, <2>6, ListLength, ZenonT(60) DEF old
    <3>2. Len(lru') \in Nat /\ Len(lru') <= 1
      BY <2>1, <3>1
    <3> QED BY <1>1, <1>3, <2>4, <3>2, CapacityStep, ZenonT(60)
  <2> QED BY <1>4, <2>5, <2>6, ZenonT(60)
<1> QED BY <1>5, <1>6, ZenonT(60)

(* Every step preserves the capacity invariant. *)
LEMMA NextCapacity == IInv /\ IInv' /\ OverCapacity /\ [Next]_vars => OverCapacity'
<1> SUFFICES ASSUME IInv, IInv', OverCapacity, [Next]_vars PROVE OverCapacity'
  BY ZenonT(60)
<1> USE ConstAssumption
<1>1. /\ Len(lru) \in Nat /\ Len(lru') \in Nat /\ usage \in Int /\ usage' \in Int
      /\ capacity \in Nat /\ capacity' \in Nat
  <2>1. usage \in Int /\ capacity \in Nat /\ usage' \in Int /\ capacity' \in Nat
    BY ZenonT(60) DEF IInv, TypeOK
  <2>2. lru \in Seq(Handle) /\ lru' \in Seq(Handle)
    BY ZenonT(60) DEF IInv, TypeOK
  <2> QED BY SMTT(30), <2>1, <2>2
<1>2. CASE UNCHANGED vars
  BY <1>2, ZenonT(60) DEF vars, shardVars, configVars, OverCapacity
<1>3. CASE Destroy
  <2>1. usage' <= capacity'
    BY <1>1, <1>3 DEF Destroy
  <2> QED BY <1>1, <2>1, CapacityStep, ZenonT(60)
<1>4. ASSUME NEW t \in Thread, Continue(t) PROVE OverCapacity'
  <2>1. CASE EvictFromLRU(t)
    <3>1. mutex' # NoThread
      BY <2>1, ZenonT(60) DEF EvictFromLRU
    <3> QED BY <1>1, <3>1, CapacityStep, ZenonT(60)
  <2>2. CASE InsertReject(t) \/ InsertAccept(t)
    BY <2>2, InsertCapacity, ZenonT(60)
  <2>3. CASE SetCapacityEnd(t)
    <3>1. Incoming(t) = 0 /\ ~MustEvict(t) /\ UNCHANGED <<usage, capacity, lru>>
      BY <2>3, ZenonT(60) DEF SetCapacityEnd, Incoming, shardVars, configVars
    <3>2. usage' <= capacity' \/ Len(lru') <= 1
      BY <1>1, <3>1, ListLength DEF MustEvict
    <3> QED BY <1>1, <3>2, CapacityStep, ZenonT(60)
  <2>4. CASE Free(t)
    BY <2>4, ZenonT(60) DEF Free, OverCapacity, shardVars, configVars
  <2> QED BY <1>4, <2>1, <2>2, <2>3, <2>4, ZenonT(60) DEF Continue
<1>5. ASSUME NEW t \in Thread, Call(t) PROVE OverCapacity'
  <2>1. ASSUME NEW k \in Key, NEW c \in Charges, NEW w \in BOOLEAN,
               InsertBegin(t, k, c, w)
        PROVE  mutex' # NoThread
    BY <2>1, ZenonT(60) DEF InsertBegin
  <2>2. ASSUME NEW c \in Capacities, SetCapacityBegin(t, c)
        PROVE  mutex' # NoThread
    BY <2>2, ZenonT(60) DEF SetCapacityBegin
  <2>3. ASSUME NEW b \in BOOLEAN, SetStrictCapacityLimit(t, b)
        PROVE  OverCapacity'
    BY <2>3, ZenonT(60) DEF SetStrictCapacityLimit, OverCapacity, shardVars
  <2>4. ASSUME NEW k \in Key, Lookup(t, k) \/ Erase(t, k)
        PROVE  /\ mutex = NoThread /\ capacity' = capacity
               /\ usage' <= usage /\ Len(lru') <= Len(lru)
    <3> DEFINE e == table[k]
    <3>1. e \in Handle /\ InTable(e)
      BY <2>4, ZenonT(60) DEF Lookup, Erase, IInv, TypeOK, InTable
    <3>2. Settled(e)
      BY <3>1, ZenonT(60) DEF IInv, NoDanglingHandle
    <3>3. /\ entry[e].charge \in Nat
          /\ entry[e].in_cache /\ entry[e].refs = 1 => OnLRU(e)
      <4> HIDE DEF e
      <4> QED BY <3>1, <3>2, SettledFacts, FieldTypes, ZenonT(60)
    <3>4. /\ mutex = NoThread /\ capacity' = capacity
          /\ usage' = usage \/ usage' = usage - entry[e].charge
          /\ \/ lru' = lru
             \/ lru' = RemoveFirst(lru, e) /\ entry[e].refs = 1
      BY <2>4, ZenonT(60) DEF Lookup, Erase, MayCall, Unlist, LRU_Remove, configVars
    <3>5. entry[e].in_cache
      <4> HIDE DEF e
      <4> QED BY <3>1, <3>2, SettledFacts, ZenonT(60)
    <3> HIDE DEF e
    <3>6. Len(lru') <= Len(lru)
      BY SMTT(30), <1>1, <3>3, <3>4, <3>5, ListLength
    <3> QED BY SMTT(30), <1>1, <3>3, <3>4, <3>6
  <2>5. ASSUME NEW e \in Handle, Release(t, e)
        PROVE  \/ usage' <= capacity'
               \/ /\ mutex = NoThread /\ capacity' = capacity
                  /\ usage' <= usage /\ Len(lru') <= Len(lru)
    <3>1. pins[e] > 0 /\ mutex = NoThread /\ capacity' = capacity
      BY <2>5, ZenonT(60)
         DEF Release, ReleaseLast, ReleaseFull, ReleaseToLRU, ReleaseShared,
                  GiveBack, MayCall, configVars
    <3>2. Settled(e)
      BY <3>1, ZenonT(60) DEF IInv, NoDanglingHandle
    <3>3. entry[e].charge \in Nat
      BY <3>2, SettledFacts, FieldTypes, ZenonT(60)
    <3>4. \/ usage <= capacity /\ usage' = usage
          \/ lru' = lru /\ (usage' = usage \/ usage' = usage - entry[e].charge)
      BY Zenon, <2>5
         DEF Release, ReleaseLast, ReleaseFull, ReleaseToLRU, ReleaseShared,
                  shardVars
    <3> QED BY SMTT(30), <1>1, <3>1, <3>3, <3>4
  <2> QED BY <1>1, <1>5, <2>1, <2>2, <2>3, <2>4, <2>5, CapacityStep, ZenonT(60)
             DEF Call
<1> QED BY <1>2, <1>3, <1>4, <1>5, ZenonT(60) DEF Next

(* Whenever mutex_ is free, a shard that exceeds its capacity has at most  *)
(* one entry on its LRU list, for any charges and any changes of the       *)
(* capacity: the eviction loops of Insert and SetCapacity did their work.  *)
THEOREM CapacityRespected == Spec => []OverCapacity
<1>1. Init => OverCapacity
  <2> SUFFICES ASSUME Init PROVE usage <= capacity /\ usage \in Int /\ capacity \in Nat
    BY DEF OverCapacity
  <2> QED BY ConstAssumption DEF Init
<1> QED BY <1>1, Invariance, NextCapacity, PTL DEF Spec

-----------------------------------------------------------------------------
(* The usage counters are exact                                            *)

UseWeight  == [h \in Handle |-> IF Settled(h) THEN entry[h].charge ELSE 0]
ListWeight == [h \in Handle |-> IF OnLRU(h) THEN entry[h].charge ELSE 0]

(* The entries that are charged are the settled ones, so both sums may be  *)
(* taken over all entries.                                                 *)
WeightFacts ==
  /\ \A h \in Handle : UseWeight[h] \in Nat /\ ListWeight[h] \in Nat
  /\ ChargeSum(Used) = SumFunctionOnSet(UseWeight, Handle)
  /\ ChargeSum(Range(lru)) = SumFunctionOnSet(ListWeight, Handle)

(* Both sums are sums of weights: usage_ covers the settled entries and    *)
(* lru_usage_ those on the list.                                           *)
LEMMA Weights == IInv => WeightFacts
<1> SUFFICES ASSUME IInv PROVE WeightFacts
  BY ZenonT(60)
<1>1. \A h \in Handle : OnLRU(h) => Settled(h)
  BY ZenonT(60) DEF IInv, NoDanglingHandle
<1>2. \A h \in Handle : Settled(h) => entry[h].charge \in Nat
  BY SettledFacts, FieldTypes, ZenonT(60)
<1>3. \A h \in Handle : h \in Used <=> Settled(h)
  BY ZenonT(60) DEF IInv, NoDanglingHandle, NoLeak, Settled, Used
<1>4. Range(lru) \subseteq Handle /\ \A h \in Handle : h \in Range(lru) <=> OnLRU(h)
  <2>1. lru \in Seq(Handle)
    BY ZenonT(60) DEF IInv, TypeOK
  <2> QED BY <2>1 DEF OnLRU, Range, Contains
<1>5. \A h \in Handle : UseWeight[h] \in Nat /\ ListWeight[h] \in Nat
  BY <1>1, <1>2, ZenonT(60) DEF UseWeight, ListWeight
<1>6. Used \subseteq Handle
  BY ZenonT(60) DEF Used
<1>7. /\ \A h \in Used : Charge[h] \in Int /\ UseWeight[h] = Charge[h]
      /\ \A h \in Handle \ Used : UseWeight[h] = 0
  BY SMTT(30), <1>2, <1>3, <1>6 DEF UseWeight, Charge
<1>8. /\ \A h \in Range(lru) : Charge[h] \in Int /\ ListWeight[h] = Charge[h]
      /\ \A h \in Handle \ Range(lru) : ListWeight[h] = 0
  BY <1>1, <1>2, <1>4 DEF ListWeight, Charge
<1>9. Finite(Handle)
  BY HandleAssumption, ZenonT(60)
<1>10. SumFunctionOnSet(Charge, Used) = SumFunctionOnSet(UseWeight, Handle)
  BY SMTT(30), <1>6, <1>7, <1>9, TotalSupport
<1>11. SumFunctionOnSet(Charge, Range(lru)) = SumFunctionOnSet(ListWeight, Handle)
  BY <1>4, <1>8, <1>9, TotalSupport
<1> QED BY <1>5, <1>10, <1>11, ZenonT(60) DEF WeightFacts, ChargeSum

(* The same of the state after a step. *)
LEMMA WeightsNext == IInv' => WeightFacts'
  BY Weights, PTL

(* The weights of an entry that a step leaves alone stay the same. *)
LEMMA SameWeight ==
  ASSUME IInv, IInv', NEW h \in Handle, Untouched(h)
  PROVE  UseWeight'[h] = UseWeight[h] /\ ListWeight'[h] = ListWeight[h]
<1>1. OnLRU(h) => Settled(h)
  BY ZenonT(60) DEF IInv, NoDanglingHandle
<1> QED BY <1>1, ZenonT(60) DEF Untouched, UseWeight, ListWeight

(* A step that concerns no entry and leaves the counters alone. *)
LEMMA UsageFrame ==
  ASSUME IInv, IInv', UsageExact, \A h \in Handle : Untouched(h),
         UNCHANGED <<usage, lruUsage>>
  PROVE  UsageExact'
<1>1. WeightFacts /\ WeightFacts' /\ Finite(Handle)
  BY Weights, WeightsNext, HandleAssumption, ZenonT(60)
<1>2. \A h \in Handle : /\ UseWeight[h] \in Int /\ UseWeight'[h] = UseWeight[h]
                        /\ ListWeight[h] \in Int /\ ListWeight'[h] = ListWeight[h]
  BY <1>1, SameWeight DEF WeightFacts
<1>3. /\ SumFunctionOnSet(UseWeight', Handle) = SumFunctionOnSet(UseWeight, Handle)
      /\ SumFunctionOnSet(ListWeight', Handle) = SumFunctionOnSet(ListWeight, Handle)
  BY <1>1, <1>2, TotalSame, ZenonT(60)
<1> QED BY <1>1, <1>3, ZenonT(60) DEF UsageExact, WeightFacts

(* A step that concerns one entry and counts the change of its weights. *)
LEMMA UsageOne ==
  ASSUME IInv, IInv', UsageExact, NEW e \in Handle, Only(e),
         usage' = usage - UseWeight[e] + UseWeight'[e],
         lruUsage' = lruUsage - ListWeight[e] + ListWeight'[e]
  PROVE  UsageExact'
<1>1. WeightFacts /\ WeightFacts' /\ Finite(Handle)
  BY Weights, WeightsNext, HandleAssumption, ZenonT(60)
<1>2. /\ Agree(UseWeight, UseWeight', Handle \ {e})
      /\ Agree(ListWeight, ListWeight', Handle \ {e})
  BY SameWeight, ZenonT(60) DEF Only, Agree
<1>3. /\ Numbers(UseWeight, Handle) /\ Numbers(UseWeight', Handle)
      /\ Numbers(ListWeight, Handle) /\ Numbers(ListWeight', Handle)
  BY SMTT(30), <1>1 DEF WeightFacts, Numbers
<1>4. SumFunctionOnSet(UseWeight', Handle)
        = SumFunctionOnSet(UseWeight, Handle) - UseWeight[e] + UseWeight'[e]
  BY SMTT(30), <1>1, <1>2, <1>3, ChangeOne
<1>5. SumFunctionOnSet(ListWeight', Handle)
        = SumFunctionOnSet(ListWeight, Handle) - ListWeight[e] + ListWeight'[e]
  BY <1>1, <1>2, <1>3, ChangeOne
<1> QED BY <1>1, <1>4, <1>5, ZenonT(60) DEF UsageExact, WeightFacts

(* A step that concerns two entries. *)
LEMMA UsageTwo ==
  ASSUME IInv, IInv', UsageExact, NEW e \in Handle, NEW f \in Handle, e # f,
         \A h \in Handle : h # e /\ h # f => Untouched(h),
         usage' = usage - UseWeight[e] + UseWeight'[e] - UseWeight[f] + UseWeight'[f],
         lruUsage' = lruUsage - ListWeight[e] + ListWeight'[e]
                              - ListWeight[f] + ListWeight'[f]
  PROVE  UsageExact'
<1>1. WeightFacts /\ WeightFacts' /\ Finite(Handle)
  BY Weights, WeightsNext, HandleAssumption, ZenonT(60)
<1>2. /\ Agree(UseWeight, UseWeight', Handle \ {e, f})
      /\ Agree(ListWeight, ListWeight', Handle \ {e, f})
  BY SameWeight, ZenonT(60) DEF Agree
<1>3. /\ Numbers(UseWeight, Handle) /\ Numbers(UseWeight', Handle)
      /\ Numbers(ListWeight, Handle) /\ Numbers(ListWeight', Handle)
  BY SMTT(30), <1>1 DEF WeightFacts, Numbers
<1>4. SumFunctionOnSet(UseWeight', Handle)
        = SumFunctionOnSet(UseWeight, Handle) - UseWeight[e] + UseWeight'[e]
            - UseWeight[f] + UseWeight'[f]
  BY SMTT(30), <1>1, <1>2, <1>3, ChangeTwo
<1>5. SumFunctionOnSet(ListWeight', Handle)
        = SumFunctionOnSet(ListWeight, Handle) - ListWeight[e] + ListWeight'[e]
            - ListWeight[f] + ListWeight'[f]
  BY <1>1, <1>2, <1>3, ChangeTwo
<1> QED BY <1>1, <1>4, <1>5, ZenonT(60) DEF UsageExact, WeightFacts

(* A shard without settled entries, new or about to be, has used nothing. *)
NothingUsed == (\A h \in Handle : ~Settled(h)) /\ usage = 0 /\ lruUsage = 0

(* Counters at zero are exact in a shard that has used nothing. *)
LEMMA UsageNone == IInv /\ NothingUsed => UsageExact
<1> SUFFICES ASSUME IInv, NothingUsed PROVE UsageExact
  BY ZenonT(60)
<1>1. Used = {} /\ \A h \in Handle : ~OnLRU(h)
  <2>1. \A h \in Handle : ~(pins[h] > 0) /\ ~InTable(h) /\ ~OnLRU(h)
    BY ZenonT(60) DEF IInv, NoDanglingHandle, NothingUsed
  <2> QED BY <2>1, ZenonT(60) DEF Used
<1>2. Range(lru) = {}
  <2>1. lru \in Seq(Handle)
    BY ZenonT(60) DEF IInv, TypeOK
  <2> QED BY <1>1, <2>1 DEF OnLRU, Range, Contains
<1> QED BY <1>1, <1>2, TotalEmpty, ZenonT(60) DEF UsageExact, ChargeSum, NothingUsed

(* The same of the state after a step. *)
LEMMA UsageNoneNext == IInv' /\ NothingUsed' => UsageExact'
  BY UsageNone, PTL

-----------------------------------------------------------------------------

(* A dropped entry, a listed one or not, loses both weights. *)
LEMMA DropUsage ==
  ASSUME IInv, IInv', UsageExact, NEW e \in Handle, Only(e), Dropped(e),
         usage' = usage - entry[e].charge,
         lruUsage' = IF OnLRU(e) THEN lruUsage - entry[e].charge ELSE lruUsage
  PROVE  UsageExact'
<1>1. /\ entry[e].charge \in Nat
      /\ usage \in Int /\ lruUsage \in Int
  <2>1. entry[e].charge \in Nat
    BY SettledFacts, FieldTypes, ZenonT(60) DEF Dropped
  <2>2. usage \in Int /\ lruUsage \in Int
    BY ZenonT(60) DEF IInv, TypeOK
  <2> QED BY <2>1, <2>2, ZenonT(60)
<1>2. /\ UseWeight[e] = entry[e].charge /\ UseWeight'[e] = 0
      /\ ListWeight[e] = IF OnLRU(e) THEN entry[e].charge ELSE 0
      /\ ListWeight'[e] = 0
  <2>1. Settled(e) /\ ~Settled(e)' /\ ~OnLRU(e)'
    BY ZenonT(60) DEF Dropped, Settled
  <2> QED BY <2>1, ZenonT(60) DEF UseWeight, ListWeight
<1>3. /\ usage' = usage - UseWeight[e] + UseWeight'[e]
      /\ lruUsage' = lruUsage - ListWeight[e] + ListWeight'[e]
  BY <1>1, <1>2
<1> QED BY <1>3, UsageOne, ZenonT(60)

(* An entry that lives on keeps its use; only its place on the list may    *)
(* change.                                                                 *)
LEMMA KeepUsage ==
  ASSUME IInv, IInv', UsageExact, NEW e \in Handle, Only(e), LivesOn(e),
         usage' = usage, NEW a \in Nat, NEW b \in Nat,
         a = IF OnLRU(e) THEN entry[e].charge ELSE 0,
         b = IF OnLRU(e)' THEN entry[e].charge ELSE 0,
         lruUsage' = lruUsage - a + b
  PROVE  UsageExact'
<1>1. /\ UseWeight[e] = entry[e].charge /\ UseWeight'[e] = entry[e].charge
      /\ ListWeight[e] = a /\ ListWeight'[e] = b
  BY ZenonT(60) DEF LivesOn, UseWeight, ListWeight
<1>2. entry[e].charge \in Nat
  BY SettledFacts, FieldTypes, ZenonT(60) DEF LivesOn
<1>3. usage \in Int
  BY ZenonT(60) DEF IInv, TypeOK
<1>4. usage' = usage - UseWeight[e] + UseWeight'[e]
  BY <1>1, <1>2, <1>3
<1>5. lruUsage' = lruUsage - ListWeight[e] + ListWeight'[e]
  BY <1>1, ZenonT(60)
<1> QED BY <1>4, <1>5, UsageOne, ZenonT(60)

(* An entry the shard does not know, before and after the step. *)
LEMMA UnknownUsage ==
  ASSUME IInv, IInv', UsageExact, NEW e \in Handle, Only(e),
         ~Settled(e), ~Settled(e)', UNCHANGED <<usage, lruUsage>>
  PROVE  UsageExact'
<1>1. ~OnLRU(e) /\ ~OnLRU(e)'
  BY ZenonT(60) DEF IInv, NoDanglingHandle
<1>2. /\ UseWeight[e] = 0 /\ UseWeight'[e] = 0
      /\ ListWeight[e] = 0 /\ ListWeight'[e] = 0
  BY <1>1, ZenonT(60) DEF UseWeight, ListWeight
<1>3. usage \in Int /\ lruUsage \in Int
  BY ZenonT(60) DEF IInv, TypeOK
<1>4. /\ usage' = usage - UseWeight[e] + UseWeight'[e]
      /\ lruUsage' = lruUsage - ListWeight[e] + ListWeight'[e]
  BY SMTT(30), <1>2, <1>3
<1> QED BY <1>4, UsageOne, ZenonT(60)

(* EvictFromLRU charges back what it evicts. *)
LEMMA EvictUsage ==
  ASSUME IInv, UsageExact, NEW t \in Thread, EvictFromLRU(t)
  PROVE  UsageExact' /\ usage' <= usage
<1>1. PICK e \in Handle : e = Head(lru) /\ OnLRU(e)
  <2>1. lru \in Seq(Handle) /\ lru # <<>>
    BY ZenonT(60) DEF IInv, TypeOK, EvictFromLRU, MustEvict
  <2> QED BY <2>1 DEF OnLRU, Contains
<1>2. IInv' /\ Only(e) /\ Dropped(e)
  BY <1>1, EvictInv, ZenonT(60)
<1>3. usage' = usage - entry[e].charge /\ lruUsage' = lruUsage - entry[e].charge
  BY <1>1, ZenonT(60) DEF EvictFromLRU, LRU_Remove
<1>4. UsageExact'
  BY <1>1, <1>2, <1>3, DropUsage, ZenonT(60)
<1>5. entry[e].charge \in Nat
  BY <1>2, SettledFacts, FieldTypes, ZenonT(60) DEF Dropped
<1>6. usage \in Int
  BY ZenonT(60) DEF IInv, TypeOK
<1> QED BY SMTT(30), <1>3, <1>4, <1>5, <1>6

(* A Lookup takes the charge of an entry it pins off lru_usage_. *)
LEMMA LookupUsage ==
  ASSUME IInv, UsageExact, NEW t \in Thread, NEW k \in Key, Lookup(t, k)
  PROVE  UsageExact' /\ usage' = usage
<1>1. PICK e \in Handle : e = table[k]
  BY ZenonT(60) DEF Lookup, IInv, TypeOK
<1>2. IInv' /\ Only(e) /\ LivesOn(e) /\ ~OnLRU(e)'
  BY <1>1, LookupInv, ZenonT(60)
<1>3. /\ usage' = usage
      /\ entry[e].refs = 1 => lruUsage' = lruUsage - entry[e].charge
      /\ entry[e].refs # 1 => lruUsage' = lruUsage
  BY <1>1, ZenonT(60) DEF Lookup, Unlist, LRU_Remove
<1>4. Settled(e) /\ InTable(e)
  BY <1>1, <1>2, ZenonT(60) DEF LivesOn, InTable
<1>5. entry[e].charge \in Nat /\ (OnLRU(e) <=> entry[e].refs = 1)
  BY <1>4, SettledFacts, FieldTypes, ZenonT(60)
<1>6. lruUsage \in Int
  BY ZenonT(60) DEF IInv, TypeOK
<1> DEFINE a == IF OnLRU(e) THEN entry[e].charge ELSE 0
           b == IF OnLRU(e)' THEN entry[e].charge ELSE 0
<1>7. /\ b = 0 /\ (a = entry[e].charge \/ a = 0)
      /\ lruUsage' = lruUsage - a \/ (a = 0 /\ lruUsage' = lruUsage)
  BY <1>2, <1>3, <1>5, ZenonT(60)
<1> HIDE DEF a, b
<1>8. a \in Nat /\ b \in Nat /\ lruUsage' = lruUsage - a + b
  BY <1>5, <1>6, <1>7
<1> QED BY <1>2, <1>3, <1>8, KeepUsage, ZenonT(60) DEF a, b

(* A Release that keeps the entry may put it back on the list. *)
LEMMA ReleaseKeepUsage ==
  ASSUME IInv, UsageExact, NEW t \in Thread, NEW e \in Handle,
         ReleaseToLRU(t, e) \/ ReleaseShared(t, e)
  PROVE  UsageExact' /\ usage' = usage
<1>1. IInv' /\ Only(e) /\ LivesOn(e) /\ ~OnLRU(e) /\ (OnLRU(e)' <=> ReleaseToLRU(t, e))
  BY ReleaseKeepInv, ZenonT(60)
<1>2. /\ usage' = usage
      /\ ReleaseToLRU(t, e) => lruUsage' = lruUsage + entry[e].charge
      /\ ~ReleaseToLRU(t, e) => lruUsage' = lruUsage
  BY ZenonT(60) DEF ReleaseToLRU, ReleaseShared, LRU_Append, shardVars
<1>3. entry[e].charge \in Nat
  BY <1>1, SettledFacts, FieldTypes, ZenonT(60) DEF LivesOn
<1>4. lruUsage \in Int
  BY ZenonT(60) DEF IInv, TypeOK
<1> DEFINE a == IF OnLRU(e) THEN entry[e].charge ELSE 0
           b == IF OnLRU(e)' THEN entry[e].charge ELSE 0
<1>5. a \in Nat /\ b \in Nat /\ lruUsage' = lruUsage - a + b
  BY SMTT(30), <1>1, <1>2, <1>3, <1>4
<1> HIDE DEF a, b
<1> QED BY <1>1, <1>2, <1>5, KeepUsage, ZenonT(60) DEF a, b

(* A Release that drops the entry charges it back. *)
LEMMA ReleaseDropUsage ==
  ASSUME IInv, UsageExact, NEW t \in Thread, NEW e \in Handle,
         ReleaseLast(t, e) \/ ReleaseFull(t, e)
  PROVE  UsageExact' /\ usage' <= usage
<1>1. IInv' /\ Only(e) /\ Dropped(e) /\ ~OnLRU(e)
  BY ReleaseDropInv, ZenonT(60)
<1>2. usage' = usage - entry[e].charge /\ lruUsage' = lruUsage
  BY ZenonT(60) DEF ReleaseLast, ReleaseFull
<1>3. UsageExact'
  BY <1>1, <1>2, DropUsage, ZenonT(60)
<1>4. entry[e].charge \in Nat
  BY <1>1, SettledFacts, FieldTypes, ZenonT(60) DEF Dropped
<1>5. usage \in Int
  BY ZenonT(60) DEF IInv, TypeOK
<1> QED BY SMTT(30), <1>2, <1>3, <1>4, <1>5

(* Erase charges back an entry it drops; one that is pinned stays charged. *)
LEMMA EraseUsage ==
  ASSUME IInv, UsageExact, NEW t \in Thread, NEW k \in Key, Erase(t, k)
  PROVE  UsageExact' /\ usage' <= usage
<1>1. PICK e \in Handle : e = table[k]
  BY ZenonT(60) DEF Erase, IInv, TypeOK
<1>2. /\ IInv' /\ Only(e) /\ ~OnLRU(e)'
      /\ entry[e].refs = 1 => Dropped(e)
      /\ entry[e].refs # 1 => LivesOn(e)
  BY <1>1, EraseInv, ZenonT(60)
<1>3. Settled(e) /\ InTable(e)
  BY <1>1, <1>2, ZenonT(60) DEF LivesOn, Dropped, InTable
<1>4. /\ entry[e].charge \in Nat /\ entry[e].in_cache
      /\ OnLRU(e) <=> entry[e].refs = 1
  BY <1>3, SettledFacts, FieldTypes, ZenonT(60)
<1>5. usage \in Int /\ lruUsage \in Int
  BY ZenonT(60) DEF IInv, TypeOK
<1>6. CASE entry[e].refs = 1
  <2>1. usage' = usage - entry[e].charge /\ lruUsage' = lruUsage - entry[e].charge
    BY <1>1, <1>4, <1>6, ZenonT(60) DEF Erase, LRU_Remove
  <2>2. UsageExact'
    BY <1>2, <1>4, <1>6, <2>1, DropUsage, ZenonT(60)
  <2> QED BY SMTT(30), <1>4, <1>5, <2>1, <2>2
<1>7. CASE entry[e].refs # 1
  <2>1. usage' = usage /\ lruUsage' = lruUsage
    BY <1>1, <1>7, ZenonT(60) DEF Erase
  <2>2. 0 \in Nat /\ lruUsage' = lruUsage - 0 + 0 /\ usage' <= usage
    BY <1>5, <2>1
  <2>3. /\ 0 = IF OnLRU(e) THEN entry[e].charge ELSE 0
        /\ 0 = IF OnLRU(e)' THEN entry[e].charge ELSE 0
    BY <1>2, <1>4, <1>7, ZenonT(60)
  <2> QED BY <1>2, <1>7, <2>1, <2>2, <2>3, KeepUsage, ZenonT(60)
<1> QED BY <1>6, <1>7, ZenonT(60)

(* An accepted Insert charges its entry and charges back the one it        *)
(* replaces, unless a client still holds that.                             *)
LEMMA AcceptUsage ==
  ASSUME IInv, UsageExact, NEW t \in Thread, InsertAccept(t)
  PROVE  /\ UsageExact'
         /\ \E c \in Nat : c = entry[fresh[t]].charge /\ usage' <= usage + c
<1>1. PICK e \in Handle : e = fresh[t]
  BY ZenonT(60) DEF InsertAccept, IInv, TypeOK, Control
<1>2. entry[e] \in LRUHandle
  BY <1>1, ConstAssumption, ZenonT(60) DEF IInv, TypeOK, FreshEntry, Allocated
<1>3. entry[e].key \in Key /\ entry[e].charge \in Nat
  BY <1>2, FieldTypes, ZenonT(60)
<1>4. PICK old \in Handle \cup {NoHandle} : old = table[entry[e].key]
  BY <1>3, ZenonT(60) DEF IInv, TypeOK
<1>5. IInv' /\ Accepted(t, e, old)
  BY <1>1, <1>4, InsertAcceptInv, ZenonT(60)
<1>6. usage \in Int /\ lruUsage \in Int /\ keep[t] \in BOOLEAN
  BY ZenonT(60) DEF IInv, TypeOK
<1> DEFINE gone == IF LastRef(old) THEN entry[old].charge ELSE 0
<1>7. /\ usage' = usage + entry[e].charge - gone
      /\ keep[t] => lruUsage' = lruUsage - gone
      /\ ~keep[t] => lruUsage' = lruUsage - gone + entry[e].charge
  BY <1>1, <1>4, ZenonT(60) DEF InsertAccept
<1>8. /\ ~Settled(e) /\ ~OnLRU(e) /\ ~InTable(e)
      /\ Settled(e)' /\ (OnLRU(e)' <=> ~keep[t])
      /\ entry'[e].charge = entry[e].charge
  BY <1>5, ZenonT(60) DEF Accepted, Settled
<1>9. /\ UseWeight[e] = 0 /\ UseWeight'[e] = entry[e].charge
      /\ ListWeight[e] = 0
      /\ ListWeight'[e] = IF keep[t] THEN 0 ELSE entry[e].charge
  BY <1>6, <1>8, ZenonT(60) DEF UseWeight, ListWeight
<1>10. CASE old = NoHandle
  <2>1. gone = 0
    BY <1>10, ZenonT(60) DEF LastRef
  <2> HIDE DEF gone
  <2>2. Only(e)
    BY <1>5, <1>10, ConstAssumption, ZenonT(60) DEF Accepted, Only
  <2>3. /\ usage' = usage - UseWeight[e] + UseWeight'[e]
        /\ lruUsage' = lruUsage - ListWeight[e] + ListWeight'[e]
        /\ usage' <= usage + entry[e].charge
    BY SMTT(30), <1>3, <1>6, <1>7, <1>9, <2>1
  <2>4. UsageExact'
    BY <1>5, <2>2, <2>3, UsageOne, ZenonT(60)
  <2> QED BY <1>1, <1>3, <2>3, <2>4, ZenonT(60)
<1>11. CASE old # NoHandle
  <2>1. old \in Handle /\ InTable(old) /\ old # e
    BY <1>3, <1>4, <1>8, <1>11, ZenonT(60) DEF InTable
  <2>2. Settled(old)
    BY <2>1, ZenonT(60) DEF IInv, NoDanglingHandle
  <2>3. entry[old].charge \in Nat /\ (OnLRU(old) <=> LastRef(old))
    BY <1>11, <2>1, <2>2, SettledFacts, FieldTypes, ZenonT(60) DEF LastRef
  <2>4. /\ \A h \in Handle : h # e /\ h # old => Untouched(h)
        /\ LastRef(old) => Dropped(old)
        /\ ~LastRef(old) => LivesOn(old)
        /\ ~OnLRU(old)'
    BY <1>5, <2>1, ZenonT(60) DEF Accepted
  <2>5. /\ UseWeight[old] = entry[old].charge
        /\ ListWeight[old] = gone /\ ListWeight'[old] = 0
    BY <2>1, <2>2, <2>3, <2>4, ZenonT(60) DEF UseWeight, ListWeight
  <2>6. UseWeight'[old] = IF LastRef(old) THEN 0 ELSE entry[old].charge
    BY <2>1, <2>4, ZenonT(60) DEF UseWeight, Dropped, LivesOn, Settled
  <2>7. gone \in Nat /\ UseWeight[old] \in Nat
        /\ UseWeight'[old] = UseWeight[old] - gone
    BY SMTT(30), <2>3, <2>5, <2>6
  <2> HIDE DEF gone
  <2>8. /\ usage' = usage - UseWeight[e] + UseWeight'[e]
                          - UseWeight[old] + UseWeight'[old]
        /\ usage' <= usage + entry[e].charge
    <3>1. /\ usage \in Int /\ entry[e].charge \in Nat
          /\ UseWeight[e] = 0 /\ UseWeight'[e] = entry[e].charge
          /\ usage' = usage + entry[e].charge - gone
      BY <1>3, <1>6, <1>7, <1>9, ZenonT(60)
    <3> QED BY <2>7, <3>1
  <2>9. lruUsage' = lruUsage - ListWeight[e] + ListWeight'[e]
                             - ListWeight[old] + ListWeight'[old]
    <3>1. /\ lruUsage \in Int /\ entry[e].charge \in Nat /\ gone \in Nat
          /\ ListWeight[e] = 0 /\ ListWeight[old] = gone /\ ListWeight'[old] = 0
      BY <1>3, <1>6, <1>9, <2>5, <2>7, ZenonT(60)
    <3>2. \/ ListWeight'[e] = 0 /\ lruUsage' = lruUsage - gone
          \/ /\ ListWeight'[e] = entry[e].charge
             /\ lruUsage' = lruUsage - gone + entry[e].charge
      BY <1>6, <1>7, <1>9, ZenonT(60)
    <3> QED BY <3>1, <3>2
  <2>10. UsageExact'
    BY <1>5, <2>1, <2>4, <2>8, <2>9, UsageTwo, ZenonT(60)
  <2> QED BY <1>1, <1>3, <2>8, <2>10, ZenonT(60)
<1> QED BY <1>10, <1>11, ZenonT(60)

(* Every step keeps the counters exact, and only an accepted Insert raises *)
(* the usage.                                                              *)
LEMMA NextUsage ==
  ASSUME IInv, UsageExact, [Next]_vars
  PROVE  /\ UsageExact'
         /\ \/ usage' <= usage
            \/ Destroy
            \/ \E t \in Thread : InsertAccept(t)
<1>1. usage \in Int
  BY ZenonT(60) DEF IInv, TypeOK
<1>2. ASSUME \A h \in Handle : Untouched(h), UNCHANGED <<usage, lruUsage>>, IInv'
      PROVE  UsageExact' /\ usage' <= usage
  BY <1>1, <1>2, UsageFrame
<1>3. CASE UNCHANGED vars
  <2>1. UNCHANGED <<entry, table, lru, usage, lruUsage, fresh, doomed, pins>>
    BY <1>3, ZenonT(60) DEF vars, shardVars, localVars
  <2>2. \A h \in Handle : Untouched(h)
    BY <2>1, ZenonT(60)
       DEF Untouched, Settled, Allocated, InFlight, Doomed, InTable, OnLRU
  <2>3. IInv'
    BY NextInv, ZenonT(60)
  <2> QED BY <1>2, <2>1, <2>2, <2>3, ZenonT(60)
<1>4. CASE Destroy
  <2>1. IInv' /\ NothingUsed'
    BY <1>4, DestroyInv, ZenonT(60) DEF NothingUsed, Destroy
  <2> QED BY <1>4, <2>1, UsageNoneNext, ZenonT(60)
<1>5. ASSUME NEW t \in Thread, Continue(t)
      PROVE  UsageExact' /\ (usage' <= usage \/ InsertAccept(t))
  <2>1. CASE EvictFromLRU(t)
    BY <2>1, EvictUsage, ZenonT(60)
  <2>2. CASE InsertReject(t)
    <3>1. PICK e \in Handle : e = fresh[t]
      BY <2>2, ZenonT(60) DEF InsertReject, IInv, TypeOK, Control
    <3>2. IInv' /\ Only(e) /\ ~Settled(e) /\ ~Settled(e)'
      BY <2>2, <3>1, InsertRejectInv, ZenonT(60) DEF Settled
    <3>3. UNCHANGED <<usage, lruUsage>>
      BY <2>2, ZenonT(60) DEF InsertReject, shardVars
    <3> QED BY SMTT(30), <1>1, <3>2, <3>3, UnknownUsage
  <2>3. CASE InsertAccept(t)
    BY <2>3, AcceptUsage, ZenonT(60)
  <2>4. CASE SetCapacityEnd(t)
    <3>1. UNCHANGED <<usage, lruUsage>>
      BY <2>4, ZenonT(60) DEF SetCapacityEnd, shardVars
    <3> QED BY <1>2, <2>4, <3>1, SetCapacityInv, ZenonT(60)
  <2>5. CASE Free(t)
    <3>1. PICK e \in Handle : e = Head(doomed[t])
      BY <2>5, FreeInv, ZenonT(60)
    <3>2. IInv' /\ Only(e) /\ ~Settled(e) /\ ~Settled(e)'
      BY <2>5, <3>1, FreeInv, ZenonT(60) DEF Settled
    <3>3. UNCHANGED <<usage, lruUsage>>
      BY <2>5, ZenonT(60) DEF Free, shardVars
    <3> QED BY SMTT(30), <1>1, <3>2, <3>3, UnknownUsage
  <2> QED BY <1>5, <2>1, <2>2, <2>3, <2>4, <2>5, ZenonT(60) DEF Continue
<1>6. ASSUME NEW t \in Thread, Call(t) PROVE UsageExact' /\ usage' <= usage
  <2>1. ASSUME NEW k \in Key, NEW c \in Charges, NEW w \in BOOLEAN,
               InsertBegin(t, k, c, w)
        PROVE  UsageExact' /\ usage' <= usage
    <3>1. UNCHANGED <<usage, lruUsage>>
      BY <2>1, ZenonT(60) DEF InsertBegin, shardVars
    <3> QED BY <1>2, <2>1, <3>1, InsertBeginInv, ZenonT(60)
  <2>2. ASSUME NEW c \in Capacities, SetCapacityBegin(t, c)
        PROVE  UsageExact' /\ usage' <= usage
    <3>1. UNCHANGED <<usage, lruUsage>>
      BY <2>2, ZenonT(60) DEF SetCapacityBegin, shardVars
    <3> QED BY <1>2, <2>2, <3>1, SetCapacityInv, ZenonT(60)
  <2>3. ASSUME NEW b \in BOOLEAN, SetStrictCapacityLimit(t, b)
        PROVE  UsageExact' /\ usage' <= usage
    <3>1. UNCHANGED <<usage, lruUsage>>
      BY <2>3, ZenonT(60) DEF SetStrictCapacityLimit, shardVars
    <3> QED BY <1>2, <2>3, <3>1, SetStrictInv, ZenonT(60)
  <2>4. ASSUME NEW k \in Key, Lookup(t, k) \/ Erase(t, k)
        PROVE  UsageExact' /\ usage' <= usage
    BY SMTT(30), <1>1, <2>4, LookupUsage, EraseUsage
  <2>5. ASSUME NEW e \in Handle, Release(t, e)
        PROVE  UsageExact' /\ usage' <= usage
    BY SMTT(30), <1>1, <2>5, ReleaseDropUsage, ReleaseKeepUsage DEF Release
  <2> QED BY <1>6, <2>1, <2>2, <2>3, <2>4, <2>5, ZenonT(60) DEF Call
<1> QED BY <1>2, <1>3, <1>4, <1>5, <1>6, ZenonT(60) DEF Next

(* usage_ is at every moment the charge of the entries in the table or     *)
(* pinned, and lru_usage_ that of the entries on the list, for any charges *)
(* and any interleaving of Insert, Lookup, Release, Erase and evictions.   *)
THEOREM UsageIsExact == Spec => []UsageExact
<1>1. Init => UsageExact
  <2>1. Init => NothingUsed
    BY ZenonT(60) DEF Init, NothingUsed, Settled, Allocated
  <2> QED BY <2>1, InitInv, UsageNone, ZenonT(60)
<1>2. IInv /\ UsageExact /\ [Next]_vars => UsageExact'
  BY NextUsage, ZenonT(60)
<1> QED BY <1>1, <1>2, Invariance, PTL DEF Spec

(* The size_t counters usage_ and lru_usage_ never wrap. *)
CountersFit == usage \in Nat /\ lruUsage \in Nat

(* Every usage_ -= charge and lru_usage_ -= charge subtracts what was      *)
(* added before: in no reachable state has a counter gone below zero.      *)
THEOREM CountersNeverWrap == Spec => []CountersFit
<1>1. IInv /\ UsageExact => CountersFit
  <2> SUFFICES ASSUME IInv, UsageExact PROVE CountersFit
    BY ZenonT(60)
  <2>1. WeightFacts /\ Finite(Handle)
    BY Weights, HandleAssumption, ZenonT(60)
  <2>2. /\ \A h \in Handle : UseWeight[h] \in Nat
        /\ \A h \in Handle : ListWeight[h] \in Nat
    BY <2>1, ZenonT(60) DEF WeightFacts
  <2>3. /\ SumFunctionOnSet(UseWeight, Handle) \in Nat
        /\ SumFunctionOnSet(ListWeight, Handle) \in Nat
    BY <2>1, <2>2, TotalNat, ZenonT(60)
  <2> QED BY <2>1, <2>3, ZenonT(60) DEF UsageExact, WeightFacts, CountersFit
<1> QED BY <1>1, Invariance, UsageIsExact, PTL

(* Insert refuses under the strict limit exactly when it must: a step that *)
(* raises the usage leaves it within the capacity, because the eviction    *)
(* loop before it stopped with room enough or with an empty list, whose    *)
(* lru_usage_ is zero.                                                     *)
THEOREM StrictLimitKept == Spec => StrictLimit
<1>1. ASSUME IInv, UsageExact, [Next]_vars
      PROVE  [strict /\ strict' /\ usage' > usage => usage' <= capacity']_vars
  <2> SUFFICES ASSUME strict, usage' > usage PROVE usage' <= capacity'
    BY ZenonT(60)
  <2> USE ConstAssumption
  <2>1. usage \in Int /\ lruUsage \in Int /\ capacity \in Nat
    BY <1>1, ZenonT(60) DEF IInv, TypeOK
  <2>2. IInv'
    BY <1>1, NextInv, ZenonT(60)
  <2>3. usage' \in Int /\ capacity' \in Nat
    BY <2>2, ZenonT(60) DEF IInv, TypeOK
  <2>4. CASE Destroy
    BY <2>3, <2>4 DEF Destroy
  <2>5. ASSUME NEW t \in Thread, InsertAccept(t) PROVE usage' <= capacity'
    <3>1. PICK c \in Nat : c = entry[fresh[t]].charge /\ usage' <= usage + c
      BY <1>1, <2>5, AcceptUsage, ZenonT(60)
    <3>2. /\ ~(usage + c > capacity) \/ lru = <<>>
          /\ ~(usage - lruUsage + c > capacity)
          /\ capacity' = capacity
      BY <2>5, <3>1, ZenonT(60)
         DEF InsertAccept, InsertReturn, configVars, MustEvict, Incoming, NoRoom
    <3>3. CASE lru = <<>>
      <4>1. Range(lru) = {}
        BY <3>3 DEF Range
      <4>2. lruUsage = 0
        BY <1>1, <4>1, TotalEmpty, ZenonT(60) DEF UsageExact, ChargeSum
      <4> QED BY SMTT(30), <2>1, <2>3, <3>1, <3>2, <4>2
    <3>4. CASE ~(usage + c > capacity)
      BY SMTT(30), <2>1, <2>3, <3>1, <3>2, <3>4
    <3> QED BY <3>2, <3>3, <3>4, ZenonT(60)
  <2>6. usage' <= usage \/ Destroy \/ \E t \in Thread : InsertAccept(t)
    BY <1>1, NextUsage, ZenonT(60)
  <2>7. ~(usage' <= usage)
    BY <2>1, <2>3
  <2> QED BY <2>4, <2>5, <2>6, <2>7, ZenonT(60)
<1> QED BY <1>1, Invariance, UsageIsExact, PTL DEF Spec, StrictLimit
=============================================================================
