------------------------- MODULE LevelLRUCacheProofs -------------------------
(***************************************************************************)
(* Proofs about a shard of the LevelDB cache, for any number of threads,   *)
(* keys, entries and handles, any charges and any capacity.                *)
(*                                                                         *)
(* The invariant that is preserved by every step says of each entry what   *)
(* RefsExact and NoDanglingHandle say (Sound), and adds who is inside an   *)
(* operation, that the table files an entry under its own key, that the    *)
(* list has no repetition, and that everything Prune has passed on the     *)
(* list is pinned (Swept).                                                 *)
(***************************************************************************)
EXTENDS LevelLRUCache, CacheLemmas

(* A thread inside an operation holds mutex_; only Prune has a cursor. *)
Control ==
  \A t \in Thread :
    /\ mutex = t <=> pc[t] # "idle"
    /\ pc[t] # "prune" => cursor[t] = NoHandle

(* The table files an entry under its own key. *)
TableKeys ==
  \A k \in Key : table[k] # NoHandle => entry[table[k]].key = k

(* The entry at position p of s, or &lru_ when p is past the end. *)
At(s, p) == IF p <= Len(s) THEN s[p] ELSE NoHandle

(* Prune's cursor is at a position before which every entry is pinned. *)
Swept ==
  \A t \in Thread : pc[t] = "prune" =>
    \E p \in 1..(Len(lru) + 1) :
      /\ cursor[t] = At(lru, p)
      /\ \A i \in 1..(p - 1) : pins[lru[i]] > 0

(* The table and the list agree on h, its references are counted, and what *)
(* is not allocated is not referred to.                                    *)
Sound(h) ==
  /\ InTable(h) <=> OnLRU(h)
  /\ IF Allocated(h)
       THEN /\ entry[h].refs = pins[h] + (IF InTable(h) THEN 1 ELSE 0)
            /\ entry[h].refs > 0
       ELSE pins[h] = 0 /\ ~InTable(h)

(* The inductive invariant. *)
IInv ==
  /\ TypeOK
  /\ Control
  /\ TableKeys
  /\ IsInjective(lru)
  /\ Swept
  /\ \A h \in Handle : Sound(h)

(* A step leaves entry h alone ... *)
Same(h) ==
  /\ entry'[h] = entry[h]
  /\ pins'[h] = pins[h]
  /\ InTable(h)' <=> InTable(h)
  /\ OnLRU(h)' <=> OnLRU(h)

(* ... or concerns at most the one entry e. *)
Only(e) == \A h \in Handle : h # e => Same(h)

-----------------------------------------------------------------------------

(* A shard as constructed satisfies the invariant. *)
LEMMA InitInv == Init => IInv
<1> SUFFICES ASSUME Init PROVE IInv
  OBVIOUS
<1>1. IsInjective(lru) /\ \A h \in Handle : ~OnLRU(h)
  BY EmptyList DEF Init, OnLRU
<1>2. TypeOK
  BY ConstAssumption DEF Init, TypeOK
<1>3. \A h \in Handle : ~Allocated(h) /\ ~InTable(h) /\ pins[h] = 0
  BY ConstAssumption DEF Init, Allocated, InTable
<1>4. Control /\ TableKeys /\ Swept
  BY ConstAssumption DEF Init, Control, TableKeys, Swept
<1> QED BY <1>1, <1>2, <1>3, <1>4, ZenonT(60) DEF IInv, Sound

(* The fields of an LRUHandle. *)
LEMMA FieldTypes ==
  ASSUME NEW x \in LRUHandle
  PROVE  x.key \in Key /\ x.charge \in Nat /\ x.refs \in Nat
<1>1. x.key \in Key /\ x.charge \in Charges /\ x.refs \in Nat
  BY DEF LRUHandle
<1> QED BY Zenon, <1>1, ConstAssumption

(* What the invariant says of an entry that is allocated or referred to. *)
LEMMA EntryFacts ==
  ASSUME IInv, NEW h \in Handle, Allocated(h) \/ InTable(h) \/ OnLRU(h) \/ pins[h] > 0
  PROVE  /\ Allocated(h)
         /\ entry[h] \in LRUHandle
         /\ entry[h].key \in Key /\ entry[h].charge \in Nat /\ entry[h].refs \in Nat
         /\ pins[h] \in Nat
         /\ entry[h].refs = pins[h] + (IF InTable(h) THEN 1 ELSE 0)
         /\ entry[h].refs > 0
         /\ InTable(h) <=> OnLRU(h)
         /\ InTable(h) => table[entry[h].key] = h
<1>1. Sound(h)
  BY ZenonT(60) DEF IInv
<1>2. pins[h] \in Nat
  BY ZenonT(60) DEF IInv, TypeOK
<1>3. Allocated(h)
  <2>1. ~Allocated(h) => pins[h] = 0 /\ ~InTable(h) /\ ~OnLRU(h)
    BY <1>1, ZenonT(60) DEF Sound
  <2> QED BY <2>1
<1>4. entry[h] \in LRUHandle
  BY <1>3, ZenonT(60) DEF IInv, TypeOK, Allocated
<1>5. InTable(h) => table[entry[h].key] = h
  BY ConstAssumption, ZenonT(60) DEF IInv, TableKeys, InTable
<1> QED BY <1>1, <1>2, <1>3, <1>4, <1>5, FieldTypes, ZenonT(60) DEF Sound

(* The heap after Unref: only the entry concerned changes, and it loses a  *)
(* reference or is freed.                                                  *)
LEMMA UnrefFacts ==
  ASSUME NEW heap \in [Handle -> LRUHandle \cup {NoEntry}], NEW e \in Handle,
         heap[e] \in LRUHandle, heap[e].refs > 0
  PROVE  /\ Unref(heap, e) \in [Handle -> LRUHandle \cup {NoEntry}]
         /\ \A h \in Handle : h # e => Unref(heap, e)[h] = heap[h]
         /\ heap[e].refs = 1 => Unref(heap, e)[e] = NoEntry
         /\ heap[e].refs # 1 =>
              /\ Unref(heap, e)[e] \in LRUHandle
              /\ Unref(heap, e)[e].key = heap[e].key
              /\ Unref(heap, e)[e].charge = heap[e].charge
              /\ Unref(heap, e)[e].refs = heap[e].refs - 1
              /\ Unref(heap, e)[e].refs > 0
<1>1. heap[e].refs \in Nat
  BY FieldTypes
<1>2. CASE heap[e].refs = 1
  <2>1. Unref(heap, e) = [heap EXCEPT ![e] = NoEntry]
    BY <1>2 DEF Unref
  <2> QED BY <1>2, <2>1
<1>3. CASE heap[e].refs # 1
  <2> DEFINE x == [heap[e] EXCEPT !.refs = @ - 1]
  <2>1. Unref(heap, e) = [heap EXCEPT ![e] = x]
    BY <1>3 DEF Unref
  <2>2. heap[e].refs - 1 \in Nat /\ heap[e].refs - 1 > 0
    BY <1>1, <1>3
  <2>3. /\ x \in LRUHandle /\ x.key = heap[e].key /\ x.charge = heap[e].charge
        /\ x.refs = heap[e].refs - 1
    BY <2>2 DEF LRUHandle
  <2> HIDE DEF x
  <2> QED BY <1>3, <2>1, <2>2, <2>3
<1> QED BY <1>2, <1>3

(* An entry that a step leaves alone stays sound. *)
LEMMA SameSound ==
  ASSUME NEW h \in Handle, Sound(h), Same(h)
  PROVE  Sound(h)'
  BY ZenonT(60) DEF Sound, Same, Allocated

(* While no thread is in Prune, nothing is claimed of a cursor. *)
LEMMA NotPruning ==
  ASSUME \A t \in Thread : pc'[t] # "prune"
  PROVE  Swept'
  BY DEF Swept

(* The invariant after a step that concerns the entry e only. *)
LEMMA OneEntry ==
  ASSUME IInv, TypeOK', Control', TableKeys', IsInjective(lru)', Swept',
         NEW e \in Handle, Only(e), Sound(e)'
  PROVE  IInv'
<1>1. \A h \in Handle : Sound(h)'
  BY SameSound, ZenonT(60) DEF IInv, Only
<1> QED BY <1>1, ZenonT(60) DEF IInv

(* A step that concerns no entry. *)
LEMMA NoneConcerned ==
  ASSUME IInv, TypeOK', Control', Swept', UNCHANGED <<entry, table, lru, pins>>
  PROVE  IInv' /\ \A h \in Handle : Same(h)
<1>1. \A h \in Handle : Same(h)
  BY ZenonT(60) DEF Same, InTable, OnLRU
<1>2. \A h \in Handle : Sound(h)'
  BY <1>1, SameSound, ZenonT(60) DEF IInv
<1>3. TableKeys' /\ IsInjective(lru)'
  BY ZenonT(60) DEF IInv, TableKeys
<1> QED BY <1>1, <1>2, <1>3, ZenonT(60) DEF IInv

(* e has lost one reference, or its last. *)
Unreffed(e) ==
  /\ Allocated(e)
  /\ Allocated(e)' <=> entry[e].refs # 1
  /\ Allocated(e)' => entry'[e].charge = entry[e].charge
  /\ usage' = usage - Refund(e)

(* What is refunded is a number. *)
LEMMA RefundType ==
  ASSUME IInv, NEW e \in Handle, Allocated(e)
  PROVE  Refund(e) \in Nat /\ usage \in Int /\ usage - Refund(e) \in Int
<1>1. entry[e].charge \in Nat
  BY EntryFacts, ZenonT(60)
<1>2. Refund(e) \in Nat
  BY <1>1 DEF Refund
<1>3. usage \in Int
  BY ZenonT(60) DEF IInv, TypeOK
<1> QED BY <1>2, <1>3

(* An entry leaves the table, the list and, unless it is pinned, the heap. *)
LEMMA EvictFacts ==
  ASSUME IInv, NEW e \in Handle, OnLRU(e), Evict(e), pins' = pins
  PROVE  /\ entry' \in [Handle -> LRUHandle \cup {NoEntry}]
         /\ table' \in [Key -> Handle \cup {NoHandle}]
         /\ lru' \in Seq(Handle)
         /\ usage' \in Int
         /\ TableKeys' /\ IsInjective(lru)'
         /\ Only(e) /\ Sound(e)' /\ ~InTable(e)' /\ ~OnLRU(e)'
         /\ Unreffed(e)
         /\ entry[e].refs = 1 <=> pins[e] = 0
<1>1. /\ InTable(e) /\ Allocated(e) /\ entry[e] \in LRUHandle /\ entry[e].key \in Key
      /\ entry[e].refs = pins[e] + 1 /\ entry[e].refs > 0 /\ pins[e] \in Nat
      /\ table[entry[e].key] = e
  BY EntryFacts, ZenonT(60)
<1>2. /\ lru' = RemoveFirst(lru, e)
      /\ table' = [table EXCEPT ![entry[e].key] = NoHandle]
      /\ entry' = Unref(entry, e)
      /\ usage' = usage - Refund(e)
  BY ZenonT(60) DEF Evict
<1>3. /\ entry \in [Handle -> LRUHandle \cup {NoEntry}]
      /\ table \in [Key -> Handle \cup {NoHandle}]
      /\ lru \in Seq(Handle) /\ IsInjective(lru) /\ TableKeys
  BY ZenonT(60) DEF IInv, TypeOK
<1>4. /\ entry' \in [Handle -> LRUHandle \cup {NoEntry}]
      /\ \A h \in Handle : h # e => entry'[h] = entry[h]
      /\ entry[e].refs = 1 => entry'[e] = NoEntry
      /\ entry[e].refs # 1 =>
           /\ entry'[e] \in LRUHandle
           /\ entry'[e].charge = entry[e].charge
           /\ entry'[e].refs = entry[e].refs - 1
           /\ entry'[e].refs > 0
  BY <1>1, <1>2, <1>3, UnrefFacts, ZenonT(60)
<1>5. /\ lru' \in Seq(Handle) /\ IsInjective(lru)'
      /\ \A h \in Handle : OnLRU(h)' <=> OnLRU(h) /\ h # e
  BY <1>2, <1>3, RemoveList, ZenonT(60) DEF OnLRU
<1>6. \A k \in Key : table[k] = e => k = entry[e].key
  BY <1>3, ConstAssumption, ZenonT(60) DEF TableKeys
<1>7. /\ table' \in [Key -> Handle \cup {NoHandle}]
      /\ \A k \in Key : table'[k] = IF table[k] = e THEN NoHandle ELSE table[k]
  BY <1>1, <1>2, <1>3, <1>6
<1>8. \A h \in Handle : InTable(h)' <=> InTable(h) /\ h # e
  BY <1>7, ConstAssumption DEF InTable
<1>9. TableKeys'
  BY <1>3, <1>4, <1>7, ZenonT(60) DEF TableKeys
<1>10. Only(e)
  BY <1>4, <1>5, <1>8, ZenonT(60) DEF Only, Same
<1>11. (Allocated(e)' <=> entry[e].refs # 1) /\ (entry[e].refs = 1 <=> pins[e] = 0)
  BY <1>1, <1>4, ConstAssumption DEF Allocated
<1>12. Sound(e)'
  <2>1. ~InTable(e)' /\ ~OnLRU(e)'
    BY <1>5, <1>8
  <2>2. Allocated(e)' => entry'[e].refs = pins'[e] /\ entry'[e].refs > 0
    BY <1>1, <1>4, <1>11
  <2>3. ~Allocated(e)' => pins'[e] = 0
    BY <1>11
  <2>4. pins'[e] + 0 = pins'[e]
    BY <1>1
  <2> QED BY <2>1, <2>2, <2>3, <2>4, ZenonT(60) DEF Sound
<1>13. Unreffed(e) /\ usage' \in Int
  BY <1>1, <1>2, <1>4, <1>11, RefundType, ZenonT(60) DEF Unreffed
<1> QED BY <1>4, <1>5, <1>7, <1>8, <1>9, <1>10, <1>11, <1>12, <1>13, ZenonT(60)

(* An iteration of Insert's loop takes the oldest entry out. *)
LEMMA InsertEvictInv ==
  ASSUME IInv, NEW t \in Thread, InsertEvict(t)
  PROVE  /\ IInv'
         /\ \E e \in Handle : e = Head(lru) /\ OnLRU(e) /\ Only(e) /\ Unreffed(e)
<1>1. /\ mutex = t /\ pc[t] = "insert" /\ lru # <<>> /\ Evict(Head(lru))
      /\ UNCHANGED <<capacity, mutex, pc, cursor, pins>>
  BY ZenonT(60) DEF InsertEvict, MustEvict
<1>2. lru \in Seq(Handle) /\ IsInjective(lru)
  BY ZenonT(60) DEF IInv, TypeOK
<1>3. PICK e \in Handle : e = Head(lru) /\ OnLRU(e) /\ Evict(e)
  BY <1>1, <1>2, TailList, ZenonT(60) DEF OnLRU
<1>4. /\ entry' \in [Handle -> LRUHandle \cup {NoEntry}]
      /\ table' \in [Key -> Handle \cup {NoHandle}]
      /\ lru' \in Seq(Handle) /\ usage' \in Int
      /\ TableKeys' /\ IsInjective(lru)'
      /\ Only(e) /\ Sound(e)' /\ Unreffed(e)
  BY <1>1, <1>3, EvictFacts, ZenonT(60)
<1>5. TypeOK' /\ Control'
  BY <1>1, <1>4, ZenonT(60) DEF IInv, TypeOK, Control
<1>6. \A u \in Thread : pc'[u] # "prune"
  BY <1>1 DEF IInv, Control
<1> QED BY <1>3, <1>4, <1>5, <1>6, OneEntry, NotPruning, ZenonT(60)

(* Erase takes the entry of its key out. *)
LEMMA EraseInv ==
  ASSUME IInv, NEW t \in Thread, NEW k \in Key, Erase(t, k)
  PROVE  /\ IInv'
         /\ \E e \in Handle : /\ e = table[k] /\ OnLRU(e) /\ Only(e) /\ Unreffed(e)
                              /\ table' = [table EXCEPT ![k] = NoHandle]
<1>1. /\ mutex = NoThread /\ table[k] # NoHandle /\ Evict(table[k])
      /\ UNCHANGED <<capacity, mutex, pc, cursor, pins>>
  BY ZenonT(60) DEF Erase, MayCall
<1>2. PICK e \in Handle : e = table[k] /\ Evict(e)
  BY <1>1, ZenonT(60) DEF IInv, TypeOK
<1>3. InTable(e)
  BY <1>2, ZenonT(60) DEF InTable
<1>4. OnLRU(e)
  BY <1>3, EntryFacts, ZenonT(60)
<1>5. /\ entry' \in [Handle -> LRUHandle \cup {NoEntry}]
      /\ table' \in [Key -> Handle \cup {NoHandle}]
      /\ lru' \in Seq(Handle) /\ usage' \in Int
      /\ TableKeys' /\ IsInjective(lru)'
      /\ Only(e) /\ Sound(e)' /\ Unreffed(e)
  BY <1>1, <1>2, <1>4, EvictFacts, ZenonT(60)
<1>6. TypeOK' /\ Control'
  BY <1>1, <1>5, ZenonT(60) DEF IInv, TypeOK, Control
<1>7. \A u \in Thread : pc'[u] # "prune"
  BY <1>1, ConstAssumption DEF IInv, Control
<1>8. table' = [table EXCEPT ![k] = NoHandle]
  <2>1. entry[e].key = k
    BY <1>1, <1>2, ZenonT(60) DEF IInv, TableKeys
  <2> QED BY <1>2, <2>1, ZenonT(60) DEF Evict
<1> QED BY <1>2, <1>4, <1>5, <1>6, <1>7, <1>8, OneEntry, NotPruning, ZenonT(60)

(* A Lookup that finds an entry gives it one more reference and moves it   *)
(* to the end of the list.                                                 *)
LEMMA LookupInv ==
  ASSUME IInv, NEW t \in Thread, NEW k \in Key, Lookup(t, k)
  PROVE  /\ IInv'
         /\ \E e \in Handle : /\ e = table[k] /\ OnLRU(e) /\ Only(e)
                              /\ Allocated(e) /\ Allocated(e)'
                              /\ entry'[e].charge = entry[e].charge
<1>1. /\ mutex = NoThread /\ table[k] # NoHandle
      /\ entry' = [entry EXCEPT ![table[k]].refs = @ + 1]
      /\ lru' = Append(RemoveFirst(lru, table[k]), table[k])
      /\ pins' = [pins EXCEPT ![table[k]] = @ + 1]
      /\ UNCHANGED <<table, usage, capacity, mutex, pc, cursor>>
  BY ZenonT(60) DEF Lookup, MayCall
<1>2. PICK e \in Handle : e = table[k]
  BY <1>1, ZenonT(60) DEF IInv, TypeOK
<1>3. InTable(e)
  BY <1>2, ZenonT(60) DEF InTable
<1>4. /\ OnLRU(e) /\ Allocated(e) /\ entry[e] \in LRUHandle /\ entry[e].refs \in Nat
      /\ pins[e] \in Nat /\ entry[e].refs = pins[e] + 1
  BY <1>3, EntryFacts, ZenonT(60)
<1>5. /\ entry \in [Handle -> LRUHandle \cup {NoEntry}]
      /\ pins \in [Handle -> Nat]
      /\ lru \in Seq(Handle) /\ IsInjective(lru) /\ TableKeys
  BY ZenonT(60) DEF IInv, TypeOK
<1>6. /\ entry' \in [Handle -> LRUHandle \cup {NoEntry}]
      /\ entry'[e] \in LRUHandle
      /\ entry'[e].key = entry[e].key /\ entry'[e].charge = entry[e].charge
      /\ entry'[e].refs = entry[e].refs + 1
      /\ \A h \in Handle : h # e => entry'[h] = entry[h]
  <2> DEFINE x == [entry[e] EXCEPT !.refs = @ + 1]
  <2>1. /\ x \in LRUHandle /\ x.key = entry[e].key /\ x.charge = entry[e].charge
        /\ x.refs = entry[e].refs + 1
    BY <1>4 DEF LRUHandle
  <2>2. entry' = [entry EXCEPT ![e] = x]
    BY <1>1, <1>2, ZenonT(60)
  <2> HIDE DEF x
  <2> QED BY <1>5, <2>1, <2>2
<1>7. /\ pins' \in [Handle -> Nat] /\ pins'[e] = pins[e] + 1
      /\ \A h \in Handle : h # e => pins'[h] = pins[h]
  BY <1>1, <1>2, <1>4, <1>5
<1>8. /\ lru' \in Seq(Handle) /\ IsInjective(lru)'
      /\ \A h \in Handle : OnLRU(h)' <=> OnLRU(h)
  <2> DEFINE s == RemoveFirst(lru, e)
  <2>1. /\ s \in Seq(Handle) /\ IsInjective(s)
        /\ \A h : Contains(s, h) <=> OnLRU(h) /\ h # e
    BY <1>4, <1>5, RemoveList, ZenonT(60) DEF OnLRU
  <2> HIDE DEF s
  <2>2. lru' = Append(s, e)
    BY <1>1, <1>2, ZenonT(60) DEF s
  <2>3. ~Contains(s, e)
    BY <2>1
  <2>4. /\ Append(s, e) \in Seq(Handle) /\ IsInjective(Append(s, e))
        /\ \A h : Contains(Append(s, e), h) <=> Contains(s, h) \/ h = e
    BY <2>1, <2>3, AppendList, ZenonT(60)
  <2> QED BY <1>4, <2>1, <2>2, <2>4, ZenonT(60) DEF OnLRU
<1>9. \A h \in Handle : InTable(h)' <=> InTable(h)
  BY <1>1, ZenonT(60) DEF InTable
<1>10. Only(e)
  BY <1>6, <1>7, <1>8, <1>9, ZenonT(60) DEF Only, Same
<1>11. Allocated(e)'
  BY <1>6, ConstAssumption, ZenonT(60) DEF Allocated
<1>12. Sound(e)'
  <2>1. entry'[e].refs = pins'[e] + 1 /\ entry'[e].refs > 0
    BY <1>4, <1>6, <1>7
  <2> QED BY <1>3, <1>4, <1>8, <1>9, <1>11, <2>1, ZenonT(60) DEF Sound
<1>13. TypeOK' /\ Control'
  BY <1>1, <1>6, <1>7, <1>8, ZenonT(60) DEF IInv, TypeOK, Control
<1>14. TableKeys'
  BY <1>1, <1>5, <1>6, ZenonT(60) DEF TableKeys, IInv, TypeOK
<1>15. \A u \in Thread : pc'[u] # "prune"
  BY <1>1, ConstAssumption DEF IInv, Control
<1> QED BY <1>2, <1>4, <1>6, <1>8, <1>10, <1>11, <1>12, <1>13, <1>14, <1>15,
           OneEntry, NotPruning, ZenonT(60)

(* Release gives one reference back; the last one frees the entry, which   *)
(* then is not in the table.                                               *)
LEMMA ReleaseInv ==
  ASSUME IInv, NEW t \in Thread, NEW e \in Handle, Release(t, e)
  PROVE  IInv' /\ Only(e) /\ Unreffed(e) /\ (pins[e] > 1 \/ InTable(e) <=> entry[e].refs # 1)
<1>1. /\ mutex = NoThread /\ pins[e] > 0
      /\ entry' = Unref(entry, e)
      /\ usage' = usage - Refund(e)
      /\ pins' = [pins EXCEPT ![e] = @ - 1]
      /\ UNCHANGED <<table, lru, capacity, mutex, pc, cursor>>
  BY ZenonT(60) DEF Release, MayCall
<1>2. /\ Allocated(e) /\ entry[e] \in LRUHandle
      /\ entry[e].refs = pins[e] + (IF InTable(e) THEN 1 ELSE 0)
      /\ entry[e].refs > 0 /\ pins[e] \in Nat /\ entry[e].refs \in Nat
      /\ InTable(e) <=> OnLRU(e)
  BY <1>1, EntryFacts, ZenonT(60)
<1>3. /\ entry \in [Handle -> LRUHandle \cup {NoEntry}]
      /\ pins \in [Handle -> Nat] /\ TableKeys
      /\ table \in [Key -> Handle \cup {NoHandle}]
  BY ZenonT(60) DEF IInv, TypeOK
<1>4. /\ entry' \in [Handle -> LRUHandle \cup {NoEntry}]
      /\ \A h \in Handle : h # e => entry'[h] = entry[h]
      /\ entry[e].refs = 1 => entry'[e] = NoEntry
      /\ entry[e].refs # 1 =>
           /\ entry'[e] \in LRUHandle
           /\ entry'[e].key = entry[e].key
           /\ entry'[e].charge = entry[e].charge
           /\ entry'[e].refs = entry[e].refs - 1
           /\ entry'[e].refs > 0
  BY <1>1, <1>2, <1>3, UnrefFacts, ZenonT(60)
<1>5. /\ pins' \in [Handle -> Nat] /\ pins'[e] = pins[e] - 1
      /\ \A h \in Handle : h # e => pins'[h] = pins[h]
  BY <1>1, <1>2, <1>3
<1>6. /\ \A h \in Handle : InTable(h)' <=> InTable(h)
      /\ \A h \in Handle : OnLRU(h)' <=> OnLRU(h)
  BY <1>1, ZenonT(60) DEF InTable, OnLRU
<1>7. Only(e)
  BY <1>4, <1>5, <1>6, ZenonT(60) DEF Only, Same
<1>8. /\ Allocated(e)' <=> entry[e].refs # 1
      /\ pins[e] > 1 \/ InTable(e) <=> entry[e].refs # 1
      /\ entry[e].refs = 1 => pins[e] = 1 /\ ~InTable(e)
  <2>1. Allocated(e)' <=> entry[e].refs # 1
    BY <1>4, ConstAssumption, ZenonT(60) DEF Allocated
  <2> QED BY <1>1, <1>2, <2>1
<1>9. Sound(e)'
  <2>1. CASE entry[e].refs = 1
    <3>1. pins'[e] = 0
      BY <1>5, <1>8, <2>1
    <3> QED BY <1>2, <1>6, <1>8, <2>1, <3>1, ZenonT(60) DEF Sound
  <2>2. CASE entry[e].refs # 1
    <3>1. entry'[e].refs = pins'[e] + (IF InTable(e) THEN 1 ELSE 0)
      BY <1>2, <1>4, <1>5, <2>2
    <3> QED BY <1>2, <1>4, <1>6, <1>8, <2>2, <3>1, ZenonT(60) DEF Sound
  <2> QED BY <2>1, <2>2
<1>10. Unreffed(e) /\ usage' \in Int
  BY <1>1, <1>2, <1>4, <1>8, RefundType, ZenonT(60) DEF Unreffed
<1>11. TypeOK' /\ Control'
  BY <1>1, <1>4, <1>5, <1>10, ZenonT(60) DEF IInv, TypeOK, Control
<1>12. TableKeys'
  <2>1. \A k \in Key : table[k] = e => entry[e].refs # 1
    BY <1>8, ZenonT(60) DEF InTable
  <2> QED BY <1>1, <1>3, <1>4, <2>1, ZenonT(60) DEF TableKeys
<1>13. IsInjective(lru)'
  BY <1>1, ZenonT(60) DEF IInv
<1>14. \A u \in Thread : pc'[u] # "prune"
  BY <1>1, ConstAssumption DEF IInv, Control
<1> QED BY <1>7, <1>8, <1>9, <1>10, <1>11, <1>12, <1>13, <1>14,
           OneEntry, NotPruning, ZenonT(60)

(* Insert returns. *)
LEMMA InsertEndInv ==
  ASSUME IInv, NEW t \in Thread, InsertEnd(t)
  PROVE  IInv' /\ \A h \in Handle : Same(h)
<1>1. /\ mutex = t /\ pc[t] = "insert" /\ mutex' = NoThread
      /\ pc' = [pc EXCEPT ![t] = "idle"]
      /\ UNCHANGED <<entry, table, lru, usage, capacity, cursor, pins>>
  BY ZenonT(60) DEF InsertEnd, shardVars
<1>2. TypeOK'
  BY <1>1 DEF IInv, TypeOK
<1>3. Control' /\ \A u \in Thread : pc'[u] # "prune"
  BY <1>1, ConstAssumption DEF IInv, TypeOK, Control
<1> QED BY <1>1, <1>2, <1>3, NoneConcerned, NotPruning, ZenonT(60)

(* Prune returns. *)
LEMMA PruneEndInv ==
  ASSUME IInv, NEW t \in Thread, PruneEnd(t)
  PROVE  IInv' /\ \A h \in Handle : Same(h)
<1>1. /\ mutex = t /\ pc[t] = "prune" /\ cursor[t] = NoHandle /\ mutex' = NoThread
      /\ pc' = [pc EXCEPT ![t] = "idle"]
      /\ UNCHANGED <<entry, table, lru, usage, capacity, cursor, pins>>
  BY ZenonT(60) DEF PruneEnd, shardVars
<1>2. TypeOK'
  BY <1>1, ZenonT(60) DEF IInv, TypeOK
<1>3. Control' /\ \A u \in Thread : pc'[u] # "prune"
  BY <1>1, ConstAssumption DEF IInv, TypeOK, Control
<1> QED BY <1>1, <1>2, <1>3, NoneConcerned, NotPruning, ZenonT(60)

(* Prune starts at the head of the list. *)
LEMMA PruneBeginInv ==
  ASSUME IInv, NEW t \in Thread, PruneBegin(t)
  PROVE  IInv' /\ \A h \in Handle : Same(h)
<1>1. /\ mutex = NoThread /\ mutex' = t
      /\ cursor' = [cursor EXCEPT ![t] = IF lru = <<>> THEN NoHandle ELSE Head(lru)]
      /\ pc' = [pc EXCEPT ![t] = "prune"]
      /\ UNCHANGED <<entry, table, lru, usage, capacity, pins>>
  BY ZenonT(60) DEF PruneBegin, MayCall, shardVars
<1>2. lru \in Seq(Handle)
  BY ZenonT(60) DEF IInv, TypeOK
<1>3. PICK x \in Handle \cup {NoHandle} :
        x = At(lru, 1) /\ cursor' = [cursor EXCEPT ![t] = x]
  <2>1. CASE lru = <<>>
    <3>1. ~(1 <= Len(lru))
      BY <2>1
    <3> QED BY <1>1, <2>1, <3>1, ZenonT(60) DEF At
  <2>2. CASE lru # <<>>
    <3>1. Head(lru) = lru[1] /\ Head(lru) \in Handle /\ 1 <= Len(lru)
      BY <1>2, <2>2
    <3> QED BY <1>1, <2>2, <3>1, ZenonT(60) DEF At
  <2> QED BY <2>1, <2>2
<1>4. TypeOK'
  BY <1>1, <1>3 DEF IInv, TypeOK
<1>5. Control'
  BY <1>1, <1>3, ConstAssumption DEF IInv, TypeOK, Control
<1>6. Swept'
  <2>1. \A u \in Thread : pc'[u] = "prune" => u = t
    BY <1>1, ConstAssumption, ZenonT(60) DEF IInv, TypeOK, Control
  <2>2. cursor'[t] = x
    BY <1>3 DEF IInv, TypeOK
  <2>3. 1 \in 1..(Len(lru) + 1) /\ 1..(1 - 1) = {}
    BY <1>2
  <2> QED BY <1>1, <1>3, <2>1, <2>2, <2>3, ZenonT(60) DEF Swept
<1> QED BY <1>1, <1>4, <1>5, <1>6, NoneConcerned, ZenonT(60)

(* e->next of the entry at position p is the entry at position p + 1. *)
LEMMA AfterPlace ==
  ASSUME NEW s \in Seq(Handle), IsInjective(s), NEW p \in 1..Len(s)
  PROVE  After(s, s[p]) = At(s, p + 1)
<1>1. DOMAIN s = 1..Len(s) /\ Len(s) \in Nat
  OBVIOUS
<1>2. (CHOOSE j \in DOMAIN s : s[j] = s[p]) = p
  BY <1>1 DEF IsInjective
<1>3. After(s, s[p]) = IF p = Len(s) THEN NoHandle ELSE s[p + 1]
  <2> DEFINE i == CHOOSE j \in DOMAIN s : s[j] = s[p]
  <2>1. After(s, s[p]) = IF i = Len(s) THEN NoHandle ELSE s[i + 1]
    BY Zenon DEF After
  <2> QED BY <1>2, <2>1, Zenon
<1>4. p + 1 <= Len(s) <=> p # Len(s)
  <2>1. \A n \in Nat : \A m \in 1..n : m + 1 <= n <=> m # n
    OBVIOUS
  <2> QED BY <1>1, <2>1, Zenon
<1> QED BY <1>3, <1>4, ZenonT(60) DEF At

(* Where Prune is: at an entry of the list, with pinned entries before. *)
LEMMA CursorPlace ==
  ASSUME IInv, NEW t \in Thread, pc[t] = "prune", cursor[t] # NoHandle
  PROVE  \E p \in 1..Len(lru) : /\ cursor[t] = lru[p]
                                /\ \A i \in 1..(p - 1) : pins[lru[i]] > 0
<1>1. PICK p \in 1..(Len(lru) + 1) :
        /\ cursor[t] = At(lru, p) /\ \A i \in 1..(p - 1) : pins[lru[i]] > 0
  BY ZenonT(60) DEF IInv, Swept
<1>2. lru \in Seq(Handle)
  BY ZenonT(60) DEF IInv, TypeOK
<1>3. p \in 1..Len(lru) /\ cursor[t] = lru[p]
  BY <1>1, <1>2 DEF At
<1> QED BY <1>1, <1>3

(* One iteration of Prune evicts the entry at the cursor if it is not      *)
(* pinned, and moves on.                                                   *)
LEMMA PruneStepInv ==
  ASSUME IInv, NEW t \in Thread, PruneStep(t)
  PROVE  /\ IInv'
         /\ \E e \in Handle : /\ e = cursor[t] /\ OnLRU(e)
                              /\ IF Prunable(e)
                                   THEN Evict(e) /\ Only(e) /\ Unreffed(e) /\ pins[e] = 0
                                   ELSE UNCHANGED <<entry, table, lru, usage>>
<1>1. /\ mutex = t /\ pc[t] = "prune" /\ cursor[t] # NoHandle
      /\ IF Prunable(cursor[t])
           THEN Evict(cursor[t]) ELSE UNCHANGED <<entry, table, lru, usage>>
      /\ cursor' = [cursor EXCEPT ![t] = After(lru, cursor[t])]
      /\ UNCHANGED <<capacity, mutex, pc, pins>>
  BY ZenonT(60) DEF PruneStep, shardVars
<1>2. /\ lru \in Seq(Handle) /\ IsInjective(lru) /\ pins \in [Handle -> Nat]
      /\ cursor \in [Thread -> Handle \cup {NoHandle}]
  BY ZenonT(60) DEF IInv, TypeOK
<1>3. PICK p \in 1..Len(lru) : /\ cursor[t] = lru[p]
                               /\ \A i \in 1..(p - 1) : pins[lru[i]] > 0
  BY <1>1, CursorPlace, ZenonT(60)
<1>4. PICK e \in Handle : e = cursor[t] /\ e = lru[p] /\ OnLRU(e)
  BY <1>2, <1>3 DEF OnLRU, Contains
<1>5. After(lru, e) = At(lru, p + 1)
  BY <1>2, <1>4, AfterPlace, ZenonT(60)
<1>6. At(lru, p + 1) \in Handle \cup {NoHandle}
  BY <1>2 DEF At
<1>7. /\ cursor' \in [Thread -> Handle \cup {NoHandle}]
      /\ cursor'[t] = At(lru, p + 1)
      /\ \A u \in Thread : u # t => cursor'[u] = cursor[u]
  BY <1>1, <1>2, <1>4, <1>5, <1>6
<1>8. \A u \in Thread : pc[u] = "prune" => u = t
  BY <1>1 DEF IInv, Control
<1>9. Control'
  BY <1>1, <1>7, ZenonT(60) DEF IInv, Control
<1>10. Len(lru) \in Nat /\ p \in Nat /\ p >= 1 /\ p <= Len(lru)
  BY <1>2
<1>11. CASE Prunable(e)
  <2>1. Evict(e) /\ entry[e].refs = 1
    BY <1>1, <1>4, <1>11, ZenonT(60) DEF Prunable
  <2>2. /\ entry' \in [Handle -> LRUHandle \cup {NoEntry}]
        /\ table' \in [Key -> Handle \cup {NoHandle}]
        /\ lru' \in Seq(Handle) /\ usage' \in Int
        /\ TableKeys' /\ IsInjective(lru)'
        /\ Only(e) /\ Sound(e)' /\ Unreffed(e) /\ pins[e] = 0
    BY <1>1, <1>4, <2>1, EvictFacts, ZenonT(60)
  <2>3. /\ Len(lru') = Len(lru) - 1
        /\ \A i \in 1..(Len(lru) - 1) : lru'[i] = IF i < p THEN lru[i] ELSE lru[i + 1]
    <3>1. lru' = RemoveFirst(lru, lru[p])
      BY <1>4, <2>1, ZenonT(60) DEF Evict
    <3> QED BY <1>2, <3>1, RemovePlaces, ZenonT(60)
  <2>4. TypeOK'
    BY <1>1, <1>7, <2>2, ZenonT(60) DEF IInv, TypeOK
  <2>5. Swept'
    <3>1. p \in 1..(Len(lru') + 1)
      BY <1>10, <2>3
    <3>2. At(lru', p) = At(lru, p + 1)
      BY <1>10, <2>3 DEF At
    <3>3. \A i \in 1..(p - 1) : lru'[i] = lru[i]
      BY <1>10, <2>3
    <3>4. \A i \in 1..(p - 1) : pins'[lru'[i]] > 0
      BY <1>1, <1>3, <3>3
    <3> QED BY <1>1, <1>7, <1>8, <3>1, <3>2, <3>4, ZenonT(60) DEF Swept
  <2> QED BY <1>4, <1>9, <1>11, <2>1, <2>2, <2>4, <2>5, OneEntry, ZenonT(60)
<1>12. CASE ~Prunable(e)
  <2>1. UNCHANGED <<entry, table, lru, usage, pins>>
    BY <1>1, <1>4, <1>12, ZenonT(60)
  <2>2. TypeOK'
    BY <1>1, <1>7, <2>1, ZenonT(60) DEF IInv, TypeOK
  <2>3. pins[e] > 0
    <3>1. /\ entry[e].refs = pins[e] + (IF InTable(e) THEN 1 ELSE 0)
          /\ entry[e].refs > 0 /\ pins[e] \in Nat /\ InTable(e)
      BY <1>4, EntryFacts, ZenonT(60)
    <3> QED BY <1>12, <3>1 DEF Prunable
  <2>4. Swept'
    <3>1. p + 1 \in 1..(Len(lru) + 1)
      BY <1>10
    <3>2. \A i \in 1..((p + 1) - 1) : pins[lru[i]] > 0
      BY <1>3, <1>4, <1>10, <2>3
    <3> QED BY <1>1, <1>7, <1>8, <2>1, <3>1, <3>2, ZenonT(60) DEF Swept
  <2> QED BY <1>4, <1>9, <1>12, <2>1, <2>2, <2>4, NoneConcerned, ZenonT(60)
<1> QED BY <1>11, <1>12, ZenonT(60)

-----------------------------------------------------------------------------

(* Insert with no entry cached for its key, or before that one is dealt    *)
(* with: what listing the new entry e does.                                *)
LEMMA ListNew ==
  ASSUME IInv, NEW e \in Handle, ~Allocated(e)
  PROVE  /\ pins[e] = 0 /\ ~InTable(e) /\ ~OnLRU(e)
         /\ Append(lru, e) \in Seq(Handle)
         /\ IsInjective(Append(lru, e))
         /\ \A h : Contains(Append(lru, e), h) <=> OnLRU(h) \/ h = e
<1>1. pins[e] = 0 /\ ~InTable(e) /\ ~OnLRU(e)
  BY ZenonT(60) DEF IInv, Sound
<1>2. lru \in Seq(Handle) /\ IsInjective(lru) /\ ~Contains(lru, e)
  BY <1>1, ZenonT(60) DEF IInv, TypeOK, OnLRU
<1> QED BY <1>1, <1>2, AppendList, ZenonT(60) DEF OnLRU

(* What Insert leaves when it has entered its entry e and dealt with the   *)
(* entry old that was cached for the key.                                  *)
Entered(t, k, c, e, old) ==
  /\ ~Allocated(e) /\ pins[e] = 0 /\ pins'[e] = 1
  /\ Allocated(e)' /\ entry'[e].charge = c
  /\ table' = [table EXCEPT ![k] = e]
  /\ pins' = [pins EXCEPT ![e] = 1]
  /\ \A h \in Handle : h # e /\ h # old => Same(h)
  /\ old = NoHandle => usage' = usage + c
  /\ old # NoHandle =>
       /\ old # e /\ InTable(old) /\ Allocated(old)
       /\ Allocated(old)' <=> entry[old].refs # 1
       /\ Allocated(old)' => entry'[old].charge = entry[old].charge
       /\ usage' = usage + c - Refund(old)

(* Insert up to its loop. *)
LEMMA InsertBeginInv ==
  ASSUME IInv, NEW t \in Thread, NEW k \in Key, NEW c \in Charges, NEW e \in Handle,
         NEW old \in Handle \cup {NoHandle}, old = table[k],
         InsertBegin(t, k, c, e)
  PROVE  IInv' /\ Entered(t, k, c, e, old)
<1> DEFINE x == [key |-> k, charge |-> c, refs |-> 2]
           added == [entry EXCEPT ![e] = x]
<1>1. /\ mutex = NoThread /\ entry[e] = NoEntry
      /\ table' = [table EXCEPT ![k] = e]
      /\ old = NoHandle => /\ entry' = added
                           /\ lru' = Append(lru, e)
                           /\ usage' = usage + c
      /\ old # NoHandle => /\ entry' = Unref(added, old)
                           /\ lru' = RemoveFirst(Append(lru, e), old)
                           /\ usage' = usage + c - Refund(old)
      /\ pins' = [pins EXCEPT ![e] = @ + 1]
      /\ mutex' = t /\ pc' = [pc EXCEPT ![t] = "insert"]
      /\ UNCHANGED <<capacity, cursor>>
  BY ZenonT(60) DEF InsertBegin, MayCall, InitialRefs
<1>2. x \in LRUHandle /\ x.key = k /\ x.charge = c /\ x.refs = 2
  BY DEF LRUHandle
<1> HIDE DEF x
<1>3. /\ entry \in [Handle -> LRUHandle \cup {NoEntry}]
      /\ table \in [Key -> Handle \cup {NoHandle}]
      /\ pins \in [Handle -> Nat] /\ usage \in Int /\ TableKeys
  BY ZenonT(60) DEF IInv, TypeOK
<1>4. /\ ~Allocated(e) /\ pins[e] = 0 /\ ~InTable(e) /\ ~OnLRU(e)
      /\ Append(lru, e) \in Seq(Handle)
      /\ IsInjective(Append(lru, e))
      /\ \A h : Contains(Append(lru, e), h) <=> OnLRU(h) \/ h = e
  BY <1>1, ListNew, ZenonT(60) DEF Allocated
<1>5. /\ added \in [Handle -> LRUHandle \cup {NoEntry}] /\ added[e] = x
      /\ \A h \in Handle : h # e => added[h] = entry[h]
  BY <1>2, <1>3
<1> HIDE DEF added
<1>6. /\ pins' \in [Handle -> Nat] /\ pins' = [pins EXCEPT ![e] = 1] /\ pins'[e] = 1
      /\ \A h \in Handle : h # e => pins'[h] = pins[h]
  BY <1>1, <1>3, <1>4
<1>7. table' \in [Key -> Handle \cup {NoHandle}]
  BY <1>1, <1>3
<1>8. \A h \in Handle : InTable(h)' <=> (InTable(h) /\ h # old) \/ h = e
  <2>1. \A j \in Key : table'[j] = IF j = k THEN e ELSE table[j]
    BY <1>1, <1>3
  <2>2. \A j \in Key : j # k /\ table[j] # NoHandle => table[j] # old
    BY <1>3, ZenonT(60) DEF TableKeys
  <2> QED BY <1>4, <2>1, <2>2, ConstAssumption, ZenonT(60) DEF InTable
<1>9. c \in Nat
  BY ConstAssumption
<1>10. Control' /\ \A u \in Thread : pc'[u] # "prune"
  BY <1>1, ConstAssumption, ZenonT(60) DEF IInv, TypeOK, Control
<1>11. pc' \in [Thread -> {"idle", "insert", "prune"}] /\ mutex' \in Thread \cup {NoThread}
  BY <1>1 DEF IInv, TypeOK
<1>12. CASE old = NoHandle
  <2>1. /\ entry' = added /\ lru' = Append(lru, e) /\ usage' = usage + c
    BY <1>1, <1>12
  <2>2. usage' \in Int
    BY <1>3, <1>9, <2>1
  <2>3. TypeOK'
    BY <1>1, <1>4, <1>5, <1>6, <1>7, <1>11, <2>1, <2>2, ZenonT(60) DEF IInv, TypeOK
  <2>4. \A h \in Handle : OnLRU(h)' <=> OnLRU(h) \/ h = e
    BY <1>4, <2>1, ZenonT(60) DEF OnLRU
  <2>5. Only(e)
    BY <1>5, <1>6, <1>8, <1>12, <2>1, <2>4, ConstAssumption, ZenonT(60)
       DEF Only, Same
  <2>6. Allocated(e)' /\ entry'[e] = x
    BY <1>2, <1>5, <2>1, ConstAssumption, ZenonT(60) DEF Allocated
  <2>7. Sound(e)'
    <3>1. entry'[e].refs = pins'[e] + 1 /\ entry'[e].refs > 0
      BY <1>2, <1>6, <2>6
    <3> QED BY <1>8, <2>4, <2>6, <3>1, ZenonT(60) DEF Sound
  <2>8. TableKeys'
    <3>1. \A j \in Key : j # k => table[j] # e
      BY <1>4, ZenonT(60) DEF InTable
    <3> QED BY <1>1, <1>2, <1>3, <1>5, <2>1, <3>1, ZenonT(60) DEF TableKeys
  <2>9. IsInjective(lru)'
    BY <1>4, <2>1
  <2>10. IInv'
    BY <1>10, <2>3, <2>5, <2>7, <2>8, <2>9, OneEntry, NotPruning, ZenonT(60)
  <2> QED BY <1>1, <1>2, <1>4, <1>6, <1>12, <2>1, <2>5, <2>6, <2>10, ZenonT(60)
          DEF Entered, Only
<1>13. CASE old # NoHandle
  <2>1. old \in Handle /\ InTable(old) /\ old # e
    BY <1>4, <1>13, ZenonT(60) DEF InTable
  <2>2. /\ entry' = Unref(added, old) /\ lru' = RemoveFirst(Append(lru, e), old)
        /\ usage' = usage + c - Refund(old)
    BY <1>1, <1>13
  <2>3. /\ Allocated(old) /\ OnLRU(old) /\ entry[old] \in LRUHandle
        /\ entry[old].refs = pins[old] + 1 /\ entry[old].refs > 0 /\ pins[old] \in Nat
        /\ added[old] = entry[old]
    BY <1>5, <2>1, EntryFacts, ZenonT(60)
  <2>4. /\ entry' \in [Handle -> LRUHandle \cup {NoEntry}]
        /\ \A h \in Handle : h # old => entry'[h] = added[h]
        /\ entry[old].refs = 1 => entry'[old] = NoEntry
        /\ entry[old].refs # 1 =>
             /\ entry'[old] \in LRUHandle
             /\ entry'[old].charge = entry[old].charge
             /\ entry'[old].refs = entry[old].refs - 1
             /\ entry'[old].refs > 0
    <3>1. added[old] \in LRUHandle /\ added[old].refs > 0
      BY <2>3
    <3>2. /\ Unref(added, old) \in [Handle -> LRUHandle \cup {NoEntry}]
          /\ \A h \in Handle : h # old => Unref(added, old)[h] = added[h]
          /\ added[old].refs = 1 => Unref(added, old)[old] = NoEntry
          /\ added[old].refs # 1 =>
               /\ Unref(added, old)[old] \in LRUHandle
               /\ Unref(added, old)[old].charge = added[old].charge
               /\ Unref(added, old)[old].refs = added[old].refs - 1
               /\ Unref(added, old)[old].refs > 0
      BY <1>5, <2>1, <3>1, UnrefFacts, ZenonT(60)
    <3> QED BY <2>2, <2>3, <3>2, ZenonT(60)
  <2>5. /\ lru' \in Seq(Handle) /\ IsInjective(lru)'
        /\ \A h \in Handle : OnLRU(h)' <=> (OnLRU(h) \/ h = e) /\ h # old
    <3>1. Contains(Append(lru, e), old)
      BY <1>4, <2>3
    <3> QED BY <1>4, <2>2, <3>1, RemoveList, ZenonT(60) DEF OnLRU
  <2>6. usage' \in Int
    <3>1. Refund(old) \in Nat
      BY <2>1, <2>3, RefundType
    <3> QED BY <1>3, <1>9, <2>2, <3>1
  <2>7. TypeOK'
    BY <1>1, <1>6, <1>7, <1>11, <2>4, <2>5, <2>6, ZenonT(60) DEF IInv, TypeOK
  <2>8. \A h \in Handle : h # e /\ h # old => Same(h)
    BY <1>5, <1>6, <1>8, <2>4, <2>5, ZenonT(60) DEF Same
  <2>9. Allocated(e)' /\ entry'[e] = x
    BY <1>2, <1>5, <2>1, <2>4, ConstAssumption, ZenonT(60) DEF Allocated
  <2>10. Sound(e)'
    <3>1. entry'[e].refs = pins'[e] + 1 /\ entry'[e].refs > 0
      BY <1>2, <1>6, <2>9
    <3> QED BY <1>8, <2>1, <2>5, <2>9, <3>1, ZenonT(60) DEF Sound
  <2>11. Allocated(old)' <=> entry[old].refs # 1
    BY <2>1, <2>4, ConstAssumption, ZenonT(60) DEF Allocated
  <2>12. Sound(old)'
    <3>1. ~InTable(old)' /\ ~OnLRU(old)' /\ pins'[old] = pins[old]
      BY <1>6, <1>8, <2>1, <2>5
    <3>2. Allocated(old)' => entry'[old].refs = pins'[old] + 0 /\ entry'[old].refs > 0
      BY <2>3, <2>4, <2>11, <3>1
    <3>3. ~Allocated(old)' => pins'[old] = 0
      BY <2>3, <2>11, <3>1
    <3> QED BY <3>1, <3>2, <3>3, ZenonT(60) DEF Sound
  <2>13. TableKeys'
    <3>1. \A j \in Key : j # k => table[j] # e
      BY <1>4, ZenonT(60) DEF InTable
    <3>2. \A j \in Key : j # k /\ table[j] # NoHandle => table[j] # old
      BY <1>3, ZenonT(60) DEF TableKeys
    <3>3. \A j \in Key : table'[j] = IF j = k THEN e ELSE table[j]
      BY <1>1, <1>3
    <3>4. \A j \in Key : j # k /\ table[j] # NoHandle => entry'[table[j]] = entry[table[j]]
      BY <1>3, <1>5, <2>4, <3>1, <3>2, ZenonT(60)
    <3> QED BY <1>2, <1>3, <2>9, <3>3, <3>4, ZenonT(60) DEF TableKeys
  <2>14. \A h \in Handle : Sound(h)'
    BY <2>8, <2>10, <2>12, SameSound, ZenonT(60) DEF IInv
  <2>15. IInv'
    BY <1>10, <2>5, <2>7, <2>13, <2>14, NotPruning, ZenonT(60) DEF IInv
  <2>16. Allocated(old)' => entry'[old].charge = entry[old].charge
    BY <2>4, <2>11
  <2> QED BY <1>1, <1>2, <1>4, <1>6, <1>13, <2>1, <2>2, <2>3, <2>8, <2>9, <2>11,
             <2>15,
             <2>16, ZenonT(60) DEF Entered
<1> QED BY <1>12, <1>13

(* The destructor frees every entry: nobody holds one, so the list has the *)
(* last reference to each.                                                 *)
LEMMA DestroyInv ==
  ASSUME IInv, Destroy
  PROVE  IInv' /\ (\A h \in Handle : ~Allocated(h)') /\ usage' = 0 /\ lru' = <<>>
<1>1. /\ mutex = NoThread /\ \A h \in Handle : pins[h] = 0
      /\ entry' = [h \in Handle |->
                     IF OnLRU(h) THEN Unref(entry, h)[h] ELSE entry[h]]
      /\ table' = [k \in Key |-> NoHandle] /\ lru' = <<>> /\ usage' = 0
      /\ capacity' \in Capacities
      /\ UNCHANGED <<mutex, pc, cursor, pins>>
  BY ZenonT(60) DEF Destroy, OnLRU
<1>2. \A h \in Handle : entry'[h] = NoEntry
  <2> SUFFICES ASSUME NEW h \in Handle PROVE entry'[h] = NoEntry
    OBVIOUS
  <2>1. CASE Allocated(h)
    <3>1. /\ entry[h] \in LRUHandle /\ pins[h] = 0
          /\ entry[h].refs = pins[h] + (IF InTable(h) THEN 1 ELSE 0)
          /\ entry[h].refs > 0 /\ (InTable(h) <=> OnLRU(h))
      BY <1>1, <2>1, EntryFacts, ZenonT(60)
    <3>2. entry[h].refs = 1 /\ OnLRU(h)
      BY <3>1
    <3>3. entry \in [Handle -> LRUHandle \cup {NoEntry}]
      BY ZenonT(60) DEF IInv, TypeOK
    <3>4. Unref(entry, h)[h] = NoEntry
      BY <3>1, <3>2, <3>3, UnrefFacts, ZenonT(60)
    <3> QED BY <1>1, <3>2, <3>4, ZenonT(60)
  <2>2. CASE ~Allocated(h)
    <3>1. ~OnLRU(h) /\ entry[h] = NoEntry
      BY <2>2, ZenonT(60) DEF IInv, Sound, Allocated
    <3> QED BY <1>1, <3>1, ZenonT(60)
  <2> QED BY <2>1, <2>2
<1>3. entry' \in [Handle -> LRUHandle \cup {NoEntry}]
  BY <1>1, <1>2
<1>4. lru' \in Seq(Handle) /\ IsInjective(lru)' /\ \A h \in Handle : ~OnLRU(h)'
  BY <1>1, EmptyList, ZenonT(60) DEF OnLRU
<1>5. \A h \in Handle : ~Allocated(h)' /\ ~InTable(h)' /\ pins'[h] = 0
  BY <1>1, <1>2, ConstAssumption, ZenonT(60) DEF Allocated, InTable
<1>6. TypeOK'
  <2>1. table' \in [Key -> Handle \cup {NoHandle}] /\ usage' \in Int
    BY <1>1
  <2> QED BY <1>1, <1>3, <1>4, <2>1, ZenonT(60) DEF IInv, TypeOK
<1>7. TableKeys'
  BY <1>1, ZenonT(60) DEF TableKeys
<1>8. Control' /\ \A u \in Thread : pc'[u] # "prune"
  BY <1>1, ConstAssumption DEF IInv, Control
<1>9. \A h \in Handle : Sound(h)'
  BY <1>4, <1>5, ZenonT(60) DEF Sound
<1> QED BY <1>1, <1>4, <1>5, <1>6, <1>7, <1>8, <1>9, NotPruning, ZenonT(60) DEF IInv

(* Every step preserves the invariant. *)
LEMMA NextInv == IInv /\ [Next]_vars => IInv'
<1> SUFFICES ASSUME IInv, [Next]_vars PROVE IInv'
  OBVIOUS
<1>1. CASE UNCHANGED vars
  <2>1. UNCHANGED <<entry, table, lru, usage, capacity, mutex, pc, cursor, pins>>
    BY <1>1, ZenonT(60) DEF vars, shardVars
  <2>2. TypeOK' /\ Control' /\ Swept'
    BY <2>1, ZenonT(60) DEF IInv, TypeOK, Control, Swept
  <2> QED BY <2>1, <2>2, NoneConcerned, ZenonT(60)
<1>2. CASE Destroy
  BY <1>2, DestroyInv, ZenonT(60)
<1>3. ASSUME NEW t \in Thread, Continue(t) PROVE IInv'
  BY <1>3, InsertEvictInv, InsertEndInv, PruneStepInv, PruneEndInv, ZenonT(60)
     DEF Continue
<1>4. ASSUME NEW t \in Thread, Call(t) PROVE IInv'
  <2>1. ASSUME NEW k \in Key, NEW c \in Charges, NEW e \in Handle,
               InsertBegin(t, k, c, e)
        PROVE  IInv'
    <3>1. PICK old \in Handle \cup {NoHandle} : old = table[k]
      BY ZenonT(60) DEF IInv, TypeOK
    <3> QED BY <2>1, <3>1, InsertBeginInv, ZenonT(60)
  <2> QED BY <1>4, <2>1, LookupInv, EraseInv, ReleaseInv, PruneBeginInv, ZenonT(60)
          DEF Call
<1> QED BY <1>1, <1>2, <1>3, <1>4, ZenonT(60) DEF Next

(* The inductive invariant holds in every reachable state of a shard. *)
THEOREM Invariance == Spec => []IInv
BY InitInv, NextInv, PTL DEF Spec

(* All variables keep their types. *)
THEOREM TypeCorrect == Spec => []TypeOK
<1>1. IInv => TypeOK
  BY DEF IInv
<1> QED BY <1>1, Invariance, PTL

(* The table and the list hold the same entries, and each entry counts the *)
(* cache's reference and one per handle out: Unref frees an entry exactly  *)
(* when the cache and the clients have let go of it.                       *)
THEOREM RefsCounted == Spec => []RefsExact
<1>1. IInv => RefsExact
  BY ZenonT(60) DEF IInv, Sound, RefsExact
<1> QED BY <1>1, Invariance, PTL

(* No handle, table slot, list link or cursor of Prune leads to an entry   *)
(* that is freed.                                                          *)
THEOREM HandlesStayValid == Spec => []NoDanglingHandle
<1>1. IInv => NoDanglingHandle
  <2> SUFFICES ASSUME IInv, NEW h \in Handle,
                      pins[h] > 0 \/ InTable(h) \/ OnLRU(h) \/ \E t \in Thread : cursor[t] = h
               PROVE  Allocated(h)
    BY ZenonT(60) DEF NoDanglingHandle
  <2>1. CASE pins[h] > 0 \/ InTable(h) \/ OnLRU(h)
    BY <2>1, EntryFacts, ZenonT(60)
  <2>2. ASSUME NEW t \in Thread, cursor[t] = h
        PROVE  Allocated(h)
    <3>1. cursor[t] # NoHandle
      BY <2>2, ConstAssumption
    <3>2. pc[t] = "prune"
      BY <3>1, ZenonT(60) DEF IInv, Control
    <3>3. PICK p \in 1..Len(lru) : cursor[t] = lru[p]
      BY <3>1, <3>2, CursorPlace, ZenonT(60)
    <3>4. OnLRU(h)
      BY <2>2, <3>3, ZenonT(60) DEF OnLRU, Contains
    <3> QED BY <3>4, EntryFacts, ZenonT(60)
  <2> QED BY <2>1, <2>2
<1> QED BY <1>1, Invariance, PTL

-----------------------------------------------------------------------------
(* Prune and the capacity                                                  *)

(* When Prune's cursor is past the end, all that is left is pinned. *)
LEMMA SweptAll ==
  ASSUME IInv, NEW t \in Thread, pc[t] = "prune", cursor[t] = NoHandle,
         NEW h \in Handle, InTable(h)
  PROVE  pins[h] > 0
<1>1. PICK p \in 1..(Len(lru) + 1) :
        /\ cursor[t] = At(lru, p) /\ \A i \in 1..(p - 1) : pins[lru[i]] > 0
  BY ZenonT(60) DEF IInv, Swept
<1>2. lru \in Seq(Handle)
  BY ZenonT(60) DEF IInv, TypeOK
<1>3. ~(p <= Len(lru))
  <2>1. p <= Len(lru) => lru[p] \in Handle
    BY <1>2
  <2> QED BY <1>1, <2>1, ConstAssumption, ZenonT(60) DEF At
<1>4. OnLRU(h)
  BY EntryFacts, ZenonT(60)
<1>5. PICK i \in 1..Len(lru) : lru[i] = h
  BY <1>4, ZenonT(60) DEF OnLRU, Contains
<1>6. i \in 1..(p - 1)
  BY <1>2, <1>3
<1> QED BY <1>1, <1>5, <1>6, ZenonT(60)

(* Only the thread in Prune takes a step while it is there. *)
LEMMA PruneAlone ==
  ASSUME IInv, NEW t \in Thread, pc[t] = "prune", [Next]_vars
  PROVE  PruneStep(t) \/ UNCHANGED table
<1>1. mutex = t /\ mutex # NoThread
  BY ConstAssumption, ZenonT(60) DEF IInv, Control
<1>2. CASE UNCHANGED vars
  BY <1>2, ZenonT(60) DEF vars, shardVars
<1>3. ~Destroy
  BY <1>1, ZenonT(60) DEF Destroy
<1>4. ASSUME NEW u \in Thread, Call(u) PROVE FALSE
  BY <1>1, <1>4, ZenonT(60)
     DEF Call, InsertBegin, Lookup, Erase, Release, PruneBegin, MayCall
<1>5. ASSUME NEW u \in Thread, Continue(u) PROVE PruneStep(t) \/ UNCHANGED table
  <2>1. CASE u = t
    BY <1>5, <2>1, ZenonT(60)
       DEF Continue, InsertEvict, InsertEnd, PruneEnd, shardVars
  <2>2. CASE u # t
    BY <1>1, <1>5, <2>2, ZenonT(60)
       DEF Continue, InsertEvict, InsertEnd, PruneStep, PruneEnd
  <2> QED BY <2>1, <2>2
<1> QED BY <1>2, <1>3, <1>4, <1>5, ZenonT(60) DEF Next

(* Prune takes no entry with a handle out from the cache, and when it ends *)
(* nothing else is left in it.                                             *)
THEOREM PruneTakesTheRest == Spec => PruneExact
<1>1. ASSUME IInv, [Next]_vars, NEW t \in Thread, pc[t] = "prune",
             NEW h \in Handle, InTable(h), pins[h] > 0
      PROVE  InTable(h)'
  <2>1. CASE UNCHANGED table
    BY <1>1, <2>1, ZenonT(60) DEF InTable
  <2>2. CASE PruneStep(t)
    <3>1. PICK e \in Handle :
            IF Prunable(e) THEN Only(e) /\ pins[e] = 0
                           ELSE UNCHANGED <<entry, table, lru, usage>>
      BY <1>1, <2>2, PruneStepInv, ZenonT(60)
    <3>2. CASE Prunable(e)
      <4>1. h # e
        BY <1>1, <3>1, <3>2
      <4> QED BY <1>1, <3>1, <3>2, <4>1, ZenonT(60) DEF Only, Same
    <3>3. CASE ~Prunable(e)
      BY <1>1, <3>1, <3>3, ZenonT(60) DEF InTable
    <3> QED BY <3>2, <3>3
  <2> QED BY <1>1, <2>1, <2>2, PruneAlone, ZenonT(60)
<1>2. ASSUME IInv, NEW t \in Thread, PruneEnd(t), NEW h \in Handle, InTable(h)
      PROVE  pins[h] > 0
  BY <1>2, SweptAll, ZenonT(60) DEF PruneEnd
<1>3. IInv /\ [Next]_vars =>
        [\A t \in Thread :
           /\ pc[t] = "prune" =>
                \A h \in Handle : InTable(h) /\ pins[h] > 0 => InTable(h)'
           /\ PruneEnd(t) =>
                \A h \in Handle : InTable(h) => pins[h] > 0]_vars
  BY <1>1, <1>2, ZenonT(60)
<1> QED BY <1>3, Invariance, PTL DEF Spec, PruneExact

(* Except inside Insert, a shard over its capacity has an empty list. *)
Room ==
  (\A t \in Thread : pc[t] # "insert") /\ usage > capacity => lru = <<>>

(* A step outside Insert that does not raise the usage and lists nothing   *)
(* new in an empty list.                                                   *)
LEMMA RoomStays ==
  ASSUME IInv, IInv', Room, capacity' = capacity, usage' <= usage,
         lru = <<>> => lru' = <<>>,
         (\A t \in Thread : pc'[t] # "insert") => \A t \in Thread : pc[t] # "insert"
  PROVE  Room'
<1>1. usage \in Int /\ usage' \in Int /\ capacity \in Int
  BY ConstAssumption DEF IInv, TypeOK
<1>2. usage' > capacity' => usage > capacity
  BY <1>1
<1> QED BY <1>2, ZenonT(60) DEF Room

(* Losing a reference never raises the usage. *)
LEMMA UnrefUsage ==
  ASSUME IInv, NEW e \in Handle, Unreffed(e)
  PROVE  usage' <= usage
<1>1. Refund(e) \in Nat /\ usage \in Int /\ usage' = usage - Refund(e)
  BY RefundType, ZenonT(60) DEF Unreffed
<1> QED BY <1>1

(* A list with a member is not empty. *)
LEMMA ListedNotEmpty ==
  ASSUME NEW h, OnLRU(h)
  PROVE  lru # <<>>
BY EmptyList, ZenonT(60) DEF OnLRU

(* The loop of Insert makes room, and nothing else uses it up. *)
LEMMA NextRoom == IInv /\ IInv' /\ Room /\ [Next]_vars => Room'
<1> SUFFICES ASSUME IInv, IInv', Room, [Next]_vars PROVE Room'
  OBVIOUS
<1>1. usage \in Int /\ usage <= usage
  <2>1. usage \in Int
    BY ZenonT(60) DEF IInv, TypeOK
  <2> QED BY <2>1
<1>2. pc \in [Thread -> {"idle", "insert", "prune"}]
  BY ZenonT(60) DEF IInv, TypeOK
<1>3. CASE UNCHANGED vars
  BY <1>3, ZenonT(60) DEF vars, shardVars, Room
<1>4. CASE Destroy
  BY <1>4, DestroyInv, ZenonT(60) DEF Room
<1>5. ASSUME NEW t \in Thread, Continue(t) PROVE Room'
  <2>1. CASE InsertEvict(t)
    BY <2>1, ZenonT(60) DEF InsertEvict, Room
  <2>2. CASE InsertEnd(t)
    <3>1. ~MustEvict /\ UNCHANGED <<usage, capacity, lru>>
      BY <2>2, ZenonT(60) DEF InsertEnd, shardVars
    <3> QED BY <3>1, ZenonT(60) DEF MustEvict, Room
  <2>3. CASE PruneStep(t)
    <3>1. capacity' = capacity /\ pc' = pc
      BY <2>3, ZenonT(60) DEF PruneStep
    <3>2. PICK e \in Handle :
            OnLRU(e) /\ IF Prunable(e) THEN Unreffed(e)
                                       ELSE UNCHANGED <<entry, table, lru, usage>>
      BY <2>3, PruneStepInv, ZenonT(60)
    <3>3. usage' <= usage
      BY <1>1, <3>2, UnrefUsage, ZenonT(60)
    <3> QED BY <3>1, <3>2, <3>3, ListedNotEmpty, RoomStays, ZenonT(60)
  <2>4. CASE PruneEnd(t)
    <3>1. /\ pc[t] = "prune" /\ pc' = [pc EXCEPT ![t] = "idle"]
          /\ UNCHANGED <<usage, capacity, lru>>
      BY <2>4, ZenonT(60) DEF PruneEnd, shardVars
    <3>2. (\A u \in Thread : pc'[u] # "insert") => \A u \in Thread : pc[u] # "insert"
      BY <1>2, <3>1
    <3> QED BY <1>1, <3>1, <3>2, RoomStays, ZenonT(60)
  <2> QED BY <1>5, <2>1, <2>2, <2>3, <2>4, ZenonT(60) DEF Continue
<1>6. ASSUME NEW t \in Thread, Call(t) PROVE Room'
  <2>1. ASSUME NEW k \in Key, NEW c \in Charges, NEW e \in Handle,
               InsertBegin(t, k, c, e)
        PROVE  Room'
    <3>1. pc' = [pc EXCEPT ![t] = "insert"]
      BY <2>1, ZenonT(60) DEF InsertBegin
    <3>2. pc'[t] = "insert"
      BY <1>2, <3>1
    <3> QED BY <3>2, ZenonT(60) DEF Room
  <2>2. ASSUME NEW k \in Key, Lookup(t, k) PROVE Room'
    <3>1. UNCHANGED <<usage, capacity, pc>>
      BY <2>2, ZenonT(60) DEF Lookup
    <3>2. PICK e \in Handle : OnLRU(e)
      BY <2>2, LookupInv, ZenonT(60)
    <3> QED BY <1>1, <3>1, <3>2, ListedNotEmpty, RoomStays, ZenonT(60)
  <2>3. ASSUME NEW k \in Key, Erase(t, k) PROVE Room'
    <3>1. UNCHANGED <<capacity, pc>>
      BY <2>3, ZenonT(60) DEF Erase
    <3>2. PICK e \in Handle : OnLRU(e) /\ Unreffed(e)
      BY <2>3, EraseInv, ZenonT(60)
    <3> QED BY <3>1, <3>2, ListedNotEmpty, UnrefUsage, RoomStays, ZenonT(60)
  <2>4. ASSUME NEW e \in Handle, Release(t, e) PROVE Room'
    <3>1. UNCHANGED <<capacity, pc, lru>>
      BY <2>4, ZenonT(60) DEF Release
    <3>2. Unreffed(e)
      BY <2>4, ReleaseInv, ZenonT(60)
    <3> QED BY <3>1, <3>2, UnrefUsage, RoomStays, ZenonT(60)
  <2>5. CASE PruneBegin(t)
    <3>1. /\ pc[t] = "idle" /\ pc' = [pc EXCEPT ![t] = "prune"]
          /\ UNCHANGED <<usage, capacity, lru>>
      BY <2>5, ZenonT(60) DEF PruneBegin, MayCall, shardVars
    <3>2. (\A u \in Thread : pc'[u] # "insert") => \A u \in Thread : pc[u] # "insert"
      BY <1>2, <3>1
    <3> QED BY <1>1, <3>1, <3>2, RoomStays, ZenonT(60)
  <2> QED BY <1>6, <2>1, <2>2, <2>3, <2>4, <2>5, ZenonT(60) DEF Call
<1> QED BY <1>3, <1>4, <1>5, <1>6, ZenonT(60) DEF Next

(* A shard over its capacity with its mutex free has nothing left to       *)
(* evict.                                                                  *)
THEOREM CapacityRespected == Spec => []OverCapacity
<1>1. Init => Room
  BY ZenonT(60) DEF Init, Room
<1>2. IInv /\ Room => OverCapacity
  <2>1. IInv /\ mutex = NoThread => \A t \in Thread : pc[t] # "insert"
    BY ConstAssumption DEF IInv, Control
  <2> QED BY <2>1, ZenonT(60) DEF Room, OverCapacity
<1> QED BY <1>1, <1>2, Invariance, NextRoom, PTL DEF Spec

-----------------------------------------------------------------------------
(* The usage counter is exact                                              *)

Weight == [h \in Handle |-> IF Allocated(h) THEN entry[h].charge ELSE 0]

(* The usage is the sum of a weight of every address. *)
WeightFacts ==
  /\ Numbers(Weight, Handle)
  /\ \A h \in Handle : Weight[h] \in Nat
  /\ ChargeSum({h \in Handle : Allocated(h)}) = SumFunctionOnSet(Weight, Handle)

(* What is charged is what is allocated, so that the sum may be taken over *)
(* all addresses.                                                          *)
LEMMA Weights == IInv => WeightFacts
<1> SUFFICES ASSUME IInv PROVE WeightFacts
  OBVIOUS
<1> DEFINE T == {h \in Handle : Allocated(h)}
<1>1. \A h \in Handle : Allocated(h) => entry[h].charge \in Nat
  BY EntryFacts, ZenonT(60)
<1>2. \A h \in Handle : Weight[h] \in Nat
  BY <1>1 DEF Weight
<1>3. /\ T \subseteq Handle
      /\ \A h \in T : Charge[h] \in Int /\ Weight[h] = Charge[h]
      /\ \A h \in Handle \ T : Weight[h] = 0
  BY <1>1 DEF Weight, Charge
<1>4. Finite(Handle)
  BY HandleAssumption
<1> HIDE DEF T
<1>5. SumFunctionOnSet(Charge, T) = SumFunctionOnSet(Weight, Handle)
  BY <1>3, <1>4, TotalSupport
<1>6. Numbers(Weight, Handle)
  BY <1>2 DEF Numbers
<1> QED BY <1>2, <1>5, <1>6, ZenonT(60) DEF WeightFacts, ChargeSum, T

(* The same of the state after a step. *)
LEMMA WeightsNext == IInv' => WeightFacts'
  BY Weights, PTL

(* A step that concerns one entry and counts the change of its weight. *)
LEMMA UsageOne ==
  ASSUME IInv, IInv', UsageExact, NEW e \in Handle, Only(e),
         usage' = usage - Weight[e] + Weight'[e]
  PROVE  UsageExact'
<1>1. WeightFacts /\ WeightFacts' /\ Finite(Handle)
  BY Weights, WeightsNext, HandleAssumption, ZenonT(60)
<1>2. Agree(Weight, Weight', Handle \ {e})
  BY DEF Only, Same, Agree, Weight, Allocated
<1>3. SumFunctionOnSet(Weight', Handle)
        = SumFunctionOnSet(Weight, Handle) - Weight[e] + Weight'[e]
  BY <1>1, <1>2, ChangeOne, ZenonT(60) DEF WeightFacts
<1> QED BY <1>1, <1>3, ZenonT(60) DEF UsageExact, WeightFacts

(* A step that concerns two entries. *)
LEMMA UsageTwo ==
  ASSUME IInv, IInv', UsageExact, NEW e \in Handle, NEW f \in Handle, e # f,
         \A h \in Handle : h # e /\ h # f => Same(h),
         usage' = usage - Weight[e] + Weight'[e] - Weight[f] + Weight'[f]
  PROVE  UsageExact'
<1>1. WeightFacts /\ WeightFacts' /\ Finite(Handle)
  BY Weights, WeightsNext, HandleAssumption
<1>2. Agree(Weight, Weight', Handle \ {e, f})
  BY DEF Same, Agree, Weight, Allocated
<1>3. SumFunctionOnSet(Weight', Handle)
        = SumFunctionOnSet(Weight, Handle) - Weight[e] + Weight'[e] - Weight[f] + Weight'[f]
  BY <1>1, <1>2, ChangeTwo, ZenonT(60) DEF WeightFacts
<1> QED BY <1>1, <1>3, ZenonT(60) DEF UsageExact, WeightFacts

(* A step that concerns no entry. *)
LEMMA UsageNone ==
  ASSUME IInv, IInv', UsageExact, \A h \in Handle : Same(h), usage' = usage
  PROVE  UsageExact'
<1>1. WeightFacts /\ WeightFacts' /\ Finite(Handle)
  BY Weights, WeightsNext, HandleAssumption
<1>2. \A h \in Handle : Weight[h] \in Int /\ Weight'[h] = Weight[h]
  BY <1>1 DEF WeightFacts, Same, Weight, Allocated
<1>3. SumFunctionOnSet(Weight', Handle) = SumFunctionOnSet(Weight, Handle)
  BY <1>1, <1>2, TotalSame
<1> QED BY <1>1, <1>3, ZenonT(60) DEF UsageExact, WeightFacts

(* Unref takes its charge off the usage when it frees an entry. *)
LEMMA UnrefExact ==
  ASSUME IInv, IInv', UsageExact, NEW e \in Handle, Only(e), Unreffed(e)
  PROVE  UsageExact'
<1>1. /\ Allocated(e) /\ (Allocated(e)' <=> entry[e].refs # 1)
      /\ Allocated(e)' => entry'[e].charge = entry[e].charge
      /\ usage' = usage - Refund(e)
  BY ZenonT(60) DEF Unreffed
<1>2. entry[e].charge \in Nat /\ usage \in Int
  BY <1>1, EntryFacts, ZenonT(60) DEF IInv, TypeOK
<1>3. /\ Weight[e] = entry[e].charge
      /\ Weight'[e] = IF entry[e].refs = 1 THEN 0 ELSE entry[e].charge
      /\ Refund(e) = IF entry[e].refs = 1 THEN entry[e].charge ELSE 0
  BY <1>1 DEF Weight, Refund
<1>4. usage' = usage - Weight[e] + Weight'[e]
  BY <1>1, <1>2, <1>3
<1> QED BY <1>4, UsageOne, ZenonT(60)

(* Insert charges its entry and refunds the one it displaces. *)
LEMMA InsertExact ==
  ASSUME IInv, IInv', UsageExact, NEW t \in Thread, NEW k \in Key, NEW c \in Charges,
         NEW e \in Handle, NEW old \in Handle \cup {NoHandle}, Entered(t, k, c, e, old)
  PROVE  UsageExact'
<1>1. /\ ~Allocated(e) /\ Allocated(e)' /\ entry'[e].charge = c
      /\ \A h \in Handle : h # e /\ h # old => Same(h)
      /\ old = NoHandle => usage' = usage + c
      /\ old # NoHandle =>
           /\ old # e /\ Allocated(old)
           /\ Allocated(old)' <=> entry[old].refs # 1
           /\ Allocated(old)' => entry'[old].charge = entry[old].charge
           /\ usage' = usage + c - Refund(old)
  BY ZenonT(60) DEF Entered
<1>2. Weight[e] = 0 /\ Weight'[e] = c
  BY <1>1, ZenonT(60) DEF Weight
<1>3. c \in Nat /\ usage \in Int
  BY ConstAssumption DEF IInv, TypeOK
<1>4. CASE old = NoHandle
  <2>1. Only(e)
    BY <1>1, <1>4, ConstAssumption, ZenonT(60) DEF Only
  <2>2. usage' = usage - Weight[e] + Weight'[e]
    BY <1>1, <1>2, <1>3, <1>4
  <2> QED BY <2>1, <2>2, UsageOne, ZenonT(60)
<1>5. CASE old # NoHandle
  <2>1. old \in Handle /\ old # e
    BY <1>1, <1>5, ZenonT(60)
  <2>2. entry[old].charge \in Nat
    BY <1>1, <1>5, <2>1, EntryFacts, ZenonT(60)
  <2>3. /\ Weight[old] = entry[old].charge
        /\ Weight'[old] = IF entry[old].refs = 1 THEN 0 ELSE entry[old].charge
        /\ Refund(old) = IF entry[old].refs = 1 THEN entry[old].charge ELSE 0
    BY <1>1, <1>5, <2>1, ZenonT(60) DEF Weight, Refund
  <2>4. usage' = usage - Weight[e] + Weight'[e] - Weight[old] + Weight'[old]
    BY <1>1, <1>2, <1>3, <1>5, <2>2, <2>3
  <2> QED BY <1>1, <2>1, <2>4, UsageTwo, ZenonT(60)
<1> QED BY <1>4, <1>5

(* An empty heap uses nothing. *)
LEMMA EmptyExact ==
  ASSUME \A h \in Handle : ~Allocated(h), usage = 0
  PROVE  UsageExact
<1>1. {h \in Handle : Allocated(h)} = {}
  OBVIOUS
<1> QED BY <1>1, TotalEmpty, ZenonT(60) DEF UsageExact, ChargeSum

(* The same of the state after a step. *)
LEMMA EmptyExactNext ==
  (\A h \in Handle : ~Allocated(h))' /\ (usage = 0)' => UsageExact'
<1>1. (\A h \in Handle : ~Allocated(h)) /\ usage = 0 => UsageExact
  BY EmptyExact, ZenonT(60)
<1> QED BY <1>1, PTL

(* Every step counts what it allocates and frees. *)
LEMMA NextUsage == IInv /\ IInv' /\ UsageExact /\ [Next]_vars => UsageExact'
<1> SUFFICES ASSUME IInv, IInv', UsageExact, [Next]_vars PROVE UsageExact'
  OBVIOUS
<1>1. CASE UNCHANGED vars
  BY <1>1, ZenonT(60) DEF vars, shardVars, UsageExact, ChargeSum, Charge, Allocated
<1>2. CASE Destroy
  <2>1. (\A h \in Handle : ~Allocated(h)') /\ usage' = 0
    BY <1>2, DestroyInv, ZenonT(60)
  <2> QED BY <2>1, EmptyExactNext, ZenonT(60)
<1>3. ASSUME NEW t \in Thread, Continue(t) PROVE UsageExact'
  <2>1. CASE InsertEvict(t)
    <3>1. PICK e \in Handle : Only(e) /\ Unreffed(e)
      BY <2>1, InsertEvictInv, ZenonT(60)
    <3> QED BY <3>1, UnrefExact, ZenonT(60)
  <2>2. CASE InsertEnd(t)
    BY <2>2, InsertEndInv, UsageNone, ZenonT(60) DEF InsertEnd, shardVars
  <2>3. CASE PruneStep(t)
    <3>1. PICK e \in Handle :
            IF Prunable(e) THEN Only(e) /\ Unreffed(e)
                           ELSE UNCHANGED <<entry, table, lru, usage>>
      BY <2>3, PruneStepInv, ZenonT(60)
    <3>2. CASE Prunable(e)
      BY <3>1, <3>2, UnrefExact, ZenonT(60)
    <3>3. CASE ~Prunable(e)
      BY <3>1, <3>3, ZenonT(60) DEF UsageExact, ChargeSum, Charge, Allocated
    <3> QED BY <3>2, <3>3
  <2>4. CASE PruneEnd(t)
    BY <2>4, PruneEndInv, UsageNone, ZenonT(60) DEF PruneEnd, shardVars
  <2> QED BY <1>3, <2>1, <2>2, <2>3, <2>4, ZenonT(60) DEF Continue
<1>4. ASSUME NEW t \in Thread, Call(t) PROVE UsageExact'
  <2>1. ASSUME NEW k \in Key, NEW c \in Charges, NEW e \in Handle,
               InsertBegin(t, k, c, e)
        PROVE  UsageExact'
    <3>1. PICK old \in Handle \cup {NoHandle} : old = table[k]
      BY ZenonT(60) DEF IInv, TypeOK
    <3>2. Entered(t, k, c, e, old)
      BY <2>1, <3>1, InsertBeginInv, ZenonT(60)
    <3> QED BY <3>2, InsertExact, ZenonT(60)
  <2>2. ASSUME NEW k \in Key, Lookup(t, k) PROVE UsageExact'
    <3>1. PICK e \in Handle : /\ Only(e) /\ Allocated(e) /\ Allocated(e)'
                              /\ entry'[e].charge = entry[e].charge
      BY <2>2, LookupInv, ZenonT(60)
    <3>2. Weight'[e] = Weight[e]
      BY <3>1, ZenonT(60) DEF Weight
    <3>3. usage' = usage
      BY <2>2, ZenonT(60) DEF Lookup
    <3>4. usage \in Int /\ Weight[e] \in Int
      BY Weights, ZenonT(60) DEF IInv, TypeOK, WeightFacts, Numbers
    <3>5. usage' = usage - Weight[e] + Weight'[e]
      BY <3>2, <3>3, <3>4
    <3> QED BY <3>1, <3>5, UsageOne, ZenonT(60)
  <2>3. ASSUME NEW k \in Key, Erase(t, k) PROVE UsageExact'
    <3>1. PICK e \in Handle : Only(e) /\ Unreffed(e)
      BY <2>3, EraseInv, ZenonT(60)
    <3> QED BY <3>1, UnrefExact, ZenonT(60)
  <2>4. ASSUME NEW e \in Handle, Release(t, e) PROVE UsageExact'
    BY <2>4, ReleaseInv, UnrefExact, ZenonT(60)
  <2>5. CASE PruneBegin(t)
    BY <2>5, PruneBeginInv, UsageNone, ZenonT(60) DEF PruneBegin, shardVars
  <2> QED BY <1>4, <2>1, <2>2, <2>3, <2>4, <2>5, ZenonT(60) DEF Call
<1> QED BY <1>1, <1>2, <1>3, <1>4, ZenonT(60) DEF Next

(* usage_ is the sum of the charges of all entries not yet freed, pinned   *)
(* ones that left the cache included.                                      *)
THEOREM UsageIsExact == Spec => []UsageExact
<1>1. Init => UsageExact
  <2>1. Init => (\A h \in Handle : ~Allocated(h)) /\ usage = 0
    BY DEF Init, Allocated
  <2> QED BY <2>1, EmptyExact, ZenonT(60)
<1> QED BY <1>1, Invariance, NextUsage, PTL DEF Spec

(* usage_ as an unsigned number. *)
CounterFits == usage \in Nat

(* The unsigned counter usage_ never wraps below zero. *)
THEOREM CounterNeverWraps == Spec => []CounterFits
<1>1. IInv /\ UsageExact => CounterFits
  <2> SUFFICES ASSUME IInv, UsageExact PROVE usage \in Nat
    BY DEF CounterFits
  <2>1. WeightFacts /\ Finite(Handle)
    BY Weights, HandleAssumption
  <2>2. SumFunctionOnSet(Weight, Handle) \in Nat
    BY <2>1, TotalNat, ZenonT(60) DEF WeightFacts
  <2> QED BY <2>1, <2>2, ZenonT(60) DEF WeightFacts, UsageExact
<1> QED BY <1>1, Invariance, UsageIsExact, PTL

-----------------------------------------------------------------------------
(* The shard implements the contract                                       *)

(* A step that concerns one entry changes the state of that entry only. *)
LEMMA StateOne ==
  ASSUME NEW e \in Handle, Only(e)
  PROVE  States' = [States EXCEPT ![e] = IF Allocated(e)' THEN "live" ELSE "none"]
<1>1. \A h \in Handle : h # e => States'[h] = States[h]
  BY DEF Only, Same, States, Allocated
<1>2. States'[e] = IF Allocated(e)' THEN "live" ELSE "none"
  BY ZenonT(60) DEF States
<1>3. States = [h \in Handle |-> States[h]] /\ States' = [h \in Handle |-> States'[h]]
  BY DEF States
<1> QED BY <1>1, <1>2, <1>3

(* An entry that is taken out of the cache is deleted at once, or stays    *)
(* for those who hold it: the cache drops it.                              *)
LEMMA DropStep ==
  ASSUME IInv, NEW k \in Key, NEW e \in Handle, e = table[k], Only(e), Unreffed(e),
         table' = [table EXCEPT ![k] = NoHandle], pins' = pins
  PROVE  ContractOf!ContractNext
<1> DEFINE s == IF Allocated(e)' THEN "live" ELSE "none"
<1>1. States' = [States EXCEPT ![e] = s]
  BY StateOne, ZenonT(60)
<1>2. /\ entry[e].refs = pins[e] + (IF InTable(e) THEN 1 ELSE 0)
      /\ pins[e] \in Nat /\ InTable(e)
  BY EntryFacts, ZenonT(60) DEF InTable
<1>3. Allocated(e)' <=> pins[e] > 0
  <2>1. Allocated(e)' <=> entry[e].refs # 1
    BY ZenonT(60) DEF Unreffed
  <2>2. entry[e].refs # 1 <=> pins[e] > 0
    BY <1>2
  <2> QED BY <2>1, <2>2, ZenonT(60)
<1>4. s \in {"live", "dying", "none"} /\ ContractOf!Retire(pins[e], s)
  BY <1>3 DEF ContractOf!Retire
<1> HIDE DEF s
<1>5. ContractOf!CDrop(k)
  BY <1>1, <1>4, ConstAssumption, ZenonT(60) DEF ContractOf!CDrop
<1> QED BY <1>5, ZenonT(60) DEF ContractOf!ContractNext

(* The same when the entry is given by its place on the list. *)
LEMMA EvictStep ==
  ASSUME IInv, NEW e \in Handle, OnLRU(e), Evict(e), Only(e), Unreffed(e), pins' = pins
  PROVE  ContractOf!ContractNext
<1>1. InTable(e) /\ entry[e].key \in Key /\ table[entry[e].key] = e
  BY EntryFacts, ZenonT(60)
<1>2. PICK k \in Key : k = entry[e].key /\ e = table[k]
  BY <1>1, ZenonT(60)
<1>3. table' = [table EXCEPT ![k] = NoHandle]
  BY <1>2, ZenonT(60) DEF Evict
<1> QED BY <1>2, <1>3, DropStep, ZenonT(60)

(* Insert caches its entry and displaces the one cached before. *)
LEMMA InsertStep ==
  ASSUME IInv, NEW t \in Thread, NEW k \in Key, NEW c \in Charges, NEW e \in Handle,
         NEW old \in Handle \cup {NoHandle}, old = table[k], Entered(t, k, c, e, old)
  PROVE  ContractOf!ContractNext
<1>1. /\ ~Allocated(e) /\ Allocated(e)'
      /\ table' = [table EXCEPT ![k] = e]
      /\ pins' = [pins EXCEPT ![e] = 1]
      /\ \A h \in Handle : h # e /\ h # old => Same(h)
      /\ old # NoHandle => /\ old # e /\ InTable(old)
                           /\ Allocated(old)' <=> entry[old].refs # 1
  BY ZenonT(60) DEF Entered
<1>2. States[e] = "none" /\ States'[e] = "live"
  BY <1>1, ZenonT(60) DEF States
<1>3. \A h \in Handle : h # e /\ h # old => States'[h] = States[h]
  BY <1>1 DEF Same, States, Allocated
<1>4. States = [h \in Handle |-> States[h]] /\ States' = [h \in Handle |-> States'[h]]
  BY DEF States
<1>5. CASE old = NoHandle
  <2>1. States' = [States EXCEPT ![e] = "live"]
    BY <1>2, <1>3, <1>4, <1>5, ConstAssumption
  <2>2. ContractOf!CInsert(k, e, 1)
    BY <1>1, <1>2, <1>5, <2>1, ZenonT(60) DEF ContractOf!CInsert
  <2> QED BY <2>2, ZenonT(60) DEF ContractOf!ContractNext
<1>6. CASE old # NoHandle
  <2> DEFINE s == IF Allocated(old)' THEN "live" ELSE "none"
  <2>1. old \in Handle /\ old # e
    BY <1>1, <1>6, ZenonT(60)
  <2>2. entry[old].refs = pins[old] + 1 /\ pins[old] \in Nat
    BY <1>1, <1>6, <2>1, EntryFacts, ZenonT(60)
  <2>3. Allocated(old)' <=> pins[old] > 0
    <3>1. entry[old].refs # 1 <=> pins[old] > 0
      BY <2>2
    <3> QED BY <1>1, <1>6, <3>1, ZenonT(60)
  <2>4. s \in {"live", "dying", "none"} /\ ContractOf!Retire(pins[old], s)
    BY <2>3 DEF ContractOf!Retire
  <2>5. States'[old] = s
    BY <2>1, ZenonT(60) DEF States
  <2> HIDE DEF s
  <2>6. States' = [States EXCEPT ![e] = "live", ![old] = s]
    BY <1>2, <1>3, <1>4, <2>1, <2>5
  <2>7. ContractOf!CInsert(k, e, 1)
    BY <1>1, <1>2, <1>6, <2>4, <2>6, ZenonT(60) DEF ContractOf!CInsert
  <2> QED BY <2>7, ZenonT(60) DEF ContractOf!ContractNext
<1> QED BY <1>5, <1>6

(* A Lookup that finds an entry hands out a handle to it. *)
LEMMA LookupStep ==
  ASSUME IInv, NEW t \in Thread, NEW k \in Key, Lookup(t, k)
  PROVE  ContractOf!ContractNext
<1>1. PICK e \in Handle : e = table[k] /\ Only(e) /\ Allocated(e) /\ Allocated(e)'
  BY LookupInv, ZenonT(60)
<1>2. States' = States
  <2>1. States' = [States EXCEPT ![e] = "live"]
    BY <1>1, StateOne, ZenonT(60)
  <2> QED BY <1>1, <2>1, ZenonT(60) DEF States
<1>3. table' = table /\ pins' = [pins EXCEPT ![table[k]] = @ + 1]
  BY ZenonT(60) DEF Lookup
<1>4. ContractOf!CLookup(k)
  BY <1>1, <1>2, <1>3, ConstAssumption, ZenonT(60) DEF ContractOf!CLookup
<1> QED BY <1>4, ZenonT(60) DEF ContractOf!ContractNext

(* A Release gives a handle back; the last one deletes an entry that is    *)
(* not cached.                                                             *)
LEMMA ReleaseStep ==
  ASSUME IInv, NEW t \in Thread, NEW e \in Handle, Release(t, e)
  PROVE  ContractOf!ContractNext
<1>1. /\ Only(e) /\ Unreffed(e)
      /\ pins[e] > 1 \/ InTable(e) <=> entry[e].refs # 1
  BY ReleaseInv, ZenonT(60)
<1>2. /\ pins[e] > 0 /\ table' = table
      /\ pins' = [pins EXCEPT ![e] = @ - 1]
  BY ZenonT(60) DEF Release
<1>3. pins[e] \in Nat /\ table \in [Key -> Handle \cup {NoHandle}]
  BY ZenonT(60) DEF IInv, TypeOK
<1>4. CASE Allocated(e)'
  <2>1. pins[e] > 1 \/ InTable(e)
    BY <1>1, <1>4, ZenonT(60) DEF Unreffed
  <2>2. States' = States
    <3>1. States' = [States EXCEPT ![e] = "live"]
      BY <1>1, <1>4, StateOne, ZenonT(60)
    <3> QED BY <1>1, <3>1, ZenonT(60) DEF States, Unreffed
  <2>3. ContractOf!CRelease(e)
    BY <1>2, <2>1, <2>2, ZenonT(60)
       DEF ContractOf!CRelease, ContractOf!Cached, InTable
  <2> QED BY <2>3, ZenonT(60) DEF ContractOf!ContractNext
<1>5. CASE ~Allocated(e)'
  <2>1. ~(pins[e] > 1) /\ ~InTable(e)
    BY <1>1, <1>5, ZenonT(60) DEF Unreffed
  <2>2. pins[e] = 1
    BY <1>2, <1>3, <2>1
  <2>3. States' = [States EXCEPT ![e] = "none"]
    BY <1>1, <1>5, StateOne, ZenonT(60)
  <2>4. table' = [k \in Key |-> IF table[k] = e THEN NoHandle ELSE table[k]]
    <3>1. \A k \in Key : table[k] # e
      BY <2>1, ZenonT(60) DEF InTable
    <3> QED BY <1>2, <1>3, <3>1, ZenonT(60)
  <2>5. ContractOf!CRelease(e)
    BY <1>2, <2>2, <2>3, <2>4, ZenonT(60) DEF ContractOf!CRelease
  <2> QED BY <2>5, ZenonT(60) DEF ContractOf!ContractNext
<1> QED BY <1>4, <1>5

(* The destructor leaves nothing behind. *)
LEMMA DestroyStep ==
  ASSUME IInv, Destroy
  PROVE  ContractOf!ContractNext
<1>1. \A h \in Handle : ~Allocated(h)'
  BY DestroyInv, ZenonT(60)
<1>2. States' = [h \in Handle |-> "none"] /\ \A h \in Handle : States[h] # "dying"
  BY <1>1 DEF States
<1>3. ContractOf!CDestroy
  BY <1>2, ZenonT(60) DEF ContractOf!CDestroy, Destroy
<1> QED BY <1>3, ZenonT(60) DEF ContractOf!ContractNext

(* A step that leaves the heap alone changes no state. *)
LEMMA StateFrame ==
  ASSUME UNCHANGED <<entry, table, pins>>
  PROVE  UNCHANGED <<table, pins, States>>
BY ZenonT(60) DEF States, Allocated

(* Every step of the shard is a step of the contract or leaves what the    *)
(* clients see unchanged.                                                  *)
LEMMA NextContract ==
  ASSUME IInv, [Next]_vars
  PROVE  ContractOf!ContractNext \/ UNCHANGED <<table, pins, States>>
<1>1. CASE UNCHANGED vars
  BY <1>1, StateFrame, ZenonT(60) DEF vars, shardVars
<1>2. CASE Destroy
  BY <1>2, DestroyStep, ZenonT(60)
<1>3. ASSUME NEW t \in Thread, Continue(t)
      PROVE  ContractOf!ContractNext \/ UNCHANGED <<table, pins, States>>
  <2>1. CASE InsertEvict(t)
    <3>1. PICK e \in Handle : e = Head(lru) /\ OnLRU(e) /\ Only(e) /\ Unreffed(e)
      BY <2>1, InsertEvictInv, ZenonT(60)
    <3>2. Evict(e) /\ pins' = pins
      BY <2>1, <3>1, ZenonT(60) DEF InsertEvict
    <3> QED BY <3>1, <3>2, EvictStep, ZenonT(60)
  <2>2. CASE InsertEnd(t)
    BY <2>2, StateFrame, ZenonT(60) DEF InsertEnd, shardVars
  <2>3. CASE PruneStep(t)
    <3>1. PICK e \in Handle :
            /\ OnLRU(e)
            /\ IF Prunable(e) THEN Evict(e) /\ Only(e) /\ Unreffed(e)
                              ELSE UNCHANGED <<entry, table, lru, usage>>
      BY <2>3, PruneStepInv, ZenonT(60)
    <3>2. pins' = pins
      BY <2>3, ZenonT(60) DEF PruneStep
    <3>3. CASE Prunable(e)
      BY <3>1, <3>2, <3>3, EvictStep, ZenonT(60)
    <3>4. CASE ~Prunable(e)
      BY <3>1, <3>2, <3>4, StateFrame, ZenonT(60)
    <3> QED BY <3>3, <3>4
  <2>4. CASE PruneEnd(t)
    BY <2>4, StateFrame, ZenonT(60) DEF PruneEnd, shardVars
  <2> QED BY <1>3, <2>1, <2>2, <2>3, <2>4, ZenonT(60) DEF Continue
<1>4. ASSUME NEW t \in Thread, Call(t)
      PROVE  ContractOf!ContractNext \/ UNCHANGED <<table, pins, States>>
  <2>1. ASSUME NEW k \in Key, NEW c \in Charges, NEW e \in Handle,
               InsertBegin(t, k, c, e)
        PROVE  ContractOf!ContractNext
    <3>1. PICK old \in Handle \cup {NoHandle} : old = table[k]
      BY ZenonT(60) DEF IInv, TypeOK
    <3>2. Entered(t, k, c, e, old)
      BY <2>1, <3>1, InsertBeginInv, ZenonT(60)
    <3> QED BY <3>1, <3>2, InsertStep, ZenonT(60)
  <2>2. ASSUME NEW k \in Key, Erase(t, k) PROVE ContractOf!ContractNext
    <3>1. PICK e \in Handle : /\ e = table[k] /\ Only(e) /\ Unreffed(e)
                              /\ table' = [table EXCEPT ![k] = NoHandle]
      BY <2>2, EraseInv, ZenonT(60)
    <3>2. pins' = pins
      BY <2>2, ZenonT(60) DEF Erase
    <3> QED BY <3>1, <3>2, DropStep, ZenonT(60)
  <2>3. CASE PruneBegin(t)
    BY <2>3, StateFrame, ZenonT(60) DEF PruneBegin, shardVars
  <2> QED BY <1>4, <2>1, <2>2, <2>3, LookupStep, ReleaseStep, ZenonT(60) DEF Call
<1> QED BY <1>1, <1>2, <1>3, <1>4, ZenonT(60) DEF Next

(* Whatever the interleaving of the clients and the two loops, a shard     *)
(* implements CacheContract: an entry stays as it is while it is cached or *)
(* held, and is deleted once, when it is neither.                          *)
THEOREM ContractKept == Spec => KeepsContract
<1>1. Init => ContractOf!ContractInit
  <2>1. Init => States = [h \in Handle |-> "none"]
    BY DEF Init, States, Allocated
  <2> QED BY <2>1, ZenonT(60) DEF Init, ContractOf!ContractInit
<1>2. IInv /\ [Next]_vars => [ContractOf!ContractNext]_(ContractOf!contractVars)
  BY NextContract, ZenonT(60) DEF ContractOf!contractVars
<1> QED BY <1>1, <1>2, Invariance, PTL DEF Spec, KeepsContract, ContractOf!Contract
=============================================================================
