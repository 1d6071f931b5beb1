----------------------------- MODULE HandleTable -----------------------------
(***************************************************************************)
(* The hash table under the LRU caches of LevelDB and of RocksDB (class    *)
(* HandleTable in the cache.cc of each).  The two differ in the length of  *)
(* the first array and in the room that Resize leaves; a behaviour is one  *)
(* of either.                                                              *)
(*                                                                         *)
(* A chain of next_hash pointers is a sequence, and the slot that          *)
(* FindPointer returns is a position in it, the one after its last handle  *)
(* when the key is not there.                                              *)
(***************************************************************************)
EXTENDS Integers, Sequences

Ext == INSTANCE SequencesExt
Sets == INSTANCE FiniteSetsExt

CONSTANTS Key, Version, Null,
          Hash,        \* the hash of each key
          Tables       \* first length and room of LevelDB's and RocksDB's

ASSUME ConstAssumption ==
  /\ \A k \in Key : k \in DOMAIN Hash /\ Hash[k] \in Nat
  /\ \A t \in Tables : /\ \E b \in 0 .. 4 : t.minLength = 2 ^ b
                       /\ t.room \in {2, 3}   \* slots per two elements

VARIABLES table,   \* which of the two tables this is
          list, length, elems,
          result   \* what the last call returned

vars == <<table, list, length, elems, result>>

Handle == Key \X Version
KeyOf(h) == h[1]

(* hash & (length - 1), for a length that is a power of two. *)
Bucket(k, len) == Hash[k] % len

Init ==
  /\ table \in Tables
  /\ length = table.minLength
  /\ list = [b \in 0 .. length - 1 |-> <<>>]
  /\ elems = 0
  /\ result = Null

-----------------------------------------------------------------------------

Chain(k) == list[Bucket(k, length)]

Matches(h, k) == Hash[KeyOf(h)] = Hash[k] /\ KeyOf(h) = k

FindPointer(k) ==
  LET found == {p \in DOMAIN Chain(k) : Matches(Chain(k)[p], k)}
  IN IF found = {} THEN Len(Chain(k)) + 1 ELSE Sets!Min(found)

(* What the slot points to. *)
At(k, p) == IF p \in DOMAIN Chain(k) THEN Chain(k)[p] ELSE Null

(* A bound on the number of times an array's length doubles. *)
MaxDoublings == 20

Lengths == {table.minLength * 2 ^ d : d \in 0 .. MaxDoublings}

(* The handles of the old array in the order in which Resize moves them. *)
Moved(buckets, len) == Ext!FlattenSeq([n \in 1 .. len |-> buckets[n - 1]])

(* Mutant of Rehash: the mask of the old array is used. *)
RehashOldMask(buckets, len, newLen) ==
  [b \in 0 .. newLen - 1 |->
     Ext!Reverse(SelectSeq(Moved(buckets, len),
                           LAMBDA h : Bucket(KeyOf(h), len) = b))]

(* Every handle is pushed to the front of its new chain. *)
Rehash(buckets, len, newLen) ==
  [b \in 0 .. newLen - 1 |->
     Ext!Reverse(SelectSeq(Moved(buckets, len),
                           LAMBDA h : Bucket(KeyOf(h), newLen) = b))]

NewLength(n) == Sets!Min({len \in Lengths : 2 * len >= table.room * n})

(* Mutant of MustResize: the array grows one element too late. *)
MustResizeLate(n) == n > length + 1

MustResize(n) == n > length

(* h takes the slot and the rest of the chain from the handle it replaces; *)
(* a new element may make the array grow.                                  *)
Insert(h) ==
  LET k == KeyOf(h)
      p == FindPointer(k)
      old == At(k, p)
      chain == IF old = Null THEN Append(Chain(k), h)
               ELSE [Chain(k) EXCEPT ![p] = h]
      linked == [list EXCEPT ![Bucket(k, length)] = chain]
      n == IF old = Null THEN elems + 1 ELSE elems
  IN /\ elems' = n
     /\ IF old = Null /\ MustResize(n)
        THEN /\ length' = NewLength(n)
             /\ list' = Rehash(linked, length, NewLength(n))
        ELSE /\ list' = linked
             /\ UNCHANGED length
     /\ result' = old
     /\ UNCHANGED table

(* Mutant of Unlinked: the rest of the chain goes with the handle. *)
UnlinkedRest(chain, p) == SubSeq(chain, 1, p - 1)

Unlinked(chain, p) == Ext!RemoveAt(chain, p)

Remove(k) ==
  LET p == FindPointer(k)
      old == At(k, p)
  IN /\ IF old = Null THEN UNCHANGED <<list, elems>>
        ELSE /\ list' = [list EXCEPT ![Bucket(k, length)] = Unlinked(@, p)]
             /\ elems' = elems - 1
     /\ result' = old
     /\ UNCHANGED <<table, length>>

Lookup(k) ==
  /\ result' = At(k, FindPointer(k))
  /\ UNCHANGED <<table, list, length, elems>>

-----------------------------------------------------------------------------

Handles == {h \in Handle : \E b \in DOMAIN list : Ext!Contains(list[b], h)}

(* The caches insert handles that they have just allocated. *)
Next ==
  \/ \E h \in Handle \ Handles : Insert(h)
  \/ \E k \in Key : Remove(k) \/ Lookup(k)

Spec == Init /\ [][Next]_vars

-----------------------------------------------------------------------------
(* Properties                                                              *)

(* elems_ is the number of handles on the chains, as Resize asserts, and   *)
(* no array is over-full: the chains have one handle on average at most.   *)
ElemsExact ==
  /\ elems = Len(Moved(list, length))
  /\ elems <= length

(* Every handle is on the chain of its hash, where FindPointer looks, and  *)
(* no key has two, so also one on the far side of another is found.        *)
ChainsExact ==
  \A b \in DOMAIN list : \A p \in DOMAIN list[b] :
    LET k == KeyOf(list[b][p])
    IN Bucket(k, length) = b /\ FindPointer(k) = p

Abstract == INSTANCE KeyMap WITH map <- [k \in Key |-> At(k, FindPointer(k))]

(* Across collisions, replacements and growth of the array the table is a  *)
(* map: no call changes what is found for another key, and each call       *)
(* returns what its key had before.                                        *)
IsMap == Abstract!Spec
=============================================================================
