------------------------------- MODULE KeyMap -------------------------------
(***************************************************************************)
(* What HandleTable promises to the LRU caches: a map from keys to handles *)
(* whose calls return the handle the key had before.                       *)
(***************************************************************************)
CONSTANTS Key, Version, Null

(* A handle has a key; two versions of it are two allocations. *)
Handle == Key \X Version
KeyOf(h) == h[1]

VARIABLES map,     \* the handle of each key, or Null
          result   \* what the last call returned

Init == map = [k \in Key |-> Null] /\ result = Null

Insert(h) ==
  /\ result' = map[KeyOf(h)]
  /\ map' = [map EXCEPT ![KeyOf(h)] = h]

Remove(k) ==
  /\ result' = map[k]
  /\ map' = [map EXCEPT ![k] = Null]

Lookup(k) == result' = map[k] /\ UNCHANGED map

Next ==
  \/ \E h \in Handle : Insert(h)
  \/ \E k \in Key : Remove(k) \/ Lookup(k)

Spec == Init /\ [][Next]_<<map, result>>
=============================================================================
