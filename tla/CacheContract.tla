---------------------------- MODULE CacheContract ----------------------------
(***************************************************************************)
(* What a cache of src/ds_algor/lruCache promises its clients, whatever    *)
(* its eviction policy, locking and memory management (the comments of     *)
(* cache.h, which both cache.cc files include): an entry stays as it is    *)
(* while it is cached or a client holds a handle to it, and its value is   *)
(* deleted once it is neither.                                             *)
(*                                                                         *)
(* An Entry is an insertion; it may be used again once it is deleted.      *)
(***************************************************************************)
EXTENDS Naturals

CONSTANTS Key, Entry, NoOne

VARIABLES map,    \* the entry cached for each key, or NoOne
          held,   \* handles the clients hold
          state   \* "none", "live", or "dying": waiting for its deleter

contractVars == <<map, held, state>>

ContractInit ==
  /\ map = [k \in Key |-> NoOne]
  /\ held = [e \in Entry |-> 0]
  /\ state = [e \in Entry |-> "none"]

Cached(m, e) == \E k \in Key : m[k] = e

(* The state s of an entry that leaves the map with n handles out: if      *)
(* nobody holds it, its deleter is due and runs in this step or later.     *)
Retire(n, s) ==
  IF n > 0 THEN s = "live" ELSE s \in {"dying", "none"}

(* Insert caches e for k; what was cached for k before is displaced. *)
CInsert(k, e, n) ==
  /\ state[e] = "none"
  /\ map' = [map EXCEPT ![k] = e]
  /\ held' = [held EXCEPT ![e] = n]
  /\ IF map[k] = NoOne
       THEN state' = [state EXCEPT ![e] = "live"]
       ELSE \E s \in {"live", "dying", "none"} :
              /\ Retire(held[map[k]], s)
              /\ state' = [state EXCEPT ![e] = "live", ![map[k]] = s]

(* An insertion the cache refuses and whose value it disposes of. *)
CRefuse(e) ==
  /\ state[e] = "none"
  /\ state' = [state EXCEPT ![e] = "dying"]
  /\ UNCHANGED <<map, held>>

(* The cache may drop any entry at any time, by its policy or by Erase. *)
CDrop(k) ==
  /\ map[k] # NoOne
  /\ map' = [map EXCEPT ![k] = NoOne]
  /\ \E s \in {"live", "dying", "none"} :
       /\ Retire(held[map[k]], s)
       /\ state' = [state EXCEPT ![map[k]] = s]
  /\ UNCHANGED held

CLookup(k) ==
  /\ map[k] # NoOne
  /\ held' = [held EXCEPT ![map[k]] = @ + 1]
  /\ UNCHANGED <<map, state>>

(* A handle is given back.  An entry nobody holds any more stays only if   *)
(* it is cached, and even then the cache may drop it.                      *)
CRelease(e) ==
  /\ held[e] > 0
  /\ held' = [held EXCEPT ![e] = @ - 1]
  /\ \/ /\ held[e] > 1 \/ Cached(map, e)
        /\ UNCHANGED <<map, state>>
     \/ /\ held[e] = 1
        /\ map' = [k \in Key |-> IF map[k] = e THEN NoOne ELSE map[k]]
        /\ \E s \in {"dying", "none"} : state' = [state EXCEPT ![e] = s]

(* The deleter of an entry runs. *)
CDelete(e) ==
  /\ state[e] = "dying"
  /\ state' = [state EXCEPT ![e] = "none"]
  /\ UNCHANGED <<map, held>>

(* The cache is destroyed when no handle is out. *)
CDestroy ==
  /\ \A e \in Entry : held[e] = 0 /\ state[e] # "dying"
  /\ map' = [k \in Key |-> NoOne]
  /\ state' = [e \in Entry |-> "none"]
  /\ UNCHANGED held

ContractNext ==
  \/ \E k \in Key : CDrop(k) \/ CLookup(k)
  \/ \E k \in Key, e \in Entry, n \in {0, 1} : CInsert(k, e, n)
  \/ \E e \in Entry : CRefuse(e) \/ CRelease(e) \/ CDelete(e)
  \/ CDestroy

Contract == ContractInit /\ [][ContractNext]_contractVars
=============================================================================
