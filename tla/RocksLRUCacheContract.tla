----------------------- MODULE RocksLRUCacheContract ------------------------
(***************************************************************************)
(* What a shard of the RocksDB cache promises its clients: its usage       *)
(* counters are exact, and it keeps the contract of module CacheContract.  *)
(***************************************************************************)
EXTENDS RocksLRUCache

Charge == [h \in Handle |-> entry[h].charge]

ChargeSum(S) == SumFunctionOnSet(Charge, S)

(* The entries that are charged to the shard. *)
Used == {h \in Handle : InTable(h) \/ pins[h] > 0}

(* usage_ is exactly the charge of the entries that are in the table or    *)
(* pinned, and lru_usage_ that of the entries on the LRU list, so neither  *)
(* unsigned counter wraps and GetPinnedUsage's assertion holds.            *)
UsageExact ==
  /\ usage = ChargeSum(Used)
  /\ lruUsage = ChargeSum(Range(lru))

-----------------------------------------------------------------------------
(* The shard keeps the contract of a cache.  An entry being inserted is    *)
(* not yet the cache's; deleters run when the mutex is free.               *)

ContractState(h) ==
  IF ~Allocated(h) \/ InFlight(h) THEN "none"
  ELSE IF Doomed(h) THEN "dying" ELSE "live"

States == [h \in Handle |-> ContractState(h)]

ContractOf == INSTANCE CacheContract WITH
  Entry <- Handle,
  NoOne <- NoHandle,
  map   <- table,
  held  <- pins,
  state <- States

(* Whatever the interleaving of the clients, with each other and with the  *)
(* frees outside the mutex, what they see of the shard is a behaviour of   *)
(* CacheContract.                                                          *)
KeepsContract == ContractOf!Contract
=============================================================================
