--------------------------- MODULE MCRocksLRUCache ---------------------------
(* Small instances of RocksLRUCache for TLC. *)
EXTENDS RocksLRUCacheContract, TLC

(* Addresses and keys are interchangeable. *)
Symmetry == Permutations(Handle) \cup Permutations(Key)
=============================================================================
