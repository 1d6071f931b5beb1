---------------------------- MODULE MCHandleTable ----------------------------
(* HandleTable for TLC: keys whose hashes are equal (1 and 2), collide in  *)
(* the first array and part in the next (1 and 3), or collide in both (4   *)
(* and 5).                                                                 *)
EXTENDS HandleTable

Hashes == <<1, 1, 5, 2, 10>>

(* The first array of 16 of RocksDB's table is scaled down to 2, so that   *)
(* three keys make it grow, past the next power of two.                    *)
LevelTable == [minLength |-> 4, room |-> 2]
RocksTable == [minLength |-> 2, room |-> 3]
BothTables == {LevelTable, RocksTable}
=============================================================================
