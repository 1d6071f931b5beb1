--------------------------- MODULE MCLevelSkipList ---------------------------
(* Small instances of LevelSkipList for TLC. *)
EXTENDS LevelSkipList

Keys3 == 1 .. 3
=============================================================================
