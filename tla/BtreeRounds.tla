---------------------------- MODULE BtreeRounds -----------------------------
(***************************************************************************)
(* BtreeRoots with a history variable that tells, for each reader, whether *)
(* somebody has disturbed the round of get_read_handle it is in.           *)
(***************************************************************************)
EXTENDS BtreeRoots

VARIABLE calm  \* history: readers whose round nobody has disturbed so far

roundVars == <<vars, calm>>

RoundsInit == Init /\ calm = {}

(* The step neither publishes a version nor changes the ref_count_ of the  *)
(* current one.                                                            *)
Quiet ==
  rootPointer' = rootPointer /\ refCount'[rootPointer] = refCount[rootPointer]

RoundsNext ==
  /\ Next
  /\ calm' = {r \in Reader :
                \/ pc[r] \in {"idle", "again"} /\ pc'[r] = "count"
                \/ r \in calm /\ Quiet}

RoundsSpec == RoundsInit /\ [][RoundsNext]_roundVars

(* get_read_handle is lock-free: a round fails only if, since the reader   *)
(* began it, a version has been published or another reader has counted    *)
(* itself in or out of the current one.  Nothing else keeps a reader       *)
(* spinning, and no reader keeps another from its handle without getting   *)
(* or dropping one itself.                                                 *)
LockFree ==
  [][\A r \in Reader : pc[r] # "again" /\ pc'[r] = "again" => r \notin calm
    ]_roundVars
=============================================================================
