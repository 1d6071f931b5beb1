------------------------ MODULE MCConcurrentSkipList ------------------------
(* ConcurrentSkipList for TLC: threads are interchangeable, and the list   *)
(* grows from height 1 at its third key, as sizeLimitTable_ says.          *)
EXTENDS ConcurrentSkipList, TLC

MCSizeLimit == [h \in 1 .. MAX_HEIGHT |-> IF h = 1 THEN 2 ELSE 7]

MCInitial == <<1, 3>>

(* All calls have been made and have returned. *)
Finished ==
  /\ calls = MaxCalls /\ \A p \in Proc : pc[p] \in Rest
  /\ UNCHANGED vars

(* Any other state without a step is a deadlock. *)
MCSpec == Init /\ [][Next \/ Finished]_vars

Symmetry == Permutations(Proc)
=============================================================================
