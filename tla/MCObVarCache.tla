---------------------------- MODULE MCObVarCache ----------------------------
(* ObVarCache for TLC: threads and keys are interchangeable. *)
EXTENDS ObVarCache, TLC

Symmetry == Permutations(Thread) \cup Permutations(Key)
=============================================================================
