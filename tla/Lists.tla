------------------------------- MODULE Lists -------------------------------
(***************************************************************************)
(* The circular doubly linked lists and the bucket chains of the code, as  *)
(* sequences of entries.  An entry is on a list at most once, so a list is *)
(* an injective sequence.  Also what it means that there are finitely many *)
(* addresses of entries.  The module stays small on purpose: the theorem   *)
(* modules rest on it.                                                     *)
(***************************************************************************)
EXTENDS Naturals, Sequences

Contains(s, e) == \E i \in 1..Len(s) : s[i] = e

(* s without its element at position i. *)
RemoveAt(s, i) == SubSeq(s, 1, i - 1) \o SubSeq(s, i + 1, Len(s))

(* s without e: if e is on s, e->prev and e->next are joined. *)
RemoveFirst(s, e) ==
  IF Contains(s, e) THEN RemoveAt(s, CHOOSE i \in 1..Len(s) : s[i] = e) ELSE s

(* S is finite, by Tarski's criterion: every nonempty set of subsets of S  *)
(* has a minimal member.  In this form a finite set can be reasoned about  *)
(* without counting its members.                                           *)
Finite(S) ==
  \A B \in SUBSET (SUBSET S) :
    B # {} => \E t \in B : \A u \in B : u \subseteq t => u = t
=============================================================================
