---------------------------- MODULE LevelSkipList ----------------------------
(***************************************************************************)
(* LevelDB's skip list (src/ds_algor/skipList/From Leveldb/db/skiplist.h): *)
(* one writer at a time, any number of readers, no locks.  A node is       *)
(* published level by level, from the bottom, while readers are under way. *)
(*                                                                         *)
(* A node is its key, since a key is inserted at most once.  head_ is 0    *)
(* and NULL is a number above all keys: "NULL n is considered infinite".   *)
(* One action is one load or store of a link or of max_height_.            *)
(***************************************************************************)
EXTENDS Integers

CONSTANTS Key,         \* a finite set of positive numbers
          Null,        \* greater than all keys
          kMaxHeight,
          Reader,
          Writer       \* the thread that holds the external lock

Head  == 0
Level == 0 .. kMaxHeight - 1
Proc  == Reader \cup {Writer}
Node  == Key \cup {Head}
Link  == Node \cup {Null}
Unset == -1            \* a link of an allocated node before it is stored

ASSUME ConstAssumption ==
  /\ Key \subseteq Nat \ {0}
  /\ Null \in Nat /\ \A k \in Key : k < Null
  /\ Null # 0
  /\ kMaxHeight \in Nat \ {0}
  /\ Writer \notin Reader

VARIABLES next,       \* next[i][n] is n->next_[i]
          maxHeight,  \* max_height_
          op,         \* the search each process runs, or "idle"
          target,     \* its key
          x, level,   \* its local variables
          before,     \* what the list contained when it began
          iter,       \* the reader's Iterator::node_
          pc,         \* the writer's place in Insert
          prev,       \* Insert's prev[]
          height,     \* Insert's height
          i           \* Insert's loop variable

searchVars == <<op, target, x, level, before, iter>>
insertVars == <<pc, prev, height, i>>
vars == <<next, maxHeight, searchVars, insertVars>>

(* The nodes some link of a level leads to. *)
InLevel(l)  == {k \in Key : \E n \in Node : next[l][n] = k}
Contents    == InLevel(0)

Init ==
  /\ next = [l \in Level |-> [n \in Node |-> IF n = Head THEN Null ELSE Unset]]
  /\ maxHeight = 1
  /\ op = [p \in Proc |-> "idle"]
  /\ target = [p \in Proc |-> Null]
  /\ x = [p \in Proc |-> Head]
  /\ level = [p \in Proc |-> 0]
  /\ before = [p \in Proc |-> {}]
  /\ iter = [p \in Reader |-> Null]
  /\ pc = "idle"
  /\ prev = [l \in Level |-> Head]
  /\ height = 1
  /\ i = 0

-----------------------------------------------------------------------------
(* FindGreaterOrEqual ("ge"), FindLessThan ("lt") and FindLast ("last")    *)
(* share their shape: go on along a level or drop to the next.             *)

Begin(p, o, k) ==
  /\ op' = [op EXCEPT ![p] = o]
  /\ target' = [target EXCEPT ![p] = k]
  /\ x' = [x EXCEPT ![p] = Head]
  /\ level' = [level EXCEPT ![p] = maxHeight - 1]
  /\ before' = [before EXCEPT ![p] = Contents]

KeyIsAfterNode(k, n) == n < k

Loaded(p) == next[level[p]][x[p]]

Advance(p) ==
  /\ op[p] # "idle"
  /\ KeyIsAfterNode(target[p], Loaded(p))
  /\ x' = [x EXCEPT ![p] = Loaded(p)]
  /\ UNCHANGED <<next, maxHeight, op, target, level, before, iter, insertVars>>

AtEnd(p) == op[p] # "idle" /\ ~KeyIsAfterNode(target[p], Loaded(p))

(* Mutant of Drop: the level is not lowered. *)
DropStays(p) ==
  /\ AtEnd(p)
  /\ level[p] > 0
  /\ UNCHANGED vars

(* The writer's search also fills prev[level]. *)
Drop(p) ==
  /\ AtEnd(p)
  /\ level[p] > 0
  /\ level' = [level EXCEPT ![p] = @ - 1]
  /\ prev' = IF p = Writer THEN [prev EXCEPT ![level[p]] = x[p]] ELSE prev
  /\ UNCHANGED <<next, maxHeight, op, target, x, before, iter, pc, height, i>>

-----------------------------------------------------------------------------
(* Readers: an Iterator each.                                              *)

Seek(r, k) ==
  /\ op[r] = "idle"
  /\ Begin(r, "ge", k)
  /\ UNCHANGED <<next, maxHeight, iter, insertVars>>

Prev(r) ==
  /\ op[r] = "idle" /\ iter[r] # Null
  /\ Begin(r, "lt", iter[r])
  /\ UNCHANGED <<next, maxHeight, iter, insertVars>>

SeekToLast(r) ==
  /\ op[r] = "idle"
  /\ Begin(r, "last", Null)
  /\ UNCHANGED <<next, maxHeight, iter, insertVars>>

(* Mutant of Found: every search returns the node it loaded last. *)
FoundNext(r) == Loaded(r)

(* What the search returns: FindGreaterOrEqual the node that it loaded     *)
(* last, the others the node before it, NULL for head_.                    *)
Found(r) ==
  IF op[r] = "ge" THEN Loaded(r)
  ELSE IF x[r] = Head THEN Null ELSE x[r]

(* Contains(k), from what FindGreaterOrEqual found. *)
Contains(k, found) == found # Null /\ found = k

Return(r) ==
  /\ AtEnd(r)
  /\ level[r] = 0
  /\ iter' = [iter EXCEPT ![r] = Found(r)]
  /\ op' = [op EXCEPT ![r] = "idle"]
  /\ UNCHANGED <<next, maxHeight, target, x, level, before, insertVars>>

SeekToFirst(r) ==
  /\ op[r] = "idle"
  /\ iter' = [iter EXCEPT ![r] = next[0][Head]]
  /\ UNCHANGED <<next, maxHeight, op, target, x, level, before, insertVars>>

IterNext(r) ==
  /\ op[r] = "idle" /\ iter[r] # Null
  /\ iter' = [iter EXCEPT ![r] = next[0][iter[r]]]
  /\ UNCHANGED <<next, maxHeight, op, target, x, level, before, insertVars>>

-----------------------------------------------------------------------------
(* The writer.                                                             *)

(* REQUIRES: nothing that compares equal to key is currently in the list. *)
InsertBegin(k) ==
  /\ pc = "idle"
  /\ k \notin Contents
  /\ Begin(Writer, "ge", k)
  /\ pc' = "search"
  /\ UNCHANGED <<next, maxHeight, iter, prev, height, i>>

RandomHeight == 1 .. kMaxHeight

(* Mutant of InsertHeight: new levels start at the search's node, not head_.*)
InsertHeightHere(h) ==
  /\ pc = "search"
  /\ AtEnd(Writer) /\ level[Writer] = 0
  /\ op' = [op EXCEPT ![Writer] = "idle"]
  /\ prev' = [l \in Level |-> IF l \in {0} \cup (maxHeight .. h - 1)
                              THEN x[Writer] ELSE prev[l]]
  /\ maxHeight' = IF h > maxHeight THEN h ELSE maxHeight
  /\ height' = h
  /\ i' = 0
  /\ pc' = "store"
  /\ UNCHANGED <<next, target, x, level, before, iter>>

(* The search has reached the bottom; RandomHeight gives h.  Levels above  *)
(* max_height_ start at head_, and max_height_ is stored.                  *)
InsertHeight(h) ==
  /\ pc = "search"
  /\ AtEnd(Writer) /\ level[Writer] = 0
  /\ op' = [op EXCEPT ![Writer] = "idle"]
  /\ prev' = [l \in Level |-> IF l = 0 THEN x[Writer]
                              ELSE IF l \in maxHeight .. h - 1 THEN Head
                              ELSE prev[l]]
  /\ maxHeight' = IF h > maxHeight THEN h ELSE maxHeight
  /\ height' = h
  /\ i' = 0
  /\ pc' = "store"
  /\ UNCHANGED <<next, target, x, level, before, iter>>

LevelOf(j) == j

(* x->NoBarrier_SetNext(i, prev[i]->NoBarrier_Next(i)) *)
InsertStore ==
  /\ pc = "store"
  /\ LET l == LevelOf(i)
     IN next' = [next EXCEPT ![l][target[Writer]] = next[l][prev[l]]]
  /\ pc' = "publish"
  /\ UNCHANGED <<maxHeight, searchVars, prev, height, i>>

(* prev[i]->SetNext(i, x) *)
InsertPublish ==
  /\ pc = "publish"
  /\ LET l == LevelOf(i)
     IN next' = [next EXCEPT ![l][prev[l]] = target[Writer]]
  /\ i' = i + 1
  /\ pc' = IF i + 1 < height THEN "store" ELSE "idle"
  /\ UNCHANGED <<maxHeight, searchVars, prev, height>>

-----------------------------------------------------------------------------

Search(p) == Advance(p) \/ Drop(p)

Read(r) ==
  \/ Search(r) \/ Return(r)
  \/ SeekToFirst(r) \/ IterNext(r) \/ Prev(r) \/ SeekToLast(r)
  \/ \E k \in Key : Seek(r, k)

Insert ==
  \/ Search(Writer)
  \/ \E h \in RandomHeight : InsertHeight(h)
  \/ InsertStore \/ InsertPublish
  \/ \E k \in Key : InsertBegin(k)

Next == Insert \/ \E r \in Reader : Read(r)

Spec == Init /\ [][Next]_vars

(* A search that has begun goes on. *)
FairSpec == Spec /\ \A r \in Reader : WF_vars(Search(r) \/ Return(r))

-----------------------------------------------------------------------------
(* Properties                                                              *)

TypeOK ==
  /\ next \in [Level -> [Node -> Link \cup {Unset}]]
  /\ maxHeight \in 1 .. kMaxHeight
  /\ op \in [Proc -> {"idle", "ge", "lt", "last"}]
  /\ target \in [Proc -> Key \cup {Null}]
  /\ x \in [Proc -> Node]
  /\ level \in [Proc -> Level]
  /\ before \in [Proc -> SUBSET Key]
  /\ iter \in [Reader -> Key \cup {Null}]
  /\ pc \in {"idle", "search", "store", "publish"}
  /\ prev \in [Level -> Node]
  /\ height \in 1 .. kMaxHeight
  /\ i \in 0 .. kMaxHeight

(* At every moment, also half way through Insert, each level is a sorted   *)
(* list of all its nodes: a node's link leads to the least greater node.   *)
LevelsSorted ==
  \A l \in Level : \A n \in InLevel(l) \cup {Head} :
     /\ next[l][n] \in InLevel(l) \cup {Null}
     /\ n < next[l][n]
     /\ \A m \in InLevel(l) : ~(n < m /\ m < next[l][n])

(* A node on a level is on all levels below it, so a reader that drops a   *)
(* level never reads a link that has not been stored.                      *)
LevelsNested ==
  \A l \in Level \ {0} : InLevel(l) \subseteq InLevel(l - 1)

(* A search or iterator stands on a node whose link at its level has been  *)
(* stored: no reader loads uninitialized memory.                           *)
LinksStored ==
  /\ \A p \in Proc : op[p] # "idle" => Loaded(p) # Unset
  /\ \A r \in Reader : iter[r] # Null => next[0][iter[r]] # Unset

(* What a search returns, whatever is inserted while it runs: a node of    *)
(* the list on the right side of the target, with none between them of     *)
(* those that were there when it began.  So Contains finds a key that was  *)
(* there when it began.                                                    *)
SearchExact ==
  [][\A r \in Reader : Return(r) =>
       LET k == target[r]  found == iter'[r]
           missed(lo, hi) == \E b \in before[r] : lo <= b /\ b < hi
       IN /\ found \in Contents \cup {Null}
          /\ op[r] = "ge" => /\ k <= found /\ ~missed(k, found)
                             /\ k \in before[r] => Contains(k, found)
          /\ op[r] # "ge" => /\ found # Null => found < k
                             /\ ~missed(IF found = Null THEN 0 ELSE found + 1, k)
    ]_vars

(* A scan by Next goes strictly upward and skips nothing that is in the    *)
(* list.                                                                   *)
ScanUpward ==
  [][\A r \in Reader : IterNext(r) =>
       /\ iter[r] < iter'[r]
       /\ \A b \in Contents : ~(iter[r] < b /\ b < iter'[r])]_vars

(* Nothing is ever unlinked: a node once published on a level stays there. *)
NothingUnlinked ==
  [][\A l \in Level : InLevel(l) \subseteq InLevel(l)']_vars

(* Every search of a reader returns, although nodes are inserted before it.*)
SearchReturns == \A r \in Reader : op[r] # "idle" ~> op[r] = "idle"
=============================================================================
