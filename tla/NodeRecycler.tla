---------------------------- MODULE NodeRecycler ----------------------------
(***************************************************************************)
(* Memory reclamation in folly's ConcurrentSkipList: class NodeRecycler of *)
(* src/ds_algor/skipList/From folly/ConcurrentSkipList-inl.h and its       *)
(* users, the Accessors of ConcurrentSkipList.h.                           *)
(*                                                                         *)
(* An Accessor counts itself in refs_ for as long as it lives.  Nodes      *)
(* taken out of the list wait in nodes_ until an Accessor finds, under     *)
(* lock_, that it is the last one.  One action is one access to refs_,     *)
(* dirty_ or lock_, or the work between two of them that no other thread   *)
(* can see.  The accesses are sequentially consistent, as they are on the  *)
(* one architecture the code supports: refs_ and lock_ are changed by      *)
(* locked instructions only.                                               *)
(*                                                                         *)
(* The list itself is only the set of nodes that are linked.  What an      *)
(* Accessor's client may point to is all that was linked at some time of   *)
(* the Accessor's life.                                                    *)
(***************************************************************************)
EXTENDS Integers, FiniteSets

CONSTANTS Accessor,   \* Accessor objects; each is used by one thread
          Node,       \* addresses at which a node may be allocated
          NoNode,     \* nullptr
          NoAccessor  \* lock_ is not held

ASSUME ConstAssumption ==
  /\ IsFiniteSet(Accessor)
  /\ NoAccessor \notin Accessor
  /\ NoNode \notin Node

VARIABLES refs,   \* refs_
          dirty,  \* dirty_
          nodes,  \* *nodes_; empty when nodes_ is nullptr
          lock,   \* the holder of lock_
          heap,   \* "free", "linked", or "removed" from the list
          pc,     \* where each Accessor is
          node,   \* the argument of add
          batch,  \* releaseRef's newNodes, less those destroyed
          seen    \* nodes the Accessor's client may point to

recyclerVars == <<refs, dirty, nodes, lock>>
localVars    == <<pc, node, batch>>
vars == <<recyclerVars, heap, localVars, seen>>

(* Where an Accessor's thread may be before ~Accessor. *)
InUse == {"in", "add", "push", "mark"}

Linked == {n \in Node : heap[n] = "linked"}

-----------------------------------------------------------------------------

(* A list as constructed: its head node is linked. *)
Init ==
  /\ refs = 0 /\ dirty = FALSE /\ nodes = {} /\ lock = NoAccessor
  /\ \E h \in Node : heap = [n \in Node |-> IF n = h THEN "linked" ELSE "free"]
  /\ pc = [a \in Accessor |-> "out"]
  /\ node = [a \in Accessor |-> NoNode]
  /\ batch = [a \in Accessor |-> {}]
  /\ seen = [a \in Accessor |-> {}]

Goto(a, to) == pc' = [pc EXCEPT ![a] = to]

addRef == refs' = refs + 1

(* Accessor(skip_list). *)
Enter(a) ==
  /\ pc[a] = "out"
  /\ addRef
  /\ seen' = [seen EXCEPT ![a] = Linked]
  /\ Goto(a, "in")
  /\ UNCHANGED <<dirty, nodes, lock, heap, node, batch>>

(* Accessor(accessor): the copy may use the pointers obtained from b.      *)
(* a = b is the steps of ~Accessor, then this.                             *)
Copy(a, b) ==
  /\ pc[a] = "out" /\ pc[b] = "in"
  /\ addRef
  /\ seen' = [seen EXCEPT ![a] = Linked \cup seen[b]]
  /\ Goto(a, "in")
  /\ UNCHANGED <<dirty, nodes, lock, heap, node, batch>>

(* addOrGetData: a new node becomes reachable for every Accessor. *)
Link(a, n) ==
  /\ pc[a] = "in"
  /\ heap[n] = "free"
  /\ heap' = [heap EXCEPT ![n] = "linked"]
  /\ seen' = [b \in Accessor |->
                IF pc[b] \in InUse THEN seen[b] \cup {n} ELSE seen[b]]
  /\ UNCHANGED <<recyclerVars, localVars>>

-----------------------------------------------------------------------------
(* remove and growHeight: the node is out of the list, then add is called. *)

Unlink(a, n) ==
  /\ pc[a] = "in"
  /\ heap[n] = "linked"
  /\ heap' = [heap EXCEPT ![n] = "removed"]
  /\ node' = [node EXCEPT ![a] = n]
  /\ Goto(a, "add")
  /\ UNCHANGED <<recyclerVars, batch, seen>>

(* add takes lock_ ... *)
AddLock(a) ==
  /\ pc[a] = "add"
  /\ lock = NoAccessor
  /\ lock' = a
  /\ Goto(a, "push")
  /\ UNCHANGED <<refs, dirty, nodes, heap, node, batch, seen>>

(* Mutant of Push: a fresh vector replaces the one that is there. *)
PushFresh(a) ==
  /\ pc[a] = "push"
  /\ nodes' = {node[a]}
  /\ node' = [node EXCEPT ![a] = NoNode]
  /\ Goto(a, "mark")
  /\ UNCHANGED <<refs, dirty, lock, heap, batch, seen>>

(* ... appends the node to *nodes_ ... *)
Push(a) ==
  /\ pc[a] = "push"
  /\ nodes' = nodes \cup {node[a]}
  /\ node' = [node EXCEPT ![a] = NoNode]
  /\ Goto(a, "mark")
  /\ UNCHANGED <<refs, dirty, lock, heap, batch, seen>>

(* ... and sets dirty_; on return lock_ is released. *)
Mark(a) ==
  /\ pc[a] = "mark"
  /\ dirty' = TRUE
  /\ lock' = NoAccessor
  /\ Goto(a, "in")
  /\ UNCHANGED <<refs, nodes, heap, node, batch, seen>>

-----------------------------------------------------------------------------
(* ~Accessor: releaseRef.  The client's pointers are dead from here on.    *)

(* The first test outside the lock loads dirty_ ... *)
LoadDirty(a) ==
  /\ pc[a] = "in"
  /\ seen' = [seen EXCEPT ![a] = {}]
  /\ Goto(a, IF dirty THEN "refs" ELSE "leave")
  /\ UNCHANGED <<recyclerVars, heap, node, batch>>

(* Mutant of LoadRefs: an Accessor takes itself for another. *)
LoadRefsSelf(a) ==
  /\ pc[a] = "refs"
  /\ Goto(a, IF refs > 0 THEN "leave" ELSE "lock")
  /\ UNCHANGED <<recyclerVars, heap, node, batch, seen>>

(* ... and, if that is set, refs_. *)
LoadRefs(a) ==
  /\ pc[a] = "refs"
  /\ Goto(a, IF refs > 1 THEN "leave" ELSE "lock")
  /\ UNCHANGED <<recyclerVars, heap, node, batch, seen>>

ReleaseLock(a) ==
  /\ pc[a] = "lock"
  /\ lock = NoAccessor
  /\ lock' = a
  /\ Goto(a, "check")
  /\ UNCHANGED <<refs, dirty, nodes, heap, node, batch, seen>>

(* Mutant of NotLast: refs_ is not loaded again under the lock. *)
NotLastUnchecked == nodes = {}

(* The test repeated under the lock. *)
NotLast == nodes = {} \/ refs > 1

Check(a) ==
  /\ pc[a] = "check"
  /\ Goto(a, IF NotLast THEN "giveup" ELSE "swap")
  /\ UNCHANGED <<recyclerVars, heap, node, batch, seen>>

(* Not the last one: the count is lowered while lock_ is held ... *)
GiveUp(a) ==
  /\ pc[a] = "giveup"
  /\ refs' = refs - 1
  /\ Goto(a, "unlock")
  /\ UNCHANGED <<dirty, nodes, lock, heap, node, batch, seen>>

(* ... which the return releases. *)
Unlock(a) ==
  /\ pc[a] = "unlock"
  /\ lock' = NoAccessor
  /\ Goto(a, "out")
  /\ UNCHANGED <<refs, dirty, nodes, heap, node, batch, seen>>

(* The last one takes the nodes ... *)
Swap(a) ==
  /\ pc[a] = "swap"
  /\ batch' = [batch EXCEPT ![a] = nodes]
  /\ nodes' = {}
  /\ Goto(a, "clear")
  /\ UNCHANGED <<refs, dirty, lock, heap, node, seen>>

(* ... resets dirty_ and releases lock_ ... *)
Clear(a) ==
  /\ pc[a] = "clear"
  /\ dirty' = FALSE
  /\ lock' = NoAccessor
  /\ Goto(a, "destroy")
  /\ UNCHANGED <<refs, nodes, heap, node, batch, seen>>

(* ... destroys one node after the other ... *)
DestroyNode(a, n) ==
  /\ pc[a] = "destroy"
  /\ n \in batch[a]
  /\ heap' = [heap EXCEPT ![n] = "free"]
  /\ batch' = [batch EXCEPT ![a] = @ \ {n}]
  /\ UNCHANGED <<recyclerVars, pc, node, seen>>

DestroyDone(a) ==
  /\ pc[a] = "destroy"
  /\ batch[a] = {}
  /\ Goto(a, "leave")
  /\ UNCHANGED <<recyclerVars, heap, node, batch, seen>>

(* ... and lowers the count at the very end. *)
Leave(a) ==
  /\ pc[a] = "leave"
  /\ refs' = refs - 1
  /\ Goto(a, "out")
  /\ UNCHANGED <<dirty, nodes, lock, heap, node, batch, seen>>

-----------------------------------------------------------------------------

(* ~ConcurrentSkipList frees the linked nodes and ~NodeRecycler the others *)
(* when the last Accessor is gone; a new list is made in the same memory.  *)
Destroy ==
  /\ \A a \in Accessor : pc[a] = "out"
  /\ \E h \in Node :
       LET freed == [n \in Node |->
                       IF n \in Linked \cup nodes THEN "free" ELSE heap[n]]
       IN /\ freed[h] = "free"
          /\ heap' = [freed EXCEPT ![h] = "linked"]
  /\ nodes' = {} /\ dirty' = FALSE
  /\ UNCHANGED <<refs, lock, localVars, seen>>

(* What an Accessor's thread does on its own. *)
Continue(a) ==
  \/ AddLock(a) \/ Push(a) \/ Mark(a)
  \/ LoadRefs(a) \/ ReleaseLock(a) \/ Check(a)
  \/ GiveUp(a) \/ Unlock(a)
  \/ Swap(a) \/ Clear(a)
  \/ \E n \in Node : DestroyNode(a, n)
  \/ DestroyDone(a) \/ Leave(a)

(* What its client decides. *)
Call(a) ==
  \/ Enter(a) \/ LoadDirty(a)
  \/ \E b \in Accessor : Copy(a, b)
  \/ \E n \in Node : Link(a, n) \/ Unlink(a, n)

Next == Destroy \/ \E a \in Accessor : Continue(a) \/ Call(a)

Spec == Init /\ [][Next]_vars

(* A thread that is not waiting for lock_ runs on.  Nothing is assumed     *)
(* about who gets lock_: MicroSpinLock is not fair.                        *)
FairSpec == Spec /\ \A a \in Accessor : WF_vars(Continue(a))

-----------------------------------------------------------------------------
(* Properties                                                              *)

Waiting  == {"add", "lock"}
Holding  == {"push", "mark", "check", "giveup", "unlock", "swap", "clear"}
Working  == {"in", "refs", "destroy", "leave", "out"}

TypeOK ==
  /\ refs \in Int /\ dirty \in BOOLEAN
  /\ nodes \subseteq Node
  /\ lock \in Accessor \cup {NoAccessor}
  /\ heap \in [Node -> {"free", "linked", "removed"}]
  /\ pc \in [Accessor -> Waiting \cup Holding \cup Working]
  /\ node \in [Accessor -> Node \cup {NoNode}]
  /\ batch \in [Accessor -> SUBSET Node]
  /\ seen \in [Accessor -> SUBSET Node]

Counted == {a \in Accessor : pc[a] \notin {"out", "unlock"}}

(* refs_ counts the live Accessors, those inside releaseRef included, so   *)
(* the assertions in add and in ~NodeRecycler hold.                        *)
RefsExact == refs = Cardinality(Counted)

(* A node that an Accessor's client may still point to is not destroyed,   *)
(* also when new Accessors appear between the test under the lock and the  *)
(* destruction: "guaranteed that the data is valid as far as the Accessor  *)
(* is hold".                                                               *)
NoUseAfterFree ==
  \A a \in Accessor : \A n \in seen[a] : heap[n] # "free"

Holds(a, n) == node[a] = n \/ n \in batch[a]

(* Every removed node is in the hands of exactly one add, of nodes_ or of  *)
(* one releaseRef, and nothing else is: no node is lost or destroyed twice.*)
Custody ==
  /\ \A n \in Node :
       heap[n] = "removed" <=> (n \in nodes \/ \E a \in Accessor : Holds(a, n))
  /\ \A a \in Accessor : \A n \in nodes : ~Holds(a, n)
  /\ \A a \in Accessor : node[a] \notin batch[a]
  /\ \A a, b \in Accessor : \A n \in Node : Holds(a, n) /\ Holds(b, n) => a = b

(* "whether *nodes_ is non-empty": what the comment says of dirty_, which  *)
(* the first test of releaseRef relies on, holds whenever lock_ is free.   *)
DirtyExact == lock = NoAccessor => (dirty <=> nodes # {})

(* Nodes do not pile up: whatever Accessors that left together have left   *)
(* behind in nodes_, one that comes and goes while there is no other       *)
(* destroys it.                                                            *)
Reclaimed ==
  \A a \in Accessor :
    /\ <>[](\A b \in Accessor \ {a} : pc[b] = "out")
    /\ []<>(pc[a] = "in") /\ []<>(pc[a] = "out")
    => []<>(\A n \in Node : heap[n] # "removed")
=============================================================================
