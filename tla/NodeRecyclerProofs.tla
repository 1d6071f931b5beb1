------------------------- MODULE NodeRecyclerProofs -------------------------
(***************************************************************************)
(* Proofs about NodeRecycler, for any number of Accessors and nodes.       *)
(*                                                                         *)
(* The invariant that is preserved by every step adds to the properties:   *)
(* who holds lock_ and what the local variables of a call contain at each  *)
(* point (Control), what dirty_ says while lock_ is held (DirtyInv), and   *)
(* that an Accessor which has passed the test under the lock has nodes     *)
(* before it that nobody can point to (Safe).                              *)
(***************************************************************************)
EXTENDS NodeRecycler, FiniteSetTheorems, TLAPS

Control ==
  /\ \A a \in Accessor : (pc[a] \in Holding) <=> (lock = a)
  /\ \A a \in Accessor : (node[a] # NoNode) <=> (pc[a] \in {"add", "push"})
  /\ \A a \in Accessor : batch[a] # {} => pc[a] \in {"clear", "destroy"}
  /\ \A a \in Accessor : pc[a] \notin InUse => seen[a] = {}

DirtyInv ==
  /\ (\A a \in Accessor : pc[a] \notin {"mark", "clear"})
       => (dirty <=> nodes # {})
  /\ \A a \in Accessor : pc[a] = "mark" => nodes # {}
  /\ \A a \in Accessor : pc[a] = "clear" => nodes = {}

Safe ==
  /\ \A a, b \in Accessor : \A n \in nodes : pc[a] = "swap" => n \notin seen[b]
  /\ \A a, b \in Accessor : \A n \in batch[a] : n \notin seen[b]

IInv ==
  /\ TypeOK /\ Control /\ DirtyInv /\ Custody
  /\ Safe /\ NoUseAfterFree /\ RefsExact

(* One Accessor's program counter moves and the set of counted Accessors   *)
(* gains it, loses it or stays the same: addRef, fetch_add(-1), others.    *)
LEMMA CountStep ==
  ASSUME ConstAssumption, TypeOK, RefsExact, NEW a \in Accessor, NEW to,
         Goto(a, to)
  PROVE  /\ refs \in Nat
         /\ (a \in Counted /\ to \notin {"out", "unlock"} /\ refs' = refs)
              => RefsExact'
         /\ (a \notin Counted /\ to \in {"out", "unlock"} /\ refs' = refs)
              => RefsExact'
         /\ (a \notin Counted /\ to \notin {"out", "unlock"} /\ refs' = refs + 1)
              => RefsExact'
         /\ (a \in Counted /\ to \in {"out", "unlock"} /\ refs' = refs - 1)
              => RefsExact'
<1>1. IsFiniteSet(Counted)
  BY FS_Subset DEF Counted, ConstAssumption
<1>2. Cardinality(Counted) \in Nat
  BY <1>1, FS_CardinalityType
<1>3. refs \in Nat
  BY <1>2 DEF RefsExact
<1>4. to \notin {"out", "unlock"} => Counted' = Counted \cup {a}
  BY DEF Counted, Goto, TypeOK
<1>5. to \in {"out", "unlock"} => Counted' = Counted \ {a}
  BY DEF Counted, Goto, TypeOK
<1>6. Cardinality(Counted \cup {a})
        = IF a \in Counted THEN Cardinality(Counted) ELSE Cardinality(Counted) + 1
  BY <1>1, FS_AddElement
<1>7. Cardinality(Counted \ {a})
        = IF a \in Counted THEN Cardinality(Counted) - 1 ELSE Cardinality(Counted)
  BY Zenon, <1>1, FS_RemoveElement
<1> QED
  BY Zenon, <1>3, <1>4, <1>5, <1>6, <1>7 DEF RefsExact

(* When refs_ is 1 the Accessor that loads it is the only one. *)
LEMMA LastOne ==
  ASSUME ConstAssumption, RefsExact, NEW a \in Counted, ~(refs > 1)
  PROVE  Counted = {a}
<1>1. IsFiniteSet(Counted)
  BY FS_Subset DEF Counted, ConstAssumption
<1>2. Cardinality(Counted) \in Nat
  BY <1>1, FS_CardinalityType
<1>3. Cardinality(Counted) # 0
  BY <1>1, FS_EmptySet
<1>4. Cardinality(Counted) = 1
  BY <1>2, <1>3 DEF RefsExact
<1>5. PICK x : Counted = {x}
  BY <1>1, <1>4, FS_Singleton
<1> QED
  BY <1>5

(* A list as constructed has the invariant. *)
LEMMA InitInv == ConstAssumption /\ Init => IInv
<1> SUFFICES ASSUME ConstAssumption, Init PROVE IInv
  OBVIOUS
<1>1. TypeOK
  <2>1. heap \in [Node -> {"free", "linked", "removed"}]
    BY DEF Init
  <2>2. pc \in [Accessor -> Waiting \cup Holding \cup Working]
    BY DEF Init, Working
  <2>3. node \in [Accessor -> Node \cup {NoNode}]
    BY DEF Init
  <2>4. batch \in [Accessor -> SUBSET Node]
    BY DEF Init
  <2>5. seen \in [Accessor -> SUBSET Node]
    BY DEF Init
  <2>6. refs \in Int /\ nodes \subseteq Node /\ lock \in Accessor \cup {NoAccessor}
    BY DEF Init
  <2>7. dirty \in BOOLEAN
    BY Zenon DEF Init
  <2> QED
    BY <2>1, <2>2, <2>3, <2>4, <2>5, <2>6, <2>7 DEF TypeOK
<1>2. Control /\ DirtyInv /\ Safe
  BY DEF Init, Control, DirtyInv, Safe, Holding, ConstAssumption
<1>3. Custody /\ NoUseAfterFree
  BY DEF Init, Custody, NoUseAfterFree, Holds, ConstAssumption
<1>4. Counted = {}
  BY DEF Init, Counted
<1>5. RefsExact
  BY <1>4, FS_EmptySet DEF Init, RefsExact
<1> QED
  BY <1>1, <1>2, <1>3, <1>5 DEF IInv

(* Accessor(skip_list) and Accessor(accessor): the new Accessor can reach  *)
(* only what is linked or what another one protects.                       *)
LEMMA EnterInv ==
  ASSUME ConstAssumption, IInv, NEW a \in Accessor,
         Enter(a) \/ \E b \in Accessor : Copy(a, b)
  PROVE  IInv'
<1> USE DEF IInv
<1>1. PICK s \in SUBSET Node :
        /\ pc[a] = "out" /\ refs' = refs + 1
        /\ seen' = [seen EXCEPT ![a] = s]
        /\ \A n \in s : n \in Linked \/ \E b \in Accessor : n \in seen[b]
        /\ pc' = [pc EXCEPT ![a] = "in"]
        /\ UNCHANGED <<dirty, nodes, lock, heap, node, batch>>
  BY DEF Enter, Copy, Goto, addRef, Linked, TypeOK
<1>2. TypeOK'
  BY <1>1 DEF TypeOK, Waiting, Holding, Working
<1>3. Control'
  BY <1>1 DEF Control, TypeOK, Holding, InUse
<1>4. DirtyInv' /\ Custody'
  BY <1>1 DEF DirtyInv, Custody, TypeOK, Holds
<1>5. \A n \in Node : n \in s => heap[n] # "free"
  BY <1>1 DEF NoUseAfterFree, Linked
<1>6. NoUseAfterFree'
  BY <1>1, <1>5 DEF NoUseAfterFree, TypeOK
<1>7. \A n \in nodes : heap[n] = "removed" /\ n \notin Linked
  BY DEF Custody, TypeOK, Linked
<1>8. \A b \in Accessor : \A n \in batch[b] : n \notin Linked
  BY DEF Custody, TypeOK, Linked, Holds
<1>9. Safe'
  BY <1>1, <1>7, <1>8 DEF Safe, TypeOK
<1>10. Goto(a, "in") /\ a \notin Counted
  BY <1>1 DEF Goto, Counted
<1>11. RefsExact'
  BY <1>1, <1>10, CountStep
<1> QED
  BY <1>2, <1>3, <1>4, <1>6, <1>9, <1>11

(* addOrGetData: a free address is in nobody's hands. *)
LEMMA LinkInv ==
  ASSUME ConstAssumption, IInv, NEW a \in Accessor,
         NEW m \in Node, Link(a, m)
  PROVE  IInv'
<1> USE DEF IInv
<1>1. TypeOK'
  BY DEF Link, TypeOK, recyclerVars, localVars
<1>2. Control' /\ DirtyInv'
  BY DEF Link, Control, DirtyInv, TypeOK, recyclerVars, localVars
<1>3. m \notin nodes /\ \A b \in Accessor : ~Holds(b, m)
  BY DEF Link, Custody
<1>4. Custody'
  BY <1>3 DEF Link, Custody, TypeOK, Holds, recyclerVars, localVars
<1>5. Safe'
  BY <1>3 DEF Link, Safe, TypeOK, Holds, recyclerVars, localVars
<1>6. NoUseAfterFree'
  BY DEF Link, NoUseAfterFree, TypeOK
<1>7. Counted' = Counted
  BY DEF Link, Counted, localVars
<1>8. RefsExact'
  BY <1>7 DEF Link, RefsExact, recyclerVars
<1> QED
  BY <1>1, <1>2, <1>4, <1>5, <1>6, <1>8

(* remove and growHeight: a linked node is in nobody's hands. *)
LEMMA UnlinkInv ==
  ASSUME ConstAssumption, IInv, NEW a \in Accessor,
         NEW m \in Node, Unlink(a, m)
  PROVE  IInv'
<1> USE DEF IInv
<1>1. TypeOK'
  BY DEF Unlink, Goto, TypeOK, recyclerVars, Waiting
<1>2. Control'
  BY DEF Unlink, Goto, Control, TypeOK, recyclerVars, ConstAssumption,
         Holding, InUse
<1>3. DirtyInv'
  BY DEF Unlink, Goto, DirtyInv, TypeOK, recyclerVars
<1>4. m \notin nodes /\ \A b \in Accessor : ~Holds(b, m)
  BY DEF Unlink, Custody
<1>5. node[a] = NoNode /\ batch[a] = {}
  BY DEF Unlink, Control
<1>6. \A b \in Accessor, n \in Node :
        Holds(b, n)' <=> Holds(b, n) \/ (b = a /\ n = m)
  BY <1>5 DEF Unlink, Holds, TypeOK, ConstAssumption
<1>7. Custody'
  BY <1>4, <1>5, <1>6 DEF Unlink, Custody, TypeOK, Holds, recyclerVars
<1>8. Safe' /\ NoUseAfterFree'
  BY DEF Unlink, Goto, Safe, NoUseAfterFree, TypeOK, recyclerVars
<1>9. Goto(a, "add") /\ a \in Counted
  BY DEF Unlink, Counted
<1>10. RefsExact'
  BY <1>9, CountStep DEF Unlink, recyclerVars
<1> QED
  BY <1>1, <1>2, <1>3, <1>7, <1>8, <1>10

(* add and releaseRef take lock_ only when it is free. *)
LEMMA LockInv ==
  ASSUME ConstAssumption, IInv, NEW a \in Accessor,
         AddLock(a) \/ ReleaseLock(a)
  PROVE  IInv'
<1> USE DEF IInv
<1>1. PICK to \in {"push", "check"} :
        /\ pc[a] = (IF to = "push" THEN "add" ELSE "lock")
        /\ lock = NoAccessor /\ lock' = a
        /\ Goto(a, to)
        /\ UNCHANGED <<refs, dirty, nodes, heap, node, batch, seen>>
  BY DEF AddLock, ReleaseLock
<1>2. TypeOK'
  BY <1>1 DEF Goto, TypeOK, Holding
<1>3. Control'
  BY <1>1 DEF Goto, Control, TypeOK, ConstAssumption, Holding, InUse
<1>4. DirtyInv' /\ Custody'
  BY <1>1 DEF Goto, DirtyInv, Custody, Holds, TypeOK
<1>5. Safe' /\ NoUseAfterFree'
  BY <1>1 DEF Goto, Safe, NoUseAfterFree, TypeOK
<1>6. RefsExact'
  BY <1>1, CountStep DEF Counted
<1> QED
  BY <1>2, <1>3, <1>4, <1>5, <1>6

(* add hands the node over to nodes_ while no test under the lock can be   *)
(* under way.                                                              *)
LEMMA PushInv ==
  ASSUME ConstAssumption, IInv, NEW a \in Accessor,
         Push(a)
  PROVE  IInv'
<1> USE DEF IInv
<1>1. TypeOK'
  BY DEF Push, Goto, TypeOK, Holding, Control
<1>2. Control'
  BY DEF Push, Goto, Control, TypeOK, Holding, InUse
<1>3. lock = a /\ node[a] \in Node /\ batch[a] = {}
  BY DEF Push, Control, TypeOK, Holding
<1>4. \A b \in Accessor : b # a => pc[b] \notin Holding
  BY <1>3 DEF Control
<1>5. DirtyInv'
  BY <1>4 DEF Push, Goto, DirtyInv, TypeOK, Holding
<1>6. \A b \in Accessor, n \in Node :
        Holds(b, n)' <=> Holds(b, n) /\ ~(b = a /\ n = node[a])
  BY <1>3 DEF Push, Holds, TypeOK, ConstAssumption
<1>7. Custody'
  BY <1>3, <1>6 DEF Push, Custody, TypeOK, Holds, ConstAssumption
<1>8. Safe'
  BY <1>4 DEF Push, Goto, Safe, TypeOK, Holding
<1>9. NoUseAfterFree'
  BY DEF Push, NoUseAfterFree
<1>10. Goto(a, "mark") /\ a \in Counted
  BY DEF Push, Counted
<1>11. RefsExact'
  BY <1>10, CountStep DEF Push
<1> QED
  BY <1>1, <1>2, <1>5, <1>7, <1>8, <1>9, <1>11, ZenonT(60)

(* add sets dirty_ and releases lock_. *)
LEMMA MarkInv ==
  ASSUME ConstAssumption, IInv, NEW a \in Accessor,
         Mark(a)
  PROVE  IInv'
<1> USE DEF IInv
<1>1. TypeOK'
  BY DEF Mark, Goto, TypeOK, Working
<1>2. Control'
  BY DEF Mark, Goto, Control, TypeOK, Holding, InUse, ConstAssumption
<1>3. DirtyInv'
  BY DEF Mark, Goto, DirtyInv, TypeOK
<1>4. Custody'
  BY DEF Mark, Custody, Holds
<1>5. Safe' /\ NoUseAfterFree'
  BY DEF Mark, Goto, Safe, NoUseAfterFree, TypeOK
<1>6. Goto(a, "in") /\ a \in Counted
  BY DEF Mark, Counted
<1>7. RefsExact'
  BY <1>6, CountStep DEF Mark
<1> QED
  BY <1>1, <1>2, <1>3, <1>4, <1>5, <1>7

(* The loads of releaseRef before it takes lock_ change nothing shared. *)
LEMMA LoadInv ==
  ASSUME ConstAssumption, IInv, NEW a \in Accessor,
         LoadDirty(a) \/ LoadRefs(a)
  PROVE  IInv'
<1> USE DEF IInv
<1>1. PICK to \in {"refs", "leave", "lock"} :
        /\ pc[a] \in {"in", "refs"}
        /\ Goto(a, to)
        /\ UNCHANGED <<recyclerVars, heap, node, batch>>
        /\ seen' = [seen EXCEPT ![a] = {}]
  <2>1. LoadRefs(a) => seen' = [seen EXCEPT ![a] = {}]
    BY DEF LoadRefs, Control, InUse, TypeOK
  <2> QED
    BY <2>1 DEF LoadDirty, LoadRefs
<1> USE DEF recyclerVars
<1>2. TypeOK'
  BY <1>1 DEF Goto, TypeOK, Working, Waiting
<1>3. Control'
  BY <1>1 DEF Goto, Control, TypeOK, Holding, InUse
<1>4. DirtyInv' /\ Custody'
  BY <1>1 DEF Goto, DirtyInv, Custody, Holds, TypeOK
<1>5. Safe' /\ NoUseAfterFree'
  BY <1>1 DEF Goto, Safe, NoUseAfterFree, TypeOK
<1>6. RefsExact'
  BY <1>1, CountStep DEF Counted
<1> QED
  BY <1>2, <1>3, <1>4, <1>5, <1>6

(* The test under the lock: if it finds no other Accessor, nobody can      *)
(* point to a node, since this one is past its last use of the list.       *)
LEMMA CheckInv ==
  ASSUME ConstAssumption, IInv, NEW a \in Accessor,
         Check(a)
  PROVE  IInv'
<1> USE DEF IInv
<1>1. PICK to \in {"giveup", "swap"} :
        /\ pc[a] = "check"
        /\ Goto(a, to)
        /\ to = "swap" => ~(refs > 1)
        /\ UNCHANGED <<recyclerVars, heap, node, batch, seen>>
  BY DEF Check, NotLast
<1> USE DEF recyclerVars
<1>2. TypeOK'
  BY <1>1 DEF Goto, TypeOK, Holding
<1>3. Control'
  BY <1>1 DEF Goto, Control, TypeOK, Holding, InUse
<1>4. DirtyInv' /\ Custody'
  BY <1>1 DEF Goto, DirtyInv, Custody, Holds, TypeOK
<1>5. NoUseAfterFree'
  BY <1>1 DEF NoUseAfterFree
<1>6. a \in Counted
  BY <1>1 DEF Counted
<1>7. to = "swap" => Counted = {a}
  BY <1>1, <1>6, LastOne
<1>8. to = "swap" => \A b \in Accessor : seen[b] = {}
  BY <1>1, <1>7 DEF Counted, Control, InUse
<1>9. Safe'
  BY <1>1, <1>8 DEF Goto, Safe, TypeOK
<1>10. RefsExact'
  BY <1>1, <1>6, CountStep
<1> QED
  BY <1>2, <1>3, <1>4, <1>5, <1>9, <1>10

(* The Accessor is counted out, with lock_ held or at the very end. *)
LEMMA LeaveInv ==
  ASSUME ConstAssumption, IInv, NEW a \in Accessor,
         GiveUp(a) \/ Leave(a)
  PROVE  IInv'
<1> USE DEF IInv
<1>1. PICK to \in {"unlock", "out"} :
        /\ pc[a] = (IF to = "unlock" THEN "giveup" ELSE "leave")
        /\ refs' = refs - 1
        /\ Goto(a, to)
        /\ UNCHANGED <<dirty, nodes, lock, heap, node, batch, seen>>
  BY DEF GiveUp, Leave
<1>2. TypeOK'
  BY <1>1 DEF Goto, TypeOK, Holding, Working
<1>3. Control'
  BY <1>1 DEF Goto, Control, TypeOK, Holding, InUse
<1>4. DirtyInv' /\ Custody'
  BY <1>1 DEF Goto, DirtyInv, Custody, Holds, TypeOK
<1>5. Safe' /\ NoUseAfterFree'
  BY <1>1 DEF Goto, Safe, NoUseAfterFree, TypeOK
<1>6. a \in Counted
  BY <1>1 DEF Counted
<1>7. RefsExact'
  BY <1>1, <1>6, CountStep
<1> QED
  BY <1>2, <1>3, <1>4, <1>5, <1>7

(* The return of an Accessor that was not the last releases lock_. *)
LEMMA UnlockInv ==
  ASSUME ConstAssumption, IInv, NEW a \in Accessor,
         Unlock(a)
  PROVE  IInv'
<1> USE DEF IInv
<1>1. TypeOK'
  BY DEF Unlock, Goto, TypeOK, Working
<1>2. Control'
  BY DEF Unlock, Goto, Control, TypeOK, Holding, InUse, ConstAssumption
<1>3. DirtyInv' /\ Custody'
  BY DEF Unlock, Goto, DirtyInv, Custody, Holds, TypeOK
<1>4. Safe' /\ NoUseAfterFree'
  BY DEF Unlock, Goto, Safe, NoUseAfterFree, TypeOK
<1>5. Goto(a, "out") /\ a \notin Counted
  BY DEF Unlock, Counted
<1>6. RefsExact'
  BY <1>5, CountStep DEF Unlock
<1> QED
  BY <1>1, <1>2, <1>3, <1>4, <1>6, ZenonT(60)

(* The last Accessor takes the nodes over from nodes_. *)
LEMMA SwapInv ==
  ASSUME ConstAssumption, IInv, NEW a \in Accessor,
         Swap(a)
  PROVE  IInv'
<1> USE DEF IInv
<1>1. TypeOK'
  BY DEF Swap, Goto, TypeOK, Holding
<1>2. Control'
  BY DEF Swap, Goto, Control, TypeOK, Holding, InUse
<1>3. lock = a /\ node[a] = NoNode /\ batch[a] = {}
  BY DEF Swap, Control, TypeOK, Holding
<1>4. \A b \in Accessor : b # a => pc[b] \notin Holding
  BY <1>3 DEF Control
<1>5. DirtyInv'
  BY <1>4 DEF Swap, Goto, DirtyInv, TypeOK, Holding
<1>6. \A b \in Accessor, n \in Node :
        Holds(b, n)' <=> Holds(b, n) \/ (b = a /\ n \in nodes)
  BY <1>3 DEF Swap, Holds, TypeOK, ConstAssumption
<1>7. Custody'
  BY <1>3, <1>6 DEF Swap, Custody, TypeOK, ConstAssumption
<1>8. Safe' /\ NoUseAfterFree'
  BY DEF Swap, Goto, Safe, NoUseAfterFree, TypeOK
<1>9. Goto(a, "clear") /\ a \in Counted
  BY DEF Swap, Counted
<1>10. RefsExact'
  BY <1>9, CountStep DEF Swap
<1> QED
  BY <1>1, <1>2, <1>5, <1>7, <1>8, <1>10

(* It resets dirty_ before it releases lock_. *)
LEMMA ClearInv ==
  ASSUME ConstAssumption, IInv, NEW a \in Accessor,
         Clear(a)
  PROVE  IInv'
<1> USE DEF IInv
<1>1. TypeOK'
  BY Zenon DEF Clear, Goto, TypeOK, Working
<1>2. Control'
  BY DEF Clear, Goto, Control, TypeOK, Holding, InUse, ConstAssumption
<1>3. DirtyInv'
  BY DEF Clear, Goto, DirtyInv, TypeOK
<1>4. Custody'
  BY DEF Clear, Custody, Holds
<1>5. Safe' /\ NoUseAfterFree'
  BY DEF Clear, Goto, Safe, NoUseAfterFree, TypeOK
<1>6. Goto(a, "destroy") /\ a \in Counted
  BY DEF Clear, Counted
<1>7. RefsExact'
  BY <1>6, CountStep DEF Clear
<1> QED
  BY <1>1, <1>2, <1>3, <1>4, <1>5, <1>7

(* It destroys a node that it alone holds and nobody can point to. *)
LEMMA DestroyNodeInv ==
  ASSUME ConstAssumption, IInv, NEW a \in Accessor,
         NEW m \in Node, DestroyNode(a, m)
  PROVE  IInv'
<1> USE DEF IInv
<1> USE DEF recyclerVars
<1>1. TypeOK'
  BY DEF DestroyNode, TypeOK
<1>2. Control' /\ DirtyInv'
  BY DEF DestroyNode, Control, DirtyInv, TypeOK
<1>3. \A b \in Accessor, n \in Node :
        Holds(b, n)' <=> Holds(b, n) /\ ~(b = a /\ n = m)
  BY DEF DestroyNode, Holds, TypeOK, Custody
<1>4. Custody'
  BY <1>3 DEF DestroyNode, Custody, TypeOK, Holds
<1>5. Safe'
  BY DEF DestroyNode, Safe, TypeOK
<1>6. NoUseAfterFree'
  BY DEF DestroyNode, NoUseAfterFree, Safe, TypeOK
<1>7. RefsExact'
  BY DEF DestroyNode, RefsExact, Counted
<1> QED
  BY <1>1, <1>2, <1>4, <1>5, <1>6, <1>7, ZenonT(60)

(* All nodes of the batch are destroyed. *)
LEMMA DestroyDoneInv ==
  ASSUME ConstAssumption, IInv, NEW a \in Accessor,
         DestroyDone(a)
  PROVE  IInv'
<1> USE DEF IInv
<1> USE DEF recyclerVars
<1>1. TypeOK'
  BY DEF DestroyDone, Goto, TypeOK, Working
<1>2. Control'
  BY DEF DestroyDone, Goto, Control, TypeOK, Holding, InUse
<1>3. DirtyInv' /\ Custody'
  BY DEF DestroyDone, Goto, DirtyInv, Custody, Holds, TypeOK
<1>4. Safe' /\ NoUseAfterFree'
  BY DEF DestroyDone, Goto, Safe, NoUseAfterFree, TypeOK
<1>5. Goto(a, "leave") /\ a \in Counted
  BY DEF DestroyDone, Counted
<1>6. RefsExact'
  BY <1>5, CountStep DEF DestroyDone
<1> QED
  BY <1>1, <1>2, <1>3, <1>4, <1>6, ZenonT(60)

(* The destructors run when no Accessor is left: all nodes are then linked *)
(* or in nodes_.                                                           *)
LEMMA DestroyInv ==
  ASSUME ConstAssumption, IInv, Destroy
  PROVE  IInv'
<1> USE DEF IInv, localVars
<1>1. PICK h \in Node :
        heap' = [[n \in Node |->
                    IF n \in Linked \cup nodes THEN "free" ELSE heap[n]]
                  EXCEPT ![h] = "linked"]
  BY Zenon DEF Destroy
<1>2. \A b \in Accessor : batch[b] = {} /\ node[b] = NoNode /\ seen[b] = {}
  BY DEF Destroy, Control, InUse
<1>3. \A n \in Node : heap'[n] = IF n = h THEN "linked" ELSE "free"
  BY <1>1, <1>2 DEF Custody, Holds, Linked, TypeOK, ConstAssumption
<1>4. heap' \in [Node -> {"free", "linked", "removed"}]
  BY <1>1 DEF TypeOK
<1>5. TypeOK'
  BY Zenon, <1>4 DEF Destroy, TypeOK
<1>6. Control' /\ DirtyInv'
  BY ZenonT(60) DEF Destroy, Control, DirtyInv
<1>7. Custody'
  BY <1>2, <1>3 DEF Destroy, Custody, Holds, ConstAssumption
<1>8. Safe' /\ NoUseAfterFree'
  BY <1>2 DEF Destroy, Safe, NoUseAfterFree
<1>9. RefsExact'
  BY DEF Destroy, RefsExact, Counted
<1> QED
  BY <1>5, <1>6, <1>7, <1>8, <1>9

(* Every step preserves the invariant. *)
LEMMA NextInv == ConstAssumption /\ IInv /\ [Next]_vars => IInv'
<1> SUFFICES ASSUME ConstAssumption, IInv, [Next]_vars PROVE IInv'
  OBVIOUS
<1>1. CASE Destroy
  BY <1>1, DestroyInv, ZenonT(60)
<1>2. CASE \E a \in Accessor : Continue(a)
  BY <1>2, LockInv, PushInv, MarkInv, LoadInv, CheckInv, LeaveInv, UnlockInv,
     SwapInv, ClearInv, DestroyNodeInv, DestroyDoneInv, ZenonT(60) DEF Continue
<1>3. CASE \E a \in Accessor : Call(a)
  BY <1>3, EnterInv, LoadInv, LinkInv, UnlinkInv, ZenonT(60) DEF Call
<1>4. CASE UNCHANGED vars
  <2> USE DEF vars, recyclerVars, localVars
  <2>1. TypeOK' /\ Control' /\ DirtyInv'
    BY <1>4, ZenonT(60) DEF IInv, TypeOK, Control, DirtyInv
  <2>2. Custody' /\ Safe' /\ NoUseAfterFree'
    BY <1>4 DEF IInv, Custody, Holds, Safe, NoUseAfterFree
  <2>3. RefsExact'
    BY <1>4 DEF IInv, RefsExact, Counted
  <2> QED
    BY <2>1, <2>2, <2>3, ZenonT(60) DEF IInv
<1> QED
  BY <1>1, <1>2, <1>3, <1>4 DEF Next

(* The inductive invariant holds throughout. *)
THEOREM Invariance == Spec => []IInv
<1>1. Init => IInv
  BY InitInv, ConstAssumption
<1>2. IInv /\ [Next]_vars => IInv'
  BY NextInv, ConstAssumption
<1> QED
  BY <1>1, <1>2, PTL DEF Spec

(* Type correctness of the recycler and its callers. *)
THEOREM TypeCorrect == Spec => []TypeOK
<1>1. IInv => TypeOK
  BY DEF IInv
<1> QED
  BY <1>1, Invariance, PTL

(* refs_ is the number of live Accessors, for any number of them. *)
THEOREM RefsCount == Spec => []RefsExact
<1>1. IInv => RefsExact
  BY DEF IInv
<1> QED
  BY <1>1, Invariance, PTL

(* No Accessor's client ever points to a destroyed node. *)
THEOREM PointersStayValid == Spec => []NoUseAfterFree
<1>1. IInv => NoUseAfterFree
  BY DEF IInv
<1> QED
  BY <1>1, Invariance, PTL

(* Every removed node has exactly one owner: none leaks, none is destroyed *)
(* twice.                                                                  *)
THEOREM RemovedNodesOwned == Spec => []Custody
<1>1. IInv => Custody
  BY DEF IInv
<1> QED
  BY <1>1, Invariance, PTL

(* dirty_ says whether nodes wait, whenever lock_ is free. *)
THEOREM DirtyTold == Spec => []DirtyExact
<1>1. ConstAssumption /\ IInv => DirtyExact
  BY DEF IInv, Control, DirtyInv, DirtyExact, Holding, ConstAssumption
<1> QED
  BY <1>1, Invariance, ConstAssumption, PTL

=============================================================================
