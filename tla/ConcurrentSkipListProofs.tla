---------------------- MODULE ConcurrentSkipListProofs ----------------------
(***************************************************************************)
(* Proofs about ConcurrentSkipList, for any number of threads, keys and    *)
(* layers: links lead upward, and locks are taken in one order.            *)
(*                                                                         *)
(* Searches run without locks and may stand on removed nodes, so neither   *)
(* fact can rest on what is reachable.  The invariant says instead what a  *)
(* thread knows for good of the nodes it has met: data and height of a     *)
(* node never change, so "a key below mine" stays true whatever is linked  *)
(* and unlinked meanwhile.                                                 *)
(***************************************************************************)
EXTENDS ConcurrentSkipList, TLAPS

OrNull == Node \cup {nullptr}

Place == {"yes", "no", "height", "head", "search", "test", "found", "wait",
          "lock", "link", "linked", "count", "limit", "grow", "swap",
          "retire", "mark", "unlink", "uncount", "recycle"}

LocalType ==
  [op : {"none", "find", "add", "remove"}, data : Nat, maxLayer : Layer,
   pred : OrNull, layer : Layer,
   preds : [Layer -> OrNull], succs : [Layer -> OrNull],
   node : OrNull, foundLayer : Layer \cup {-1}, nodeHeight : 0 .. MAX_HEIGHT,
   i : 0 .. MAX_HEIGHT, nodeToDelete : OrNull, newNode : OrNull,
   newSize : Int]

Types ==
  /\ skip \in [Node -> [Layer -> OrNull]]
  /\ data \in [Node -> Nat]
  /\ height \in [Node -> 0 .. MAX_HEIGHT]
  /\ lock \in [Node -> Proc \cup {None}]
  /\ head \in Node /\ size \in Int
  /\ pc \in [Proc -> Place]
  /\ my \in [Proc -> LocalType]

Allocated(n) == height[n] > 0

(* What holds of the nodes, besides LinksUpward. *)
NodesFine ==
  /\ Allocated(head) /\ data[head] = 0
  /\ \A n \in Node : height[n] = 0 =>
       data[n] = 0 /\ \A l \in Layer : skip[n][l] = nullptr
  /\ \A n \in Node, l \in Layer :
       skip[n][l] # nullptr => Allocated(skip[n][l])

(* A thread's call and where it has come from. *)
CallFine(p) ==
  /\ pc[p] \notin Rest => my[p].data > 0 /\ my[p].op # "none"
  /\ pc[p] \in {"wait", "link", "linked", "count", "limit", "grow", "swap", "retire"}
       => my[p].op = "add"
  /\ pc[p] \in {"mark", "unlink", "uncount", "recycle"} => my[p].op = "remove"
  /\ pc[p] \in {"height", "found", "lock"} => my[p].op # "find"
  /\ pc[p] = "test" => my[p].op = "find"

(* What a search has met: the predecessors recorded descend with their     *)
(* layers and are below the key, the successors above it.                  *)
Met(p) ==
  /\ \A l \in Layer : my[p].preds[l] # nullptr =>
       Allocated(my[p].preds[l]) /\ data[my[p].preds[l]] < my[p].data
  /\ \A l \in Layer : my[p].succs[l] # nullptr =>
       /\ Allocated(my[p].succs[l])
       /\ my[p].foundLayer = -1 => my[p].data < data[my[p].succs[l]]
  /\ \A j, k \in Layer :
       j < k /\ my[p].preds[j] # nullptr /\ my[p].preds[k] # nullptr =>
         \/ my[p].preds[j] = my[p].preds[k]
         \/ data[my[p].preds[j]] > data[my[p].preds[k]]

(* Where a search stands, and the node it has found. *)
SearchFine(p) ==
  /\ pc[p] = "search" =>
       /\ my[p].pred # nullptr /\ Allocated(my[p].pred)
       /\ data[my[p].pred] < my[p].data
  /\ my[p].node # nullptr =>
       /\ Allocated(my[p].node)
       /\ pc[p] \notin {"swap", "retire"} => data[my[p].node] = my[p].data
  /\ pc[p] \in {"search", "found"} /\ my[p].op # "find" =>
       (my[p].node = nullptr <=> my[p].foundLayer = -1)
  /\ pc[p] \in {"height", "head"} => my[p].node = nullptr /\ my[p].foundLayer = -1
  /\ pc[p] = "search" /\ my[p].op # "find" => my[p].layer <= my[p].maxLayer
  /\ my[p].foundLayer <= my[p].maxLayer
  /\ my[p].maxLayer < height[head]

(* Which predecessors are recorded so far. *)
PredsFine(p) ==
  /\ pc[p] = "search" => \A k \in Layer :
       /\ k <= my[p].layer => my[p].preds[k] = nullptr
       /\ my[p].preds[k] # nullptr =>
            \/ my[p].pred = my[p].preds[k]
            \/ data[my[p].pred] > data[my[p].preds[k]]
       /\ my[p].op # "find" /\ my[p].layer < k /\ k <= my[p].maxLayer =>
            my[p].preds[k] # nullptr
  /\ pc[p] \in {"height", "head"} => my[p].preds = NoLinks
  /\ pc[p] \in {"found", "mark", "lock"} => \A k \in Layer :
       k <= my[p].maxLayer => my[p].preds[k] # nullptr

(* What a thread is about to link, unlink or replace. *)
ChangeFine(p) ==
  /\ my[p].nodeToDelete # nullptr =>
       /\ my[p].op = "remove"
       /\ Allocated(my[p].nodeToDelete)
       /\ data[my[p].nodeToDelete] = my[p].data
       /\ my[p].nodeHeight = height[my[p].nodeToDelete]
       /\ my[p].nodeHeight <= height[head]
       /\ pc[p] \in {"head", "search", "found", "lock"} =>
            my[p].nodeHeight <= my[p].maxLayer + 1
  /\ pc[p] \in {"height", "head", "search", "found", "mark"} => my[p].i = 0
  /\ pc[p] = "mark" =>
       /\ my[p].nodeToDelete = nullptr /\ my[p].node # nullptr
       /\ height[my[p].node] = my[p].foundLayer + 1
  /\ pc[p] \in {"unlink", "uncount", "recycle"} => my[p].nodeToDelete # nullptr
  /\ pc[p] = "lock" =>
       /\ my[p].i < my[p].nodeHeight
       /\ my[p].nodeHeight <= my[p].maxLayer + 1
       /\ my[p].op = "remove" => my[p].nodeToDelete # nullptr
  /\ pc[p] = "unlink" => my[p].i \in Layer
  /\ pc[p] \in {"lock", "link"} /\ my[p].op = "add" => my[p].foundLayer = -1
  /\ pc[p] = "link" =>
       /\ my[p].i < my[p].nodeHeight
       /\ my[p].i > 0 =>
            /\ my[p].newNode # nullptr
            /\ height[my[p].newNode] = my[p].nodeHeight
            /\ data[my[p].newNode] = my[p].data
  /\ pc[p] = "grow" => my[p].nodeHeight > 1
  /\ pc[p] = "swap" =>
       my[p].node # nullptr /\ height[my[p].node] < my[p].nodeHeight

(* The locks that a thread holds. *)
LocksFine(p) ==
  \A n \in Node : lock[n] = p =>
    /\ pc[p] \in {"height", "head", "search", "found", "lock", "link", "linked",
                  "count", "retire", "unlink", "uncount", "recycle"}
    /\ pc[p] \in {"height", "head", "search", "found", "recycle"} =>
         n = my[p].nodeToDelete
    /\ pc[p] = "lock" =>
         \/ n = my[p].nodeToDelete
         \/ \E j \in Layer : j < my[p].i /\ n = my[p].preds[j]

ThreadFine(p) ==
  /\ CallFine(p) /\ Met(p) /\ SearchFine(p) /\ PredsFine(p)
  /\ ChangeFine(p) /\ LocksFine(p)

(* The inductive invariant. *)
IInv ==
  Types /\ NodesFine /\ LinksUpward /\ \A p \in Proc : ThreadFine(p)
-----------------------------------------------------------------------------

(* The constants as the provers need them. *)
LEMMA Consts ==
  /\ Nodes \in Nat /\ Node \subseteq Nat /\ 0 \notin Node /\ 1 \in Node
  /\ Layer \subseteq Nat /\ 0 \in Layer
  /\ \A l \in Layer : l < MAX_HEIGHT
  /\ MAX_HEIGHT \in Nat /\ MAX_HEIGHT > 0
  /\ Len(Initial) \in Nat
  /\ None \notin Proc
  BY ConstAssumption DEF Nodes, Node, Layer

(* Layers and the nodes they lead to are numbers. *)
LEMMA Numbers == (\A l \in Layer : l \in Nat) /\ (\A n \in OrNull : n \in Nat)
  BY Consts, ZenonT(60) DEF OrNull, nullptr

(* The local variables at the start of a call have their types. *)
LEMMA LocalTyped == Local \in LocalType
  BY Consts DEF Local, LocalType, NoLinks, OrNull, nullptr

(* The fields of the local variables, one by one. *)
Typed(m) ==
  /\ m.op \in {"none", "find", "add", "remove"}
  /\ m.data \in Nat
  /\ m.maxLayer \in Layer /\ m.maxLayer \in Nat /\ m.layer \in Layer /\ m.layer \in Nat
  /\ m.foundLayer \in Layer \cup {-1} /\ m.foundLayer \in Int
  /\ m.nodeHeight \in 0 .. MAX_HEIGHT /\ m.nodeHeight \in Nat
  /\ m.i \in 0 .. MAX_HEIGHT /\ m.i \in Nat /\ m.newSize \in Int
  /\ m.pred \in OrNull /\ m.node \in OrNull
  /\ m.newNode \in OrNull /\ m.nodeToDelete \in OrNull
  /\ m.preds \in [Layer -> OrNull] /\ m.succs \in [Layer -> OrNull]
  /\ \A l \in Layer : m.preds[l] \in OrNull /\ m.succs[l] \in OrNull

(* A record of local variables has fields of their types. *)
LEMMA FieldTypes ==
  ASSUME NEW m \in LocalType
  PROVE  Typed(m)
<1>0. \A l \in Layer \cup {-1} : l \in Int
  BY Consts DEF Layer
<1>1. m.foundLayer \in Int /\ m.maxLayer \in Nat /\ m.layer \in Nat
  BY <1>0, Consts, ZenonT(60) DEF LocalType
<1>2. m.nodeHeight \in Nat /\ m.i \in Nat
  BY DEF LocalType
<1>3. m.preds \in [Layer -> OrNull] /\ m.succs \in [Layer -> OrNull]
  BY ZenonT(60) DEF LocalType
<1>4. \A l \in Layer : m.preds[l] \in OrNull /\ m.succs[l] \in OrNull
  BY <1>3, ZenonT(60)
<1>5. /\ m.op \in {"none", "find", "add", "remove"} /\ m.data \in Nat
      /\ m.maxLayer \in Layer /\ m.layer \in Layer
      /\ m.foundLayer \in Layer \cup {-1} /\ m.newSize \in Int
  BY ZenonT(60) DEF LocalType
<1>6. /\ m.nodeHeight \in 0 .. MAX_HEIGHT /\ m.i \in 0 .. MAX_HEIGHT
      /\ m.pred \in OrNull /\ m.node \in OrNull
      /\ m.newNode \in OrNull /\ m.nodeToDelete \in OrNull
  BY ZenonT(60) DEF LocalType
<1> QED
  BY <1>1, <1>2, <1>3, <1>4, <1>5, <1>6, ZenonT(60) DEF Typed

(* What addOrGetData, remove and growHeight never do to a node that others *)
(* may know: change its key or its height, or shorten the head.            *)
Stable ==
  /\ \A n \in Node : Allocated(n) => height'[n] = height[n] /\ data'[n] = data[n]
  /\ height'[head'] >= height[head]

(* Local variables that a step leaves alone, in groups. *)
SameCall(m, k) == m.op = k.op /\ m.data = k.data /\ m.nodeToDelete = k.nodeToDelete
SameChange(m, k) == m.nodeHeight = k.nodeHeight /\ m.i = k.i /\ m.newNode = k.newNode
SameSearch(m, k) == m.maxLayer = k.maxLayer /\ m.pred = k.pred /\ m.layer = k.layer
SameFound(m, k) ==
  /\ m.preds = k.preds /\ m.succs = k.succs
  /\ m.node = k.node /\ m.foundLayer = k.foundLayer

(* What a thread has met stays as it was. *)
LEMMA MetKept ==
  ASSUME IInv, NEW p \in Proc, Stable, my'[p].data = my[p].data,
         my'[p].preds = my[p].preds, my'[p].succs = my[p].succs,
         my'[p].foundLayer = my[p].foundLayer
  PROVE  Met(p)'
<1>1. Met(p) /\ my[p] \in LocalType
  BY ZenonT(60) DEF IInv, ThreadFine, Types
<1>2. \A n \in OrNull : n # nullptr /\ Allocated(n) =>
        Allocated(n)' /\ data'[n] = data[n]
  BY ZenonT(60) DEF OrNull, Stable, Allocated
<1>3. \A l \in Layer : my[p].preds[l] \in OrNull /\ my[p].succs[l] \in OrNull
  BY <1>1, FieldTypes, ZenonT(60) DEF Typed
<1>4. \A l \in Layer : my[p].preds[l] # nullptr =>
        /\ Allocated(my[p].preds[l])' /\ data[my[p].preds[l]] < my[p].data
        /\ data'[my[p].preds[l]] = data[my[p].preds[l]]
  BY <1>1, <1>2, <1>3, ZenonT(60) DEF Met
<1>5. \A l \in Layer : my[p].succs[l] # nullptr =>
        /\ Allocated(my[p].succs[l])'
        /\ my[p].foundLayer = -1 => my[p].data < data[my[p].succs[l]]
        /\ data'[my[p].succs[l]] = data[my[p].succs[l]]
  BY <1>1, <1>2, <1>3, ZenonT(60) DEF Met
<1>6. \A j, k \in Layer :
        j < k /\ my[p].preds[j] # nullptr /\ my[p].preds[k] # nullptr =>
          \/ my[p].preds[j] = my[p].preds[k]
          \/ data[my[p].preds[j]] > data[my[p].preds[k]]
  BY <1>1, ZenonT(60) DEF Met
<1> QED
  BY <1>4, <1>5, <1>6, ZenonT(60) DEF Met

(* What a thread knows stays true when another thread takes a step. *)
LEMMA OtherKept ==
  ASSUME IInv, NEW q \in Proc, Types', Stable,
         my'[q] = my[q], pc'[q] = pc[q],
         \A n \in Node : lock'[n] = q => lock[n] = q
  PROVE  ThreadFine(q)'
<1>1. ThreadFine(q) /\ Types
  BY ZenonT(60) DEF IInv
<1>2. Typed(my[q])
  BY <1>1, FieldTypes, ZenonT(60) DEF Types
<1>3. \A n \in OrNull : n # nullptr /\ Allocated(n) =>
        Allocated(n)' /\ height'[n] = height[n] /\ data'[n] = data[n]
  BY <1>1, ZenonT(60) DEF OrNull, Stable, Allocated
<1>4. height[head] \in Int /\ height'[head'] \in Int /\ height'[head'] >= height[head]
  BY <1>1, Consts DEF Types, Stable
<1>5. CallFine(q)'
  BY <1>1, ZenonT(60) DEF ThreadFine, CallFine
<1>6. /\ my[q].maxLayer \in Nat /\ my[q].nodeHeight \in Nat
      /\ {my[q].pred, my[q].node, my[q].nodeToDelete, my[q].newNode} \subseteq OrNull
  BY <1>2, ZenonT(60) DEF Typed
<1>7. SearchFine(q)'
  <2>1. my[q].maxLayer < height[head] => my[q].maxLayer < height'[head']
    BY <1>4, <1>6
  <2> QED
    BY <2>1, <1>1, <1>3, <1>6, ZenonT(60) DEF ThreadFine, SearchFine
<1>8. PredsFine(q)'
  <2>1. pc[q] = "search" => \A l \in Layer : my[q].preds[l] # nullptr =>
          /\ data'[my[q].preds[l]] = data[my[q].preds[l]]
          /\ data'[my[q].pred] = data[my[q].pred]
    BY <1>1, <1>2, <1>3, ZenonT(60) DEF ThreadFine, Met, SearchFine, Typed
  <2> QED
    BY <2>1, <1>1, ZenonT(60) DEF ThreadFine, PredsFine
<1>9. ChangeFine(q)'
  <2>1. \A n \in {my[q].nodeToDelete, my[q].node, my[q].newNode} :
          n # nullptr /\ Allocated(n) =>
            Allocated(n)' /\ height'[n] = height[n] /\ data'[n] = data[n]
    BY <1>6, <1>3, ZenonT(60)
  <2>2. my[q].node # nullptr => Allocated(my[q].node)
    BY <1>1, ZenonT(60) DEF ThreadFine, SearchFine
  <2>3. /\ my[q].nodeHeight <= height[head] => my[q].nodeHeight <= height'[head']
        /\ my[q].nodeHeight \in Nat /\ my[q].i \in Nat
    BY SMTT(30), <1>2, <1>4 DEF Typed
  <2>4. pc[q] = "link" /\ my[q].i > 0 => Allocated(my[q].newNode)
    BY <2>3, <1>1 DEF ThreadFine, ChangeFine, Allocated
  <2> QED
    BY <2>1, <2>2, <2>3, <2>4, <1>1, ZenonT(60) DEF ThreadFine, ChangeFine
<1>10. LocksFine(q)'
  BY <1>1, ZenonT(60) DEF ThreadFine, LocksFine
<1>11. Met(q)'
  BY MetKept, ZenonT(60)
<1> QED
  BY <1>5, <1>7, <1>8, <1>9, <1>10, <1>11, ZenonT(60) DEF ThreadFine

(* The invariant after a step of thread p. *)
LEMMA Assemble ==
  ASSUME IInv, NEW p \in Proc, Types', Stable, NodesFine', LinksUpward',
         ThreadFine(p)',
         \A q \in Proc \ {p} :
           /\ my'[q] = my[q] /\ pc'[q] = pc[q]
           /\ \A n \in Node : lock'[n] = q => lock[n] = q
  PROVE  IInv'
<1>1. ASSUME NEW q \in Proc PROVE ThreadFine(q)'
  BY <1>1, OtherKept, ZenonT(60)
<1> QED
  BY <1>1, ZenonT(60) DEF IInv

(* The links stay as they are: only the thread's own part is to be shown. *)
LEMMA ThreadStep ==
  ASSUME IInv, NEW p \in Proc, NEW m \in LocalType, NEW at \in Place,
         my' = [my EXCEPT ![p] = m], pc' = [pc EXCEPT ![p] = at],
         UNCHANGED <<skip, data, height, head>>, size' \in Int,
         lock' \in [Node -> Proc \cup {None}],
         \A q \in Proc \ {p}, n \in Node : lock'[n] = q => lock[n] = q,
         ThreadFine(p)'
  PROVE  IInv'
<1>1. Types'
  BY ZenonT(60) DEF IInv, Types
<1>2. Stable /\ NodesFine' /\ LinksUpward'
  BY Consts DEF IInv, Types, Stable, NodesFine, LinksUpward, Allocated
<1> QED
  BY <1>1, <1>2, Assemble

(* What the steps below start from. *)
LEMMA Facts ==
  ASSUME IInv, NEW p \in Proc
  PROVE  /\ Types /\ ThreadFine(p) /\ my[p] \in LocalType /\ Typed(my[p])
         /\ height[head] \in Nat \ {0} /\ height[head] - 1 \in Layer
<1>1. Types /\ ThreadFine(p) /\ my[p] \in LocalType
  BY ZenonT(60) DEF IInv, Types
<1>2. Typed(my[p])
  BY <1>1, FieldTypes, ZenonT(60)
<1>3. height[head] \in 1 .. MAX_HEIGHT
  BY Consts DEF IInv, Types, NodesFine, Allocated
<1>4. height[head] \in Nat \ {0} /\ height[head] - 1 \in Layer
  BY <1>3, Consts DEF Layer
<1> QED
  BY <1>1, <1>2, <1>4, ZenonT(60)

(* Before a search nothing has been met. *)
LEMMA Afresh ==
  ASSUME IInv, NEW p \in Proc, UNCHANGED <<height, head>>,
         my'[p].preds = NoLinks, my'[p].succs = NoLinks, my'[p].node = nullptr,
         my'[p].foundLayer = -1, my'[p].maxLayer = 0,
         pc'[p] \notin {"search", "found", "mark", "lock"}
  PROVE  Met(p)' /\ SearchFine(p)' /\ PredsFine(p)'
<1>1. height'[head'] > 0 /\ -1 <= 0
  BY Facts
<1>2. Met(p)' /\ PredsFine(p)'
  BY ZenonT(60) DEF Met, PredsFine, NoLinks
<1> QED
  BY <1>1, <1>2, ZenonT(60) DEF SearchFine

(* A thread that returns holds no lock. *)
LEMMA ReturnKeeps ==
  ASSUME IInv, NEW p \in Proc, NEW answer \in Rest, Return(p, answer),
         UNCHANGED <<skip, data, height, head>>, size' \in Int,
         lock' \in [Node -> Proc \cup {None}],
         \A q \in Proc \ {p}, n \in Node : lock'[n] = q => lock[n] = q,
         \A n \in Node : lock'[n] # p
  PROVE  IInv'
<1>1. my'[p] = Local /\ pc'[p] = answer
  BY Facts, ZenonT(60) DEF Return, Goto, Types
<1>2. CallFine(p)' /\ ChangeFine(p)'
  BY <1>1 DEF CallFine, ChangeFine, Rest, Local
<1>3. Met(p)' /\ SearchFine(p)' /\ PredsFine(p)'
  BY <1>1, Afresh DEF Rest, Local
<1>4. LocksFine(p)'
  BY <1>1, ZenonT(60) DEF LocksFine
<1> QED
  BY <1>2, <1>3, <1>4, LocalTyped, ThreadStep, ZenonT(60)
     DEF ThreadFine, Return, Goto, Rest, Place

(* A thread that searches again keeps the lock of the node it removes. *)
LEMMA RetryKeeps ==
  ASSUME IInv, NEW p \in Proc, Retry(p), my[p].op \in {"add", "remove"},
         pc[p] \notin Rest,
         UNCHANGED <<skip, data, height, head>>, size' \in Int,
         lock' \in [Node -> Proc \cup {None}],
         \A q \in Proc \ {p}, n \in Node : lock'[n] = q => lock[n] = q,
         \A n \in Node : lock'[n] = p => n = my[p].nodeToDelete
  PROVE  IInv'
<1> DEFINE m == [Local EXCEPT !.op = my[p].op, !.data = my[p].data,
                              !.nodeToDelete = my[p].nodeToDelete,
                              !.nodeHeight = IF my[p].op = "add" THEN 0
                                             ELSE my[p].nodeHeight]
<1>1. my' = [my EXCEPT ![p] = m] /\ my'[p] = m /\ pc'[p] = "height"
  BY Facts, ZenonT(60) DEF Retry, Goto, Types
<1>2. m \in LocalType
  <2>1. /\ my[p].op \in {"none", "find", "add", "remove"} /\ my[p].data \in Nat
        /\ my[p].nodeToDelete \in OrNull
        /\ (IF my[p].op = "add" THEN 0 ELSE my[p].nodeHeight) \in 0 .. MAX_HEIGHT
    BY Facts, Consts DEF Typed
  <2> QED
    BY <2>1, LocalTyped, ZenonT(60) DEF LocalType
<1>3. /\ m.op = my[p].op /\ m.data = my[p].data
      /\ m.nodeToDelete = my[p].nodeToDelete
      /\ m.op = "remove" => m.nodeHeight = my[p].nodeHeight
      /\ m.preds = NoLinks /\ m.succs = NoLinks /\ m.node = nullptr
      /\ m.foundLayer = -1 /\ m.maxLayer = 0 /\ m.i = 0
  BY ZenonT(60) DEF Local
<1> HIDE DEF m
<1>4. CallFine(p)'
  BY <1>1, <1>3, Facts, ZenonT(60) DEF CallFine, ThreadFine
<1>5. Met(p)' /\ SearchFine(p)' /\ PredsFine(p)'
  BY <1>1, <1>3, Afresh, ZenonT(60)
<1>6. ChangeFine(p)'
  <2>1. ChangeFine(p)
    BY Facts, ZenonT(60) DEF ThreadFine
  <2> QED
    BY <1>1, <1>3, <2>1 DEF ChangeFine, Allocated
<1>7. LocksFine(p)'
  BY <1>1, <1>3, ZenonT(60) DEF LocksFine
<1> QED
  BY <1>1, <1>2, <1>4, <1>5, <1>6, <1>7, ThreadStep, ZenonT(60)
     DEF ThreadFine, Retry, Goto, Place

(* A call begins without locks. *)
LEMMA CallKeeps ==
  ASSUME IInv, NEW p \in Proc, NEW op \in {"find", "add", "remove"},
         NEW k \in Key, Call(p, op, k)
  PROVE  IInv'
<1> DEFINE m == [Local EXCEPT !.op = op, !.data = k]
           at == IF op = "find" THEN "head" ELSE "height"
<1>1. Types /\ ThreadFine(p)
  BY Facts, ZenonT(60)
<1>2. /\ my' = [my EXCEPT ![p] = m] /\ pc' = [pc EXCEPT ![p] = at] /\ pc[p] \in Rest
      /\ UNCHANGED <<skip, data, height, head, lock, size>>
  BY ZenonT(60) DEF Call, Goto, nodeVars, listVars
<1>3. my'[p] = m /\ pc'[p] = at
  BY <1>1, <1>2, ZenonT(60) DEF Types
<1>4. m \in LocalType
  BY ConstAssumption, LocalTyped, ZenonT(60) DEF LocalType
<1>5. /\ m.op = op /\ m.data = k /\ m.nodeToDelete = nullptr /\ m.i = 0
      /\ m.maxLayer = 0 /\ m.node = nullptr /\ m.foundLayer = -1
      /\ m.preds = NoLinks /\ m.succs = NoLinks
  BY ZenonT(60) DEF Local
<1> HIDE DEF m
<1>6. CallFine(p)' /\ ChangeFine(p)'
  BY <1>3, <1>5, ConstAssumption DEF CallFine, ChangeFine
<1>7. Met(p)' /\ SearchFine(p)' /\ PredsFine(p)'
  BY SMTT(30), <1>2, <1>3, <1>5, Afresh
<1>8. LocksFine(p)'
  BY <1>1, <1>2, ZenonT(60) DEF ThreadFine, Rest, LocksFine
<1> QED
  BY <1>1, <1>2, <1>4, <1>6, <1>7, <1>8, ThreadStep, ZenonT(60)
     DEF ThreadFine, Types, Place

(* During a search a thread's call and what it is about to change stay. *)
LEMMA Searching ==
  ASSUME IInv, NEW p \in Proc, NEW m \in LocalType,
         NEW at \in {"head", "search", "found"},
         my' = [my EXCEPT ![p] = m], pc' = [pc EXCEPT ![p] = at],
         SameCall(m, my[p]), SameChange(m, my[p]),
         pc[p] \in {"height", "head", "search"},
         at = "found" => my[p].op # "find",
         m.maxLayer = (IF pc[p] = "height" THEN height[head] - 1 ELSE my[p].maxLayer),
         UNCHANGED <<skip, data, height, head, lock, size>>,
         Met(p)', SearchFine(p)', PredsFine(p)'
  PROVE  IInv'
<1>1. Types /\ ThreadFine(p) /\ Typed(my[p]) /\ height[head] \in Nat \ {0}
  BY Facts, ZenonT(60)
<1>2. my'[p] = m /\ pc'[p] = at
  BY <1>1, ZenonT(60) DEF Types
<1>3. CallFine(p)'
  BY <1>1, <1>2, ZenonT(60) DEF ThreadFine, CallFine, Rest, SameCall
<1>4. ChangeFine(p)'
  <2>1. my[p].nodeHeight <= height[head] /\ pc[p] = "height" =>
          my[p].nodeHeight <= m.maxLayer + 1
    BY <1>1 DEF Typed
  <2>2. ChangeFine(p)
    BY <1>1, ZenonT(60) DEF ThreadFine
  <2> QED
    BY <2>1, <2>2, <1>2, ZenonT(60) DEF ChangeFine, SameCall, SameChange, Allocated
<1>5. LocksFine(p)'
  BY <1>1, <1>2, ZenonT(60) DEF ThreadFine, LocksFine, SameCall
<1> QED
  BY <1>1, <1>3, <1>4, <1>5, ThreadStep, ZenonT(60) DEF ThreadFine, Types, Place

(* The height of the head bounds the layers of the search. *)
LEMMA LoadHeightKeeps ==
  ASSUME IInv, NEW p \in Proc, LoadHeight(p)
  PROVE  IInv'
<1> DEFINE m == [my[p] EXCEPT !.maxLayer = height[head] - 1]
<1>1. /\ Types /\ ThreadFine(p) /\ my[p] \in LocalType
      /\ height[head] \in Nat \ {0} /\ height[head] - 1 \in Layer
  BY Facts, ZenonT(60)
<1>2. /\ my' = [my EXCEPT ![p] = m] /\ pc' = [pc EXCEPT ![p] = "head"]
      /\ pc[p] = "height" /\ UNCHANGED <<skip, data, height, head, lock, size>>
  BY ZenonT(60) DEF LoadHeight, Goto, nodeVars, listVars
<1>3. my'[p] = m /\ pc'[p] = "head"
  BY <1>1, <1>2, ZenonT(60) DEF Types
<1>4. m \in LocalType
  BY <1>1, ZenonT(60) DEF LocalType
<1>5. /\ SameCall(m, my[p]) /\ SameChange(m, my[p]) /\ SameFound(m, my[p])
      /\ m.maxLayer = height[head] - 1
  BY <1>1, ZenonT(60) DEF LocalType, SameCall, SameChange, SameFound
<1> HIDE DEF m
<1>6. my[p].node = nullptr /\ my[p].foundLayer = -1 /\ my[p].preds = NoLinks
  BY <1>1, <1>2, ZenonT(60) DEF ThreadFine, SearchFine, PredsFine
<1>7. m.maxLayer < height[head] /\ -1 <= m.maxLayer
  BY SMTT(30), <1>1, <1>5
<1>8. Met(p)'
  BY <1>1, <1>2, <1>3, <1>5, MetKept DEF SameCall, SameFound, Stable
<1>9. SearchFine(p)' /\ PredsFine(p)'
  BY <1>2, <1>3, <1>5, <1>6, <1>7, ZenonT(60) DEF SearchFine, PredsFine, SameFound
<1> QED
  BY <1>2, <1>4, <1>5, <1>8, <1>9, Searching, ZenonT(60)

(* The search begins at the head, below every key. *)
LEMMA LoadHeadKeeps ==
  ASSUME IInv, NEW p \in Proc, LoadHead(p)
  PROVE  IInv'
<1> DEFINE from == IF my[p].op = "find" THEN height[head] - 1 ELSE my[p].maxLayer
           m == [my[p] EXCEPT !.pred = head, !.layer = from]
<1>1. /\ Types /\ ThreadFine(p) /\ my[p] \in LocalType /\ Typed(my[p])
      /\ height[head] \in Nat \ {0} /\ height[head] - 1 \in Layer
  BY Facts, ZenonT(60)
<1>2. /\ my' = [my EXCEPT ![p] = m] /\ pc' = [pc EXCEPT ![p] = "search"]
      /\ pc[p] = "head" /\ UNCHANGED <<skip, data, height, head, lock, size>>
  BY ZenonT(60) DEF LoadHead, Goto, nodeVars, listVars
<1>3. my'[p] = m /\ pc'[p] = "search"
  BY <1>1, <1>2, ZenonT(60) DEF Types
<1>4. head \in OrNull /\ from \in Layer
  BY <1>1, ZenonT(60) DEF Types, OrNull, Typed
<1>5. from = my[p].maxLayer \/ my[p].op = "find"
  BY ZenonT(60)
<1> HIDE DEF from
<1>6. m \in LocalType
  BY <1>1, <1>4, ZenonT(60) DEF LocalType
<1>7. /\ SameCall(m, my[p]) /\ SameChange(m, my[p]) /\ SameFound(m, my[p])
      /\ m.maxLayer = my[p].maxLayer /\ m.pred = head /\ m.layer = from
  BY <1>1, ZenonT(60) DEF LocalType, SameCall, SameChange, SameFound
<1> HIDE DEF m
<1>8. /\ head # nullptr /\ Allocated(head) /\ data[head] = 0
      /\ my[p].data > 0 /\ data[head] < my[p].data
  <2>1. my[p].data > 0 /\ my[p].data \in Nat
    BY <1>1, <1>2, ZenonT(60) DEF ThreadFine, CallFine, Rest, Typed
  <2> QED
    BY <2>1, Consts, ZenonT(60) DEF IInv, Types, NodesFine, nullptr
<1>9. /\ my[p].node = nullptr /\ my[p].foundLayer = -1 /\ my[p].preds = NoLinks
      /\ my[p].maxLayer < height[head] /\ my[p].foundLayer <= my[p].maxLayer
  BY <1>1, <1>2, ZenonT(60) DEF ThreadFine, SearchFine, PredsFine
<1>10. Met(p)'
  BY <1>1, <1>2, <1>3, <1>7, MetKept DEF SameCall, SameFound, Stable
<1>11. SearchFine(p)'
  <2>1. my[p].maxLayer <= my[p].maxLayer
    BY <1>1 DEF Typed
  <2> QED
    BY <2>1, <1>2, <1>3, <1>5, <1>7, <1>8, <1>9, ZenonT(60)
       DEF SearchFine, SameCall, SameFound, Allocated
<1>12. PredsFine(p)'
  <2>1. \A k \in Layer : ~(my[p].maxLayer < k /\ k <= my[p].maxLayer)
    BY <1>1, Numbers DEF Typed
  <2>2. \A k \in Layer : my'[p].preds[k] = nullptr
    BY <1>3, <1>7, <1>9, ZenonT(60) DEF SameFound, NoLinks
  <2> QED
    BY <2>1, <2>2, <1>3, <1>5, <1>7, ZenonT(60) DEF PredsFine, SameCall
<1> QED
  BY <1>2, <1>6, <1>7, <1>10, <1>11, <1>12, Searching, ZenonT(60)

(* What a search loads: a node with a larger key than the one it stands on. *)
LEMMA LoadedFacts ==
  ASSUME IInv, NEW p \in Proc, pc[p] = "search"
  PROVE  /\ Loaded(p) \in OrNull /\ my[p].data \in Nat
         /\ \A n \in OrNull : n # nullptr => n \in Node /\ data[n] \in Nat
         /\ Loaded(p) # nullptr =>
              Allocated(Loaded(p)) /\ data[my[p].pred] < data[Loaded(p)]
<1>1. /\ Types /\ ThreadFine(p) /\ Typed(my[p])
  BY Facts, ZenonT(60)
<1>2. \A n \in OrNull : n # nullptr => n \in Node /\ data[n] \in Nat
  BY <1>1, ZenonT(60) DEF Types, OrNull
<1>3. my[p].pred \in Node /\ my[p].layer \in Layer
  BY <1>1, <1>2, ZenonT(60) DEF ThreadFine, SearchFine, Typed
<1>4. Loaded(p) \in OrNull
  BY <1>1, <1>3, ZenonT(60) DEF Loaded, Types
<1> QED
  BY <1>1, <1>2, <1>3, <1>4, ZenonT(60)
     DEF Loaded, IInv, NodesFine, LinksUpward, Typed

(* To the right the keys grow and stay below the one searched for. *)
LEMMA AdvanceKeeps ==
  ASSUME IInv, NEW p \in Proc, Advance(p)
  PROVE  IInv'
<1> DEFINE m == [my[p] EXCEPT !.pred = Loaded(p)]
<1>1. /\ Types /\ ThreadFine(p) /\ my[p] \in LocalType /\ Typed(my[p])
      /\ height[head] \in Nat \ {0}
  BY Facts, ZenonT(60)
<1>2. /\ my' = [my EXCEPT ![p] = m] /\ pc[p] = "search" /\ pc' = pc
      /\ greater(my[p].data, Loaded(p))
      /\ UNCHANGED <<skip, data, height, head, lock, size>>
  BY ZenonT(60) DEF Advance, nodeVars, listVars
<1>3. my'[p] = m /\ pc' = [pc EXCEPT ![p] = "search"]
  BY <1>1, <1>2, ZenonT(60) DEF Types
<1>4. /\ Loaded(p) \in OrNull /\ Loaded(p) # nullptr /\ Allocated(Loaded(p))
      /\ data[Loaded(p)] < my[p].data /\ data[my[p].pred] < data[Loaded(p)]
      /\ \A n \in OrNull : n # nullptr => data[n] \in Nat
  BY <1>2, LoadedFacts, ZenonT(60) DEF greater
<1>5. m \in LocalType
  BY <1>1, <1>4, ZenonT(60) DEF LocalType
<1>6. /\ SameCall(m, my[p]) /\ SameChange(m, my[p]) /\ SameFound(m, my[p])
      /\ m.maxLayer = my[p].maxLayer /\ m.layer = my[p].layer /\ m.pred = Loaded(p)
  BY <1>1, ZenonT(60) DEF LocalType, SameCall, SameChange, SameFound
<1> HIDE DEF m
<1>7. Met(p)'
  BY <1>1, <1>2, <1>3, <1>6, MetKept DEF SameCall, SameFound, Stable
<1>8. SearchFine(p)'
  BY <1>1, <1>2, <1>3, <1>4, <1>6, ZenonT(60)
     DEF ThreadFine, SearchFine, SameCall, SameFound, Allocated
<1>9. PredsFine(p)'
  <2>1. PredsFine(p) /\ my[p].pred # nullptr
    BY <1>1, <1>2, ZenonT(60) DEF ThreadFine, SearchFine
  <2>2. \A l \in Layer : my[p].preds[l] # nullptr =>
          \/ my[p].pred = my[p].preds[l]
          \/ data[my[p].pred] > data[my[p].preds[l]]
    BY <2>1, <1>2, ZenonT(60) DEF PredsFine
  <2>3. /\ data[my[p].pred] \in Nat /\ data[Loaded(p)] \in Nat
        /\ \A l \in Layer : my[p].preds[l] # nullptr => data[my[p].preds[l]] \in Nat
    BY <1>1, <2>1, <1>4, ZenonT(60) DEF Typed
  <2>4. \A l \in Layer : my[p].preds[l] # nullptr =>
          data[Loaded(p)] > data[my[p].preds[l]]
    BY <2>2, <2>3, <1>4
  <2> QED
    BY <2>1, <2>4, <1>2, <1>3, <1>6, ZenonT(60) DEF PredsFine, SameCall, SameFound
<1> QED
  BY <1>2, <1>3, <1>5, <1>6, <1>7, <1>8, <1>9, Searching, ZenonT(60)

(* The search goes down from the predecessor it has reached. *)
LEMMA DownKeeps ==
  ASSUME IInv, NEW p \in Proc, Down(p)
  PROVE  IInv'
<1> DEFINE l == my[p].layer
           first == my[p].foundLayer = -1 /\ Equal(my[p].data, Loaded(p))
           found == IF first THEN l ELSE my[p].foundLayer
           node == IF first THEN Loaded(p) ELSE my[p].node
           succ == IF node # nullptr THEN node ELSE Loaded(p)
           next == IF l = 0 THEN 0 ELSE l - 1
           m == [my[p] EXCEPT !.foundLayer = found, !.node = node,
                              !.preds[l] = my[p].pred, !.succs[l] = succ,
                              !.layer = next]
           at == IF l > 0 THEN "search" ELSE "found"
<1>1. /\ Types /\ ThreadFine(p) /\ my[p] \in LocalType /\ Typed(my[p])
      /\ height[head] \in Nat \ {0} /\ height[head] - 1 \in Layer
  BY Facts, ZenonT(60)
<1>2. my' = [my EXCEPT ![p] = m] /\ my'[p] = m
  BY <1>1, ZenonT(60) DEF Down, Types
<1>3. /\ pc' = [pc EXCEPT ![p] = at] /\ pc'[p] = at
      /\ pc[p] = "search" /\ my[p].op # "find" /\ ~greater(my[p].data, Loaded(p))
  BY <1>1, ZenonT(60) DEF Down, Goto, Types
<1>4. /\ Loaded(p) \in OrNull
      /\ Loaded(p) # nullptr =>
           /\ Allocated(Loaded(p)) /\ data[Loaded(p)] >= my[p].data
           /\ ~Equal(my[p].data, Loaded(p)) => data[Loaded(p)] > my[p].data
      /\ Equal(my[p].data, Loaded(p)) =>
           Loaded(p) # nullptr /\ data[Loaded(p)] = my[p].data
      /\ \A n \in OrNull : n # nullptr => data[n] \in Nat
  BY <1>3, LoadedFacts DEF greater, Equal
<1>5. /\ l \in Layer /\ l \in Nat /\ l <= my[p].maxLayer
      /\ next \in Layer /\ next \in Nat /\ (l > 0 => next = l - 1)
  <2>1. l \in Layer /\ l \in Nat /\ l <= my[p].maxLayer
    BY <1>1, <1>3, ZenonT(60) DEF ThreadFine, SearchFine, Typed
  <2>2. next \in Layer /\ next \in Nat /\ (l > 0 => next = l - 1)
    <3> HIDE DEF l
    <3> QED
      BY <2>1, Consts DEF Layer
  <2> QED
    BY <2>1, <2>2, ZenonT(60)
<1>6. /\ node \in OrNull /\ found \in Layer \cup {-1} /\ succ \in OrNull
      /\ found \in Int /\ found <= my[p].maxLayer
      /\ found = -1 => my[p].foundLayer = -1
      /\ node # nullptr => Allocated(node) /\ data[node] = my[p].data
      /\ node = nullptr <=> found = -1
      /\ succ # nullptr =>
           Allocated(succ) /\ (found = -1 => my[p].data < data[succ])
  <2>1. /\ my[p].foundLayer \in Layer \cup {-1} /\ my[p].node \in OrNull
        /\ my[p].foundLayer \in Int /\ my[p].foundLayer <= my[p].maxLayer
        /\ my[p].node = nullptr <=> my[p].foundLayer = -1
        /\ my[p].node # nullptr =>
             Allocated(my[p].node) /\ data[my[p].node] = my[p].data
        /\ my[p].maxLayer \in Nat /\ my[p].data \in Nat
    BY <1>1, <1>3, ZenonT(60) DEF ThreadFine, SearchFine, Typed
  <2>2. CASE first
    <3>1. node = Loaded(p) /\ found = l /\ succ = Loaded(p) /\ l # -1
      BY SMTT(30), <2>2, <1>5
    <3> QED
      BY SMTT(30), <2>2, <1>4, <1>5
  <2>3. CASE ~first
    <3>1. node = my[p].node /\ found = my[p].foundLayer
      BY <2>3, ZenonT(60)
    <3>2. CASE my[p].foundLayer = -1
      <4>1. node = nullptr /\ succ = Loaded(p) /\ ~Equal(my[p].data, Loaded(p))
        BY <2>1, <2>3, <3>2, ZenonT(60)
      <4> QED
        BY <2>1, <4>1, <1>4, ZenonT(60)
    <3>3. CASE my[p].foundLayer # -1
      <4>1. succ = node
        BY <2>1, <3>1, <3>3, ZenonT(60)
      <4> QED
        BY <2>1, <3>3, ZenonT(60)
    <3> HIDE DEF first, found, node, succ
    <3> QED
      BY <3>2, <3>3, ZenonT(60)
  <2> HIDE DEF first, found, node, succ
  <2> QED
    BY <2>2, <2>3, ZenonT(60)
<1> HIDE DEF l, first, found, node, succ, next
<1>7. m \in LocalType
  BY <1>1, <1>5, <1>6, ZenonT(60) DEF LocalType
<1>8. /\ SameCall(m, my[p]) /\ SameChange(m, my[p])
      /\ m.maxLayer = my[p].maxLayer /\ m.pred = my[p].pred /\ m.layer = next
      /\ m.node = node /\ m.foundLayer = found
      /\ m.preds = [my[p].preds EXCEPT ![l] = my[p].pred]
      /\ m.succs = [my[p].succs EXCEPT ![l] = succ]
  BY <1>1, ZenonT(60) DEF LocalType, SameCall, SameChange
<1>9. /\ \A k \in Layer : m.preds[k] = IF k = l THEN my[p].pred ELSE my[p].preds[k]
      /\ \A k \in Layer : m.succs[k] = IF k = l THEN succ ELSE my[p].succs[k]
  BY <1>1, <1>8 DEF Typed
<1>10. UNCHANGED <<skip, data, height, head, lock, size>>
  BY ZenonT(60) DEF Down, nodeVars, listVars
<1>a. /\ pc'[p] = "search" => m.layer = l - 1 /\ m.layer \in Nat
      /\ pc'[p] = "found" => l = 0
      /\ pc'[p] \in {"search", "found"}
  BY <1>3, <1>5, <1>8
<1> HIDE DEF m, at
<1>b. /\ my'[p] = m /\ pc'[p] = at
      /\ pc[p] = "search" /\ my[p].op # "find" /\ ~greater(my[p].data, Loaded(p))
  BY <1>2, <1>3, ZenonT(60)
<1>c. /\ my[p].pred # nullptr /\ Allocated(my[p].pred)
      /\ data[my[p].pred] < my[p].data
      /\ my[p].maxLayer \in Nat /\ my[p].maxLayer < height[head]
  BY <1>1, <1>b, ZenonT(60) DEF ThreadFine, SearchFine, Typed
<1>d. \A k \in Layer :
        /\ k <= l => my[p].preds[k] = nullptr
        /\ my[p].preds[k] # nullptr =>
             \/ my[p].pred = my[p].preds[k]
             \/ data[my[p].pred] > data[my[p].preds[k]]
        /\ l < k /\ k <= my[p].maxLayer => my[p].preds[k] # nullptr
  BY <1>1, <1>b, ZenonT(60) DEF ThreadFine, PredsFine, l
<1>11. Met(p)'
  <2> Met(p)
    BY <1>1, ZenonT(60) DEF ThreadFine
  <2>1. \A k \in Layer : m.preds[k] # nullptr =>
          Allocated(m.preds[k]) /\ data[m.preds[k]] < m.data
    BY <1>c, <1>8, <1>9, ZenonT(60) DEF Met, SameCall
  <2>2. \A k \in Layer : m.succs[k] # nullptr =>
          /\ Allocated(m.succs[k])
          /\ m.foundLayer = -1 => m.data < data[m.succs[k]]
    BY <1>6, <1>8, <1>9, ZenonT(60) DEF Met, SameCall
  <2>3. \A j, k \in Layer :
          j < k /\ m.preds[j] # nullptr /\ m.preds[k] # nullptr =>
            \/ m.preds[j] = m.preds[k]
            \/ data[m.preds[j]] > data[m.preds[k]]
    <3>1. \A j, k \in Layer :
            j < k /\ my[p].preds[j] # nullptr /\ my[p].preds[k] # nullptr =>
              \/ my[p].preds[j] = my[p].preds[k]
              \/ data[my[p].preds[j]] > data[my[p].preds[k]]
      BY ZenonT(60) DEF Met
    <3>2. \A j \in Layer : j < l => j <= l
      BY <1>5, Numbers
    <3>3. ~(l < l)
      BY <1>5
    <3> QED
      BY <3>1, <3>2, <3>3, <1>d, <1>9, ZenonT(60)
  <2> QED
    BY <2>1, <2>2, <2>3, <1>b, <1>10, ZenonT(60) DEF Met, Allocated
<1>12. SearchFine(p)'
  <2>1. pc'[p] = "search" => m.layer <= m.maxLayer
    BY <1>a, <1>c, <1>5, <1>8
  <2> QED
    BY <2>1, <1>b, <1>a, <1>c, <1>6, <1>8, <1>10, ZenonT(60)
       DEF SearchFine, SameCall, Allocated
<1>13. PredsFine(p)'
  <2>1. pc'[p] = "search" => \A k \in Layer :
          /\ k <= m.layer => m.preds[k] = nullptr
          /\ m.preds[k] # nullptr =>
               \/ m.pred = m.preds[k]
               \/ data[m.pred] > data[m.preds[k]]
          /\ m.layer < k /\ k <= m.maxLayer => m.preds[k] # nullptr
    <3>1. ASSUME pc'[p] = "search", NEW k \in Layer
          PROVE  /\ k <= m.layer => k <= l /\ k # l
                 /\ m.layer < k => k = l \/ l < k
      <4>1. k \in Nat /\ l \in Nat /\ m.layer = l - 1
        BY <3>1, <1>a, <1>5, Numbers, ZenonT(60)
      <4> HIDE DEF l
      <4> QED
        BY <4>1
    <3> QED
      BY <3>1, <1>c, <1>d, <1>8, <1>9
  <2>2. pc'[p] = "found" => \A k \in Layer : k <= m.maxLayer => m.preds[k] # nullptr
    <3>1. \A k \in Layer : k = 0 \/ 0 < k
      BY Numbers
    <3> QED
      BY <3>1, <1>a, <1>c, <1>d, <1>8, <1>9, ZenonT(60)
  <2> QED
    BY <2>1, <2>2, <1>b, <1>a, <1>10, ZenonT(60) DEF PredsFine
<1> QED
  BY <1>2, <1>3, <1>a, <1>b, <1>7, <1>8, <1>10, <1>11, <1>12, <1>13, Searching,
     ZenonT(60)

(* A thread that removes nothing keeps no lock while it searches. *)
LEMMA NoLocks ==
  ASSUME IInv, NEW p \in Proc,
         pc[p] \notin {"lock", "link", "linked", "count", "retire"},
         my[p].nodeToDelete = nullptr
  PROVE  \A n \in Node : lock[n] # p
<1>1. ThreadFine(p) /\ 0 \notin Node
  BY Consts, ZenonT(60) DEF IInv
<1> QED
  BY <1>1, ZenonT(60) DEF ThreadFine, ChangeFine, LocksFine, nullptr

(* Only remove has a node to delete. *)
LEMMA NothingToDelete ==
  ASSUME IInv, NEW p \in Proc, my[p].op # "remove"
  PROVE  my[p].nodeToDelete = nullptr
  BY ZenonT(60) DEF IInv, ThreadFine, ChangeFine

(* A step of a thread without locks returns. *)
LEMMA ReturnFree ==
  ASSUME IInv, NEW p \in Proc, NEW answer \in Rest, Return(p, answer),
         UNCHANGED <<skip, data, height, head, lock, size>>,
         \A n \in Node : lock[n] # p
  PROVE  IInv'
<1>1. size \in Int /\ lock \in [Node -> Proc \cup {None}]
  BY ZenonT(60) DEF IInv, Types
<1> QED
  BY <1>1, ReturnKeeps, ZenonT(60)

(* The heights of nodes. *)
LEMMA Heights ==
  ASSUME IInv, NEW n \in OrNull, n # nullptr
  PROVE  height[n] \in 0 .. MAX_HEIGHT /\ height[n] \in Nat
<1>1. height \in [Node -> 0 .. MAX_HEIGHT] /\ MAX_HEIGHT \in Nat
  BY Consts, ZenonT(60) DEF IInv, Types
<1> QED
  BY <1>1 DEF OrNull

(* The guards are given up, and the lock of the node to delete is kept. *)
LEMMA ReleasedFacts ==
  ASSUME IInv, NEW p \in Proc, lock' = Released(p)
  PROVE  /\ lock' \in [Node -> Proc \cup {None}]
         /\ \A q \in Proc \ {p}, n \in Node : lock'[n] = q => lock[n] = q
         /\ \A n \in Node : lock'[n] = p => n = my[p].nodeToDelete
<1>1. lock \in [Node -> Proc \cup {None}] /\ None \notin Proc
  BY Consts, ZenonT(60) DEF IInv, Types
<1> QED
  BY <1>1, ZenonT(60) DEF Released, Guards

(* What was found stays found when the thread has gone on from its search. *)
LEMMA SearchKept ==
  ASSUME IInv, NEW p \in Proc, Stable, height'[head'] \in Int,
         my'[p].data = my[p].data, my'[p].maxLayer = my[p].maxLayer,
         my'[p].preds = my[p].preds, my'[p].succs = my[p].succs,
         my'[p].node = my[p].node, my'[p].foundLayer = my[p].foundLayer,
         pc'[p] \notin {"height", "head", "search", "found"},
         pc[p] \in {"swap", "retire"} => pc'[p] = "retire",
         pc'[p] \in {"mark", "lock"} => pc[p] \in {"found", "mark", "lock"}
  PROVE  Met(p)' /\ SearchFine(p)' /\ PredsFine(p)'
<1>1. ThreadFine(p) /\ Typed(my[p]) /\ height[head] \in Nat \ {0}
  BY Facts, ZenonT(60)
<1>2. my[p].node # nullptr =>
        Allocated(my[p].node)' /\ data'[my[p].node] = data[my[p].node]
  BY <1>1, ZenonT(60) DEF OrNull, Stable, Allocated, ThreadFine, SearchFine, Typed
<1>3. my[p].maxLayer < height'[head']
  <2>1. my[p].maxLayer < height[head] /\ my[p].maxLayer \in Nat
    BY <1>1, ZenonT(60) DEF ThreadFine, SearchFine, Typed
  <2> QED
    BY <2>1, <1>1 DEF Stable
<1>4. SearchFine(p)'
  BY <1>1, <1>2, <1>3, ZenonT(60) DEF ThreadFine, SearchFine
<1>5. PredsFine(p)'
  BY <1>1, ZenonT(60) DEF ThreadFine, PredsFine
<1> QED
  BY <1>4, <1>5, MetKept, ZenonT(60)

(* A step that moves no node and not the head. *)
LEMMA Unmoved ==
  ASSUME Types, UNCHANGED <<data, height, head>>
  PROVE  Stable /\ height'[head'] \in Int
<1>1. height[head] \in Int
  BY DEF Types
<1> QED
  BY <1>1 DEF Stable

(* Where the thread goes from here suits its call. *)
Suits(op, at) ==
  /\ at \in {"wait", "link", "linked", "count", "limit", "grow", "swap", "retire"}
       => op = "add"
  /\ at \in {"mark", "unlink", "uncount", "recycle"} => op = "remove"
  /\ at = "lock" => op # "find"
  /\ at \notin Rest \cup {"height", "head", "search", "test", "found"}

(* A thread that has come back from its search goes on: what it has found  *)
(* it keeps, and what it is about to change and its locks are to be shown. *)
LEMMA AfterSearch ==
  ASSUME IInv, NEW p \in Proc, NEW m \in LocalType, NEW at \in Place,
         my' = [my EXCEPT ![p] = m], pc' = [pc EXCEPT ![p] = at],
         SameCall(m, my[p]), SameSearch(m, my[p]), SameFound(m, my[p]),
         Suits(my[p].op, at), pc[p] \notin Rest \cup {"swap", "retire"},
         at \in {"mark", "lock"} => pc[p] \in {"found", "mark", "lock"},
         UNCHANGED <<skip, data, height, head>>, size' \in Int,
         lock' \in [Node -> Proc \cup {None}],
         \A q \in Proc \ {p}, n \in Node : lock'[n] = q => lock[n] = q,
         ChangeFine(p)', LocksFine(p)'
  PROVE  IInv'
<1>1. Types /\ ThreadFine(p) /\ height[head] \in Nat \ {0}
  BY Facts, ZenonT(60)
<1>2. my'[p] = m /\ pc'[p] = at
  BY <1>1, ZenonT(60) DEF Types
<1>3. CallFine(p)'
  <2>1. CallFine(p) /\ my'[p].op = my[p].op /\ my'[p].data = my[p].data
    BY <1>1, <1>2, ZenonT(60) DEF ThreadFine, SameCall
  <2>2. my[p].data > 0 /\ my[p].op # "none"
    BY <2>1, ZenonT(60) DEF CallFine
  <2> QED
    BY <1>2, <2>1, <2>2, ZenonT(60) DEF CallFine, Suits
<1>4. Met(p)' /\ SearchFine(p)' /\ PredsFine(p)'
  <2>1. Stable /\ height'[head'] \in Int
    BY <1>1, Unmoved, ZenonT(60)
  <2> QED
    BY <2>1, <1>2, SearchKept, ZenonT(60)
       DEF SameCall, SameSearch, SameFound, Suits
<1>5. ThreadFine(p)'
  BY <1>3, <1>4, ZenonT(60) DEF ThreadFine
<1> QED
  BY <1>5, ThreadStep, ZenonT(60)

(* The same, for a step that leaves the thread's variables as they are. *)
LEMMA GoesOn ==
  ASSUME IInv, NEW p \in Proc, NEW at \in Place,
         my' = my, pc' = [pc EXCEPT ![p] = at],
         Suits(my[p].op, at), pc[p] \notin Rest \cup {"swap", "retire"},
         at \in {"mark", "lock"} => pc[p] \in {"found", "mark", "lock"},
         UNCHANGED <<skip, data, height, head>>, size' \in Int,
         lock' \in [Node -> Proc \cup {None}],
         \A q \in Proc \ {p}, n \in Node : lock'[n] = q => lock[n] = q,
         ChangeFine(p)', LocksFine(p)'
  PROVE  IInv'
<1>1. my[p] \in LocalType /\ my' = [my EXCEPT ![p] = my[p]]
  BY Facts, ZenonT(60) DEF Types
<1>2. /\ SameCall(my[p], my[p]) /\ SameSearch(my[p], my[p])
      /\ SameFound(my[p], my[p])
  BY ZenonT(60) DEF SameCall, SameSearch, SameFound
<1> QED
  BY <1>1, <1>2, AfterSearch, ZenonT(60)

(* The thread's place when only that is assigned. *)
LEMMA Gone ==
  ASSUME IInv, NEW p \in Proc, NEW at, Goto(p, at)
  PROVE  pc' = [pc EXCEPT ![p] = at] /\ pc'[p] = at
  BY ZenonT(60) DEF Goto, IInv, Types

(* find has come upon a node with the key. *)
LEMMA FoundKeeps ==
  ASSUME IInv, NEW p \in Proc, Equal(my[p].data, Loaded(p)), DownFind(p)
  PROVE  IInv'
<1> DEFINE m == [my[p] EXCEPT !.node = Loaded(p)]
<1>1. /\ Types /\ ThreadFine(p) /\ my[p] \in LocalType
      /\ height[head] \in Nat \ {0}
  BY Facts, ZenonT(60)
<1>2. /\ my' = [my EXCEPT ![p] = m] /\ pc' = [pc EXCEPT ![p] = "test"]
      /\ pc[p] = "search" /\ my[p].op = "find"
      /\ UNCHANGED <<skip, data, height, head, lock, size>>
  BY ZenonT(60) DEF DownFind, Goto, nodeVars, listVars
<1>3. my'[p] = m /\ pc'[p] = "test"
  BY <1>1, <1>2, ZenonT(60) DEF Types
<1>4. /\ Loaded(p) \in OrNull /\ Allocated(Loaded(p))
      /\ data[Loaded(p)] = my[p].data
      /\ my[p].nodeToDelete = nullptr /\ \A n \in Node : lock[n] # p
  BY <1>2, LoadedFacts, NothingToDelete, NoLocks, ZenonT(60) DEF Equal
<1>5. m \in LocalType
  BY <1>1, <1>4, ZenonT(60) DEF LocalType
<1>6. /\ SameCall(m, my[p]) /\ m.maxLayer = my[p].maxLayer
      /\ m.preds = my[p].preds /\ m.succs = my[p].succs
      /\ m.foundLayer = my[p].foundLayer /\ m.node = Loaded(p)
  BY <1>1, ZenonT(60) DEF LocalType, SameCall
<1> HIDE DEF m
<1>7. CallFine(p)'
  BY <1>1, <1>2, <1>3, <1>6, ZenonT(60) DEF ThreadFine, CallFine, Rest, SameCall
<1>8. Met(p)'
  BY <1>1, <1>2, <1>3, <1>6, MetKept DEF SameCall, Stable
<1>9. SearchFine(p)' /\ PredsFine(p)'
  BY <1>1, <1>2, <1>3, <1>4, <1>6, ZenonT(60)
     DEF ThreadFine, SearchFine, PredsFine, SameCall, Allocated
<1>10. ChangeFine(p)'
  BY <1>3, <1>4, <1>6, ZenonT(60) DEF SameCall, ChangeFine
<1>11. LocksFine(p)'
  BY <1>2, <1>4, ZenonT(60) DEF LocksFine
<1> QED
  BY <1>1, <1>2, <1>5, <1>7, <1>8, <1>9, <1>10, <1>11, ThreadStep, ZenonT(60)
     DEF ThreadFine, Types, Place

(* find goes down. *)
LEMMA DownRightKeeps ==
  ASSUME IInv, NEW p \in Proc, ~Equal(my[p].data, Loaded(p)), my[p].layer > 0,
         DownFind(p)
  PROVE  IInv'
<1> DEFINE m == [my[p] EXCEPT !.layer = my[p].layer - 1]
<1>1. /\ Types /\ ThreadFine(p) /\ my[p] \in LocalType /\ Typed(my[p])
      /\ height[head] \in Nat \ {0}
  BY Facts, ZenonT(60)
<1>2. /\ my' = [my EXCEPT ![p] = m] /\ pc' = pc
      /\ pc[p] = "search" /\ my[p].op = "find"
      /\ UNCHANGED <<skip, data, height, head, lock, size>>
  BY DEF DownFind, nodeVars, listVars
<1>3. my'[p] = m /\ pc' = [pc EXCEPT ![p] = "search"]
  BY <1>1, <1>2, ZenonT(60) DEF Types
<1>4. my[p].layer - 1 \in Layer /\ my[p].layer \in Nat
  <2>1. my[p].layer \in Nat /\ my[p].layer < MAX_HEIGHT /\ MAX_HEIGHT \in Nat
    BY <1>1, Consts, ZenonT(60) DEF Typed
  <2> QED
    BY <2>1 DEF Layer
<1>5. m \in LocalType
  BY <1>1, <1>4, ZenonT(60) DEF LocalType
<1>6. /\ SameCall(m, my[p]) /\ SameChange(m, my[p]) /\ SameFound(m, my[p])
      /\ m.maxLayer = my[p].maxLayer /\ m.pred = my[p].pred
      /\ m.layer = my[p].layer - 1
  BY <1>1, ZenonT(60) DEF LocalType, SameCall, SameChange, SameFound
<1> HIDE DEF m
<1>7. Met(p)'
  BY <1>1, <1>2, <1>3, <1>6, MetKept DEF SameCall, SameFound, Stable
<1>8. SearchFine(p)'
  BY <1>1, <1>2, <1>3, <1>6, ZenonT(60)
     DEF ThreadFine, SearchFine, SameCall, SameFound, Allocated
<1>9. PredsFine(p)'
  <2>1. \A k \in Layer : k <= my[p].layer - 1 => k <= my[p].layer
    BY <1>4, Numbers
  <2>2. /\ my'[p].preds = my[p].preds /\ my'[p].pred = my[p].pred
        /\ my'[p].op = "find" /\ my'[p].layer = my[p].layer - 1
    BY <1>2, <1>3, <1>6, ZenonT(60) DEF SameCall, SameFound
  <2>3. pc'[p] = "search" /\ data' = data
    BY <1>2, ZenonT(60)
  <2>4. \A k \in Layer :
          /\ k <= my[p].layer => my[p].preds[k] = nullptr
          /\ my[p].preds[k] # nullptr =>
               \/ my[p].pred = my[p].preds[k]
               \/ data[my[p].pred] > data[my[p].preds[k]]
    BY <1>1, <1>2, ZenonT(60) DEF ThreadFine, PredsFine
  <2> QED
    BY <2>1, <2>2, <2>3, <2>4, ZenonT(60) DEF PredsFine
<1> QED
  BY <1>2, <1>3, <1>5, <1>6, <1>7, <1>8, <1>9, Searching, ZenonT(60)

(* find goes down, has found the node, or has not. *)
LEMMA DownFindKeeps ==
  ASSUME IInv, NEW p \in Proc, DownFind(p)
  PROVE  IInv'
<1>1. CASE Equal(my[p].data, Loaded(p))
  BY <1>1, FoundKeeps, ZenonT(60)
<1>2. CASE ~Equal(my[p].data, Loaded(p)) /\ my[p].layer > 0
  BY <1>2, DownRightKeeps, ZenonT(60)
<1>3. CASE ~Equal(my[p].data, Loaded(p)) /\ ~(my[p].layer > 0)
  <2>1. Return(p, "no") /\ UNCHANGED <<skip, data, height, head, lock, size>>
    BY <1>3, ZenonT(60) DEF DownFind, nodeVars, listVars
  <2>2. \A n \in Node : lock[n] # p
    BY NothingToDelete, NoLocks, ZenonT(60) DEF DownFind
  <2> QED
    BY <2>1, <2>2, ReturnFree, ZenonT(60) DEF Rest
<1> QED
  BY <1>1, <1>2, <1>3, ZenonT(60)

(* find answers by the mark of the node. *)
LEMMA FindKeeps ==
  ASSUME IInv, NEW p \in Proc, find(p)
  PROVE  IInv'
<1>1. my[p].op # "remove" /\ pc[p] = "test"
  BY ZenonT(60) DEF find, IInv, ThreadFine, CallFine
<1>2. \A n \in Node : lock[n] # p
  BY <1>1, NothingToDelete, NoLocks, ZenonT(60)
<1>3. UNCHANGED <<skip, data, height, head, lock, size>>
  BY ZenonT(60) DEF find, nodeVars, listVars
<1>4. \E answer \in Rest : Return(p, answer)
  BY ZenonT(60) DEF find, Rest
<1> QED
  BY <1>2, <1>3, <1>4, ReturnFree, ZenonT(60)

(* add has waited for the node that is there. *)
LEMMA WaitLinkedKeeps ==
  ASSUME IInv, NEW p \in Proc, WaitLinked(p)
  PROVE  IInv'
<1>1. my[p].op # "remove" /\ pc[p] = "wait"
  BY ZenonT(60) DEF WaitLinked, IInv, ThreadFine, CallFine
<1>2. \A n \in Node : lock[n] # p
  BY <1>1, NothingToDelete, NoLocks, ZenonT(60)
<1>3. Return(p, "no") /\ UNCHANGED <<skip, data, height, head, lock, size>>
  BY ZenonT(60) DEF WaitLinked, nodeVars, listVars
<1> QED
  BY <1>2, <1>3, ReturnFree, ZenonT(60) DEF Rest

(* add waits for the node that is there. *)
LEMMA AddWaitKeeps ==
  ASSUME IInv, NEW p \in Proc, my[p].node \notin marked, AddFound(p)
  PROVE  IInv'
<1>1. Types /\ ThreadFine(p)
  BY Facts, ZenonT(60)
<1>2. /\ Goto(p, "wait") /\ pc[p] = "found" /\ my[p].op = "add"
      /\ UNCHANGED <<skip, data, height, head, lock, size, my>>
  BY ZenonT(60) DEF AddFound, nodeVars, listVars
<1>3. \A n \in Node : lock[n] # p
  BY <1>2, NothingToDelete, NoLocks, ZenonT(60)
<1>4. pc' = [pc EXCEPT ![p] = "wait"] /\ pc'[p] = "wait"
  BY <1>2, Gone, ZenonT(60)
<1>5. ChangeFine(p)'
  BY <1>1, <1>2, <1>4, ZenonT(60) DEF ThreadFine, ChangeFine, Allocated
<1>6. LocksFine(p)'
  BY <1>2, <1>3, ZenonT(60) DEF LocksFine
<1> QED
  BY <1>1, <1>2, <1>4, <1>5, <1>6, GoesOn, ZenonT(60)
     DEF Types, Place, Suits, Rest

(* add has found a node: it waits, or searches again when it is marked. *)
LEMMA AddFoundKeeps ==
  ASSUME IInv, NEW p \in Proc, AddFound(p)
  PROVE  IInv'
<1>1. CASE my[p].node \notin marked
  BY <1>1, AddWaitKeeps, ZenonT(60)
<1>2. CASE my[p].node \in marked
  <2>1. /\ Retry(p) /\ pc[p] = "found" /\ my[p].op = "add"
        /\ UNCHANGED <<skip, data, height, head, lock, size>>
    BY <1>2, ZenonT(60) DEF AddFound, nodeVars, listVars
  <2>2. \A n \in Node : lock[n] # p
    BY <2>1, NothingToDelete, NoLocks, ZenonT(60)
  <2>3. size \in Int /\ lock \in [Node -> Proc \cup {None}]
    BY ZenonT(60) DEF IInv, Types
  <2> QED
    BY <2>1, <2>2, <2>3, RetryKeeps, ZenonT(60) DEF Rest
<1> QED
  BY <1>1, <1>2, ZenonT(60)

(* The new node is no taller than the search was. *)
LEMMA AddHeightKeeps ==
  ASSUME IInv, NEW p \in Proc, AddHeight(p)
  PROVE  IInv'
<1>0. PICK h \in 1 .. my[p].maxLayer + 1 :
        my' = [my EXCEPT ![p].nodeHeight = h, ![p].i = 0]
  BY ZenonT(60) DEF AddHeight
<1> DEFINE m == [my[p] EXCEPT !.nodeHeight = h, !.i = 0]
<1>1. Types /\ ThreadFine(p) /\ my[p] \in LocalType /\ Typed(my[p])
  BY Facts, ZenonT(60)
<1>2. /\ Goto(p, "lock") /\ pc[p] = "found" /\ my[p].op = "add"
      /\ my[p].foundLayer = -1
      /\ UNCHANGED <<skip, data, height, head, lock, size>>
  BY ZenonT(60) DEF AddHeight, nodeVars, listVars
<1>3. my' = [my EXCEPT ![p] = m] /\ my'[p] = m
  BY <1>1, <1>0, ZenonT(60) DEF Types
<1>4. pc' = [pc EXCEPT ![p] = "lock"] /\ pc'[p] = "lock"
  BY <1>2, Gone, ZenonT(60)
<1>f. /\ h \in 0 .. MAX_HEIGHT /\ 0 \in 0 .. MAX_HEIGHT /\ 0 < h
      /\ h <= my[p].maxLayer + 1
  <2>1. my[p].maxLayer \in Nat /\ my[p].maxLayer < MAX_HEIGHT /\ MAX_HEIGHT \in Nat
    BY <1>1, Consts, ZenonT(60) DEF Typed
  <2> QED
    BY <1>0, <2>1
<1>5. m \in LocalType
  BY <1>1, <1>f, ZenonT(60) DEF LocalType
<1>6. /\ SameCall(m, my[p]) /\ SameSearch(m, my[p]) /\ SameFound(m, my[p])
      /\ m.nodeHeight = h /\ m.i = 0
  BY <1>1, ZenonT(60) DEF LocalType, SameCall, SameSearch, SameFound
<1> HIDE DEF m
<1>7. my[p].nodeToDelete = nullptr
  BY <1>2, NothingToDelete, ZenonT(60)
<1>b. /\ my'[p] = m /\ pc'[p] = "lock" /\ m.nodeToDelete = nullptr
      /\ m.op = "add" /\ m.foundLayer = -1 /\ m.maxLayer = my[p].maxLayer
      /\ m.nodeHeight = h /\ m.i = 0
  BY <1>2, <1>3, <1>4, <1>6, <1>7, ZenonT(60) DEF SameCall, SameSearch, SameFound
<1>8. ChangeFine(p)'
  BY <1>b, <1>f, ZenonT(60) DEF ChangeFine
<1>9. LocksFine(p)'
  <2>1. \A n \in Node : lock[n] # p
    BY <1>2, <1>7, NoLocks, ZenonT(60)
  <2> QED
    BY <2>1, <1>2, ZenonT(60) DEF LocksFine
<1> QED
  BY <1>1, <1>2, <1>3, <1>4, <1>5, <1>6, <1>8, <1>9, AfterSearch, ZenonT(60)
     DEF Types, Place, Suits, Rest

(* The predecessor that lockNodesForChange locks next, and its layer. *)
LEMMA LockFacts ==
  ASSUME IInv, NEW p \in Proc, pc[p] = "lock"
  PROVE  /\ my[p].i \in Layer /\ my[p].i \in Nat /\ my[p].i < my[p].nodeHeight
         /\ my[p].nodeHeight \in Nat /\ my[p].nodeHeight <= MAX_HEIGHT
         /\ my[p].preds[my[p].i] \in Node
<1>1. Types /\ ThreadFine(p) /\ Typed(my[p])
  BY Facts, ZenonT(60)
<1>2. /\ my[p].i \in Nat /\ my[p].nodeHeight \in Nat /\ my[p].maxLayer \in Nat
      /\ my[p].maxLayer < MAX_HEIGHT /\ MAX_HEIGHT \in Nat
  BY <1>1, Consts, ZenonT(60) DEF Typed
<1>3. my[p].i < my[p].nodeHeight /\ my[p].nodeHeight <= my[p].maxLayer + 1
  BY <1>1, ZenonT(60) DEF ThreadFine, ChangeFine
<1>4. my[p].i \in Layer /\ my[p].i <= my[p].maxLayer /\ my[p].nodeHeight <= MAX_HEIGHT
  BY <1>2, <1>3 DEF Layer
<1>5. my[p].preds[my[p].i] \in OrNull /\ my[p].preds[my[p].i] # nullptr
  BY <1>1, <1>4, ZenonT(60) DEF Typed, ThreadFine, PredsFine
<1> QED
  BY <1>2, <1>3, <1>4, <1>5, ZenonT(60) DEF OrNull

(* One more lock: those of the other threads are as they were. *)
LEMMA LockTaken ==
  ASSUME IInv, NEW p \in Proc, Valid(p, my[p].i), LockLayer(p)
  PROVE  /\ pc[p] = "lock" /\ size' \in Int
         /\ UNCHANGED <<skip, data, height, head>>
         /\ lock' \in [Node -> Proc \cup {None}]
         /\ \A q \in Proc \ {p}, n \in Node : lock'[n] = q => lock[n] = q
         /\ \A n \in Node :
              lock'[n] = p => n = my[p].preds[my[p].i] \/ lock[n] = p
<1>1. /\ pc[p] = "lock" /\ lock' = [lock EXCEPT ![my[p].preds[my[p].i]] = p]
      /\ UNCHANGED <<skip, data, height, head, size>>
  BY ZenonT(60) DEF LockLayer, nodeVars, listVars
<1>2. lock \in [Node -> Proc \cup {None}] /\ size \in Int
  BY ZenonT(60) DEF IInv, Types
<1>3. my[p].preds[my[p].i] \in Node
  BY <1>1, LockFacts, ZenonT(60)
<1> QED
  BY <1>1, <1>2, <1>3, ZenonT(60)

(* One predecessor locked, and the next layer. *)
LEMMA LockNextKeeps ==
  ASSUME IInv, NEW p \in Proc, Valid(p, my[p].i), my[p].i + 1 < my[p].nodeHeight,
         LockLayer(p)
  PROVE  IInv'
<1> DEFINE m == [my[p] EXCEPT !.i = my[p].i + 1]
<1>1. Types /\ ThreadFine(p) /\ my[p] \in LocalType
  BY Facts, ZenonT(60)
<1>2. my' = [my EXCEPT ![p] = m] /\ my'[p] = m
  BY <1>1, ZenonT(60) DEF LockLayer, Types
<1>3. /\ pc' = [pc EXCEPT ![p] = "lock"] /\ pc'[p] = "lock"
      /\ pc[p] = "lock" /\ my[p].op # "find"
  BY <1>1, ZenonT(60) DEF LockLayer, Types, ThreadFine, CallFine
<1>f. /\ my[p].i \in Nat /\ my[p].nodeHeight \in Nat
      /\ my[p].nodeHeight <= MAX_HEIGHT
  BY <1>3, LockFacts, ZenonT(60)
<1>4. m \in LocalType
  <2>1. my[p].i + 1 \in 0 .. MAX_HEIGHT
    BY SMTT(30), <1>f, Consts
  <2> QED
    BY <1>1, <2>1, ZenonT(60) DEF LocalType
<1>5. /\ SameCall(m, my[p]) /\ SameSearch(m, my[p]) /\ SameFound(m, my[p])
      /\ m.nodeHeight = my[p].nodeHeight /\ m.i = my[p].i + 1
  BY DEF SameCall, SameSearch, SameFound
<1> HIDE DEF m
<1>6. /\ my'[p] = m /\ pc'[p] = "lock" /\ pc[p] = "lock"
      /\ UNCHANGED <<skip, data, height, head>>
      /\ \A n \in Node :
           lock'[n] = p => n = my[p].preds[my[p].i] \/ lock[n] = p
  BY <1>2, <1>3, LockTaken, ZenonT(60)
<1>7. ChangeFine(p)'
  BY <1>1, <1>5, <1>6, ZenonT(60)
     DEF ThreadFine, ChangeFine, SameCall, SameSearch, SameFound, Allocated
<1>8. LocksFine(p)'
  <2>1. \A j \in Layer : j < my[p].i => j < my[p].i + 1
    BY SMTT(30), <1>f, Numbers
  <2>2. my[p].i < my[p].i + 1 /\ my[p].i \in Layer
    BY SMTT(30), <1>f, <1>3, LockFacts
  <2>3. LocksFine(p)
    BY <1>1, ZenonT(60) DEF ThreadFine
  <2> QED
    BY <2>1, <2>2, <2>3, <1>5, <1>6, ZenonT(60) DEF LocksFine, SameCall, SameFound
<1> QED
  BY <1>2, <1>3, <1>4, <1>5, <1>7, <1>8, LockTaken, AfterSearch, ZenonT(60)
     DEF Place, Suits, Rest

(* All predecessors are locked: add links. *)
LEMMA LockedAddKeeps ==
  ASSUME IInv, NEW p \in Proc, Valid(p, my[p].i), ~(my[p].i + 1 < my[p].nodeHeight),
         my[p].op = "add", LockLayer(p)
  PROVE  IInv'
<1> DEFINE m == [my[p] EXCEPT !.i = 0]
<1>1. Types /\ ThreadFine(p) /\ my[p] \in LocalType
  BY Facts, ZenonT(60)
<1>2. my' = [my EXCEPT ![p] = m] /\ my'[p] = m
  BY <1>1, ZenonT(60) DEF LockLayer, Types
<1>3. pc' = [pc EXCEPT ![p] = "link"] /\ pc'[p] = "link" /\ pc[p] = "lock"
  BY <1>1, ZenonT(60) DEF LockLayer, Goto, Types
<1>4. m \in LocalType
  <2>1. 0 \in 0 .. MAX_HEIGHT
    BY Consts
  <2> QED
    BY <1>1, <2>1, ZenonT(60) DEF LocalType
<1>5. /\ SameCall(m, my[p]) /\ SameSearch(m, my[p]) /\ SameFound(m, my[p])
      /\ m.nodeHeight = my[p].nodeHeight /\ m.i = 0
  BY <1>1, ZenonT(60) DEF LocalType, SameCall, SameSearch, SameFound
<1> HIDE DEF m
<1>6. my[p].foundLayer = -1 /\ my[p].nodeToDelete = nullptr
  BY <1>1, <1>3, ZenonT(60) DEF ThreadFine, ChangeFine
<1>7. 0 < my[p].nodeHeight /\ ~(0 > 0)
  BY <1>3, LockFacts
<1>b. /\ my'[p] = m /\ pc'[p] = "link" /\ m.nodeToDelete = nullptr
      /\ m.foundLayer = -1 /\ m.i < m.nodeHeight /\ ~(m.i > 0)
  BY <1>2, <1>3, <1>5, <1>6, <1>7, ZenonT(60) DEF SameCall, SameFound
<1>8. ChangeFine(p)'
  BY <1>b, ZenonT(60) DEF ChangeFine
<1>9. LocksFine(p)'
  BY <1>b, ZenonT(60) DEF LocksFine
<1> QED
  BY <1>2, <1>3, <1>4, <1>5, <1>8, <1>9, LockTaken, AfterSearch, ZenonT(60)
     DEF Place, Suits, Rest

(* All predecessors are locked: remove unlinks. *)
LEMMA LockedRemoveKeeps ==
  ASSUME IInv, NEW p \in Proc, Valid(p, my[p].i), ~(my[p].i + 1 < my[p].nodeHeight),
         my[p].op # "add", LockLayer(p)
  PROVE  IInv'
<1>1. Types /\ ThreadFine(p) /\ Typed(my[p])
  BY Facts, ZenonT(60)
<1>2. Goto(p, "unlink") /\ my' = my /\ pc[p] = "lock"
  BY ZenonT(60) DEF LockLayer
<1>3. pc' = [pc EXCEPT ![p] = "unlink"] /\ pc'[p] = "unlink"
  BY <1>2, Gone, ZenonT(60)
<1>4. my[p].op = "remove"
  BY <1>1, <1>2, ZenonT(60) DEF ThreadFine, CallFine, Rest, Typed
<1>5. my[p].i \in Layer /\ UNCHANGED <<skip, data, height, head>>
  BY <1>2, LockFacts, LockTaken, ZenonT(60)
<1>6. ChangeFine(p)'
  BY <1>1, <1>2, <1>3, <1>4, <1>5, ZenonT(60) DEF ThreadFine, ChangeFine, Allocated
<1>7. LocksFine(p)'
  BY <1>3, ZenonT(60) DEF LocksFine
<1> QED
  BY <1>2, <1>3, <1>4, <1>6, <1>7, LockTaken, GoesOn, ZenonT(60)
     DEF Place, Suits, Rest

(* lockNodesForChange, one layer: it goes on, is done, or gives up. *)
LEMMA LockLayerKeeps ==
  ASSUME IInv, NEW p \in Proc, LockLayer(p)
  PROVE  IInv'
<1>1. CASE Valid(p, my[p].i)
  BY <1>1, LockNextKeeps, LockedAddKeeps, LockedRemoveKeeps, ZenonT(60)
<1>2. CASE ~Valid(p, my[p].i)
  <2>1. /\ Retry(p) /\ lock' = Released(p) /\ pc[p] = "lock"
        /\ UNCHANGED <<skip, data, height, head, size>>
    BY <1>2, ZenonT(60) DEF LockLayer, nodeVars, listVars
  <2>2. my[p].op \in {"add", "remove"} /\ size \in Int
    BY <2>1, Facts, ZenonT(60) DEF ThreadFine, CallFine, Rest, Typed, Types
  <2> QED
    BY <2>1, <2>2, ReleasedFacts, RetryKeeps, ZenonT(60) DEF Rest
<1> QED
  BY <1>1, <1>2, ZenonT(60)

-----------------------------------------------------------------------------
(* Linking, counting, growing, marking and unlinking                       *)

(* The flag of the new node. *)
LEMMA SetFullyLinkedKeeps ==
  ASSUME IInv, NEW p \in Proc, SetFullyLinked(p)
  PROVE  IInv'
<1>1. Types /\ ThreadFine(p)
  BY Facts, ZenonT(60)
<1>2. /\ Goto(p, "count") /\ pc[p] = "linked"
      /\ UNCHANGED <<skip, data, height, head, lock, size, my>>
  BY ZenonT(60) DEF SetFullyLinked, listVars
<1>3. pc' = [pc EXCEPT ![p] = "count"] /\ pc'[p] = "count"
  BY <1>2, Gone, ZenonT(60)
<1>4. my[p].op = "add"
  BY <1>1, <1>2, ZenonT(60) DEF ThreadFine, CallFine
<1>5. ChangeFine(p)'
  BY <1>1, <1>2, <1>3, ZenonT(60) DEF ThreadFine, ChangeFine, Allocated
<1>6. LocksFine(p)'
  BY <1>3, ZenonT(60) DEF LocksFine
<1> QED
  BY <1>1, <1>2, <1>3, <1>4, <1>5, <1>6, GoesOn, ZenonT(60)
     DEF Types, Place, Suits, Rest

(* The guards are given up before the height is looked at. *)
LEMMA CountInKeeps ==
  ASSUME IInv, NEW p \in Proc, CountIn(p)
  PROVE  IInv'
<1> DEFINE m == [Local EXCEPT !.op = "add", !.data = my[p].data,
                              !.newSize = size + 1]
<1>1. Types /\ ThreadFine(p) /\ Typed(my[p])
  BY Facts, ZenonT(60)
<1>2. /\ my' = [my EXCEPT ![p] = m] /\ pc' = [pc EXCEPT ![p] = "limit"]
      /\ pc[p] = "count" /\ size' = size + 1 /\ lock' = Released(p)
      /\ UNCHANGED <<skip, data, height, head>>
  BY ZenonT(60) DEF CountIn, Goto, nodeVars
<1>3. my'[p] = m /\ pc'[p] = "limit"
  BY <1>1, <1>2, ZenonT(60) DEF Types
<1>4. my[p].op = "add" /\ my[p].data > 0 /\ my[p].nodeToDelete = nullptr
  BY <1>1, <1>2, NothingToDelete, ZenonT(60) DEF ThreadFine, CallFine, Rest
<1>5. /\ size' \in Int /\ lock' \in [Node -> Proc \cup {None}]
      /\ \A q \in Proc \ {p}, n \in Node : lock'[n] = q => lock[n] = q
      /\ \A n \in Node : lock'[n] # p
  BY SMTT(30), <1>1, <1>2, <1>4, ReleasedFacts, Consts DEF Types, nullptr
<1>6. m \in LocalType
  <2>1. my[p].data \in Nat /\ size + 1 \in Int
    BY <1>1 DEF Typed, Types
  <2> QED
    BY <2>1, LocalTyped, ZenonT(60) DEF LocalType
<1>7. /\ m.op = "add" /\ m.data = my[p].data /\ m.nodeToDelete = nullptr
      /\ m.maxLayer = 0 /\ m.node = nullptr /\ m.foundLayer = -1
      /\ m.preds = NoLinks /\ m.succs = NoLinks
  BY ZenonT(60) DEF Local
<1> HIDE DEF m
<1>8. CallFine(p)' /\ ChangeFine(p)'
  BY <1>3, <1>4, <1>7, ZenonT(60) DEF CallFine, ChangeFine
<1>9. Met(p)' /\ SearchFine(p)' /\ PredsFine(p)'
  BY <1>2, <1>3, <1>7, Afresh, ZenonT(60)
<1>10. LocksFine(p)'
  BY <1>5, ZenonT(60) DEF LocksFine
<1> QED
  BY <1>2, <1>5, <1>6, <1>8, <1>9, <1>10, ThreadStep, ZenonT(60)
     DEF ThreadFine, Place

(* The list is too small for its height. *)
LEMMA GrowNeededKeeps ==
  ASSUME IInv, NEW p \in Proc, height[head] < MAX_HEIGHT,
         my[p].newSize > SizeLimit[height[head]], CheckLimit(p)
  PROVE  IInv'
<1> DEFINE m == [my[p] EXCEPT !.nodeHeight = height[head] + 1]
<1>1. /\ Types /\ ThreadFine(p) /\ my[p] \in LocalType
      /\ height[head] \in Nat \ {0}
  BY Facts, ZenonT(60)
<1>2. /\ Goto(p, "grow") /\ my' = [my EXCEPT ![p] = m] /\ pc[p] = "limit"
      /\ UNCHANGED <<skip, data, height, head, lock, size>>
  BY ZenonT(60) DEF CheckLimit, nodeVars, listVars
<1>3. pc' = [pc EXCEPT ![p] = "grow"] /\ pc'[p] = "grow" /\ my'[p] = m
  BY <1>1, <1>2, Gone, ZenonT(60) DEF Types
<1>4. my[p].op = "add" /\ my[p].nodeToDelete = nullptr
  BY <1>1, <1>2, NothingToDelete, ZenonT(60) DEF ThreadFine, CallFine
<1>f. height[head] + 1 \in 0 .. MAX_HEIGHT /\ height[head] + 1 > 1
  BY <1>1, Consts
<1>5. m \in LocalType
  BY <1>1, <1>f, ZenonT(60) DEF LocalType
<1>6. /\ SameCall(m, my[p]) /\ SameSearch(m, my[p]) /\ SameFound(m, my[p])
      /\ m.nodeHeight = height[head] + 1
  BY <1>1, ZenonT(60) DEF LocalType, SameCall, SameSearch, SameFound
<1> HIDE DEF m
<1>b. /\ my'[p] = m /\ pc'[p] = "grow" /\ m.nodeToDelete = nullptr
      /\ m.nodeHeight > 1
  BY <1>3, <1>4, <1>6, <1>f, ZenonT(60) DEF SameCall
<1>7. ChangeFine(p)'
  BY <1>b, ZenonT(60) DEF ChangeFine
<1>8. LocksFine(p)'
  <2>1. \A n \in Node : lock[n] # p
    BY <1>2, <1>4, NoLocks, ZenonT(60)
  <2> QED
    BY <2>1, <1>2, ZenonT(60) DEF LocksFine
<1> QED
  BY <1>1, <1>2, <1>3, <1>4, <1>5, <1>6, <1>7, <1>8, AfterSearch, ZenonT(60)
     DEF Types, Place, Suits, Rest

(* growHeight has loaded a head that is too low. *)
LEMMA HeadLoadedKeeps ==
  ASSUME IInv, NEW p \in Proc, ~(height[head] >= my[p].nodeHeight), GrowHeight(p)
  PROVE  IInv'
<1> DEFINE m == [my[p] EXCEPT !.node = head]
<1>1. /\ Types /\ ThreadFine(p) /\ my[p] \in LocalType /\ Typed(my[p])
      /\ height[head] \in Nat \ {0}
  BY Facts, ZenonT(60)
<1>2. /\ my' = [my EXCEPT ![p] = m] /\ pc' = [pc EXCEPT ![p] = "swap"]
      /\ pc[p] = "grow" /\ UNCHANGED <<skip, data, height, head, lock, size>>
  BY ZenonT(60) DEF GrowHeight, Goto, nodeVars, listVars
<1>3. my'[p] = m /\ pc'[p] = "swap"
  BY <1>1, <1>2, ZenonT(60) DEF Types
<1>4. /\ my[p].op = "add" /\ my[p].nodeToDelete = nullptr
      /\ \A n \in Node : lock[n] # p
  BY <1>1, <1>2, NothingToDelete, NoLocks, ZenonT(60) DEF ThreadFine, CallFine
<1>5. /\ head \in OrNull /\ head # nullptr /\ Allocated(head)
      /\ height[head] < my[p].nodeHeight
  <2>1. head \in Node /\ 0 \notin Node
    BY <1>1, Consts, ZenonT(60) DEF Types
  <2>2. height[head] > 0 /\ height[head] \in Nat /\ my[p].nodeHeight \in Int
    BY SMTT(30), <1>1 DEF Typed
  <2>3. height[head] < my[p].nodeHeight
    BY <2>2
  <2> QED
    BY <2>1, <2>2, <2>3, ZenonT(60) DEF OrNull, nullptr, Allocated
<1>6. m \in LocalType
  BY <1>1, <1>5, ZenonT(60) DEF LocalType
<1>7. /\ SameCall(m, my[p]) /\ SameChange(m, my[p]) /\ m.maxLayer = my[p].maxLayer
      /\ m.preds = my[p].preds /\ m.succs = my[p].succs
      /\ m.foundLayer = my[p].foundLayer /\ m.node = head
  BY <1>1, ZenonT(60) DEF LocalType, SameCall, SameChange
<1> HIDE DEF m
<1>8. CallFine(p)'
  BY <1>1, <1>2, <1>3, <1>7, ZenonT(60) DEF ThreadFine, CallFine, Rest, SameCall
<1>9. Met(p)'
  BY <1>1, <1>2, <1>3, <1>7, MetKept DEF SameCall, Stable
<1>10. SearchFine(p)' /\ PredsFine(p)'
  BY <1>1, <1>2, <1>3, <1>5, <1>7, ZenonT(60)
     DEF ThreadFine, SearchFine, PredsFine, Allocated
<1>11. ChangeFine(p)'
  BY <1>2, <1>3, <1>4, <1>5, <1>7, ZenonT(60) DEF ChangeFine, SameCall, SameChange
<1>12. LocksFine(p)'
  BY <1>2, <1>4, ZenonT(60) DEF LocksFine
<1> QED
  BY <1>1, <1>2, <1>6, <1>8, <1>9, <1>10, <1>11, <1>12, ThreadStep, ZenonT(60)
     DEF ThreadFine, Types, Place

(* The limit for the height of the head, as add looks at it. *)
LEMMA CheckLimitKeeps ==
  ASSUME IInv, NEW p \in Proc, CheckLimit(p)
  PROVE  IInv'
<1>1. my[p].op # "remove" /\ pc[p] = "limit"
  BY ZenonT(60) DEF CheckLimit, IInv, ThreadFine, CallFine
<1>2. \A n \in Node : lock[n] # p
  BY <1>1, NothingToDelete, NoLocks, ZenonT(60)
<1>3. CASE height[head] < MAX_HEIGHT /\ my[p].newSize > SizeLimit[height[head]]
  BY <1>3, GrowNeededKeeps, ZenonT(60)
<1>4. CASE ~(height[head] < MAX_HEIGHT /\ my[p].newSize > SizeLimit[height[head]])
  <2>1. Return(p, "yes") /\ UNCHANGED <<skip, data, height, head, lock, size>>
    BY <1>4, ZenonT(60) DEF CheckLimit, nodeVars, listVars
  <2> QED
    BY <1>2, <2>1, ReturnFree, ZenonT(60) DEF Rest
<1> QED
  BY <1>3, <1>4, ZenonT(60)

(* growHeight loads the head, and leaves a head that is tall enough. *)
LEMMA GrowHeightKeeps ==
  ASSUME IInv, NEW p \in Proc, GrowHeight(p)
  PROVE  IInv'
<1>1. my[p].op # "remove" /\ pc[p] = "grow"
  BY ZenonT(60) DEF GrowHeight, IInv, ThreadFine, CallFine
<1>2. \A n \in Node : lock[n] # p
  BY <1>1, NothingToDelete, NoLocks, ZenonT(60)
<1>3. CASE ~(height[head] >= my[p].nodeHeight)
  BY <1>3, HeadLoadedKeeps, ZenonT(60)
<1>4. CASE height[head] >= my[p].nodeHeight
  <2>1. Return(p, "yes") /\ UNCHANGED <<skip, data, height, head, lock, size>>
    BY <1>4, ZenonT(60) DEF GrowHeight, nodeVars, listVars
  <2> QED
    BY <1>2, <2>1, ReturnFree, ZenonT(60) DEF Rest
<1> QED
  BY <1>3, <1>4, ZenonT(60)

(* The old head is given up, and with it the last lock. *)
LEMMA RetireHeadKeeps ==
  ASSUME IInv, NEW p \in Proc, RetireHead(p)
  PROVE  IInv'
<1>1. my[p].op # "remove"
  BY ZenonT(60) DEF RetireHead, IInv, ThreadFine, CallFine
<1>2. /\ Return(p, "yes") /\ lock' = Released(p)
      /\ UNCHANGED <<skip, data, height, head, size>> /\ size \in Int /\ 0 \notin Node
  BY Consts, ZenonT(60) DEF RetireHead, IInv, Types
<1>3. my[p].nodeToDelete = nullptr
  BY <1>1, NothingToDelete, ZenonT(60)
<1> QED
  BY <1>2, <1>3, ReleasedFacts, ReturnKeeps, ZenonT(60) DEF Rest, nullptr

(* remove has searched again, its node marked and locked. *)
LEMMA RemoveAgainKeeps ==
  ASSUME IInv, NEW p \in Proc, my[p].nodeToDelete # nullptr, RemoveFound(p)
  PROVE  IInv'
<1>1. Types /\ ThreadFine(p)
  BY Facts, ZenonT(60)
<1>2. /\ Goto(p, "lock") /\ pc[p] = "found" /\ my[p].op = "remove"
      /\ UNCHANGED <<skip, data, height, head, lock, size, my>>
  BY ZenonT(60) DEF RemoveFound, nodeVars, listVars
<1>3. pc' = [pc EXCEPT ![p] = "lock"] /\ pc'[p] = "lock"
  BY <1>2, Gone, ZenonT(60)
<1>4. /\ my[p].i = 0 /\ my[p].nodeHeight = height[my[p].nodeToDelete]
      /\ height[my[p].nodeToDelete] > 0
  BY <1>1, <1>2, ZenonT(60) DEF ThreadFine, ChangeFine, Allocated
<1>5. my[p].i < my[p].nodeHeight
  <2>1. height[my[p].nodeToDelete] \in Nat
    BY Facts, Heights, ZenonT(60) DEF Typed
  <2> QED
    BY <1>4, <2>1, ZenonT(60)
<1>6. ChangeFine(p)'
  BY <1>1, <1>2, <1>3, <1>5, ZenonT(60) DEF ThreadFine, ChangeFine, Allocated
<1>7. LocksFine(p)'
  BY <1>1, <1>2, <1>3, ZenonT(60) DEF ThreadFine, LocksFine
<1> QED
  BY <1>1, <1>2, <1>3, <1>6, <1>7, GoesOn, ZenonT(60)
     DEF Types, Place, Suits, Rest

(* remove has found a node that it may delete. *)
LEMMA RemoveMarkKeeps ==
  ASSUME IInv, NEW p \in Proc, my[p].nodeToDelete = nullptr, my[p].foundLayer >= 0,
         okToDelete(my[p].node, my[p].foundLayer), RemoveFound(p)
  PROVE  IInv'
<1>1. Types /\ ThreadFine(p) /\ Typed(my[p])
  BY Facts, ZenonT(60)
<1>2. /\ Goto(p, "mark") /\ pc[p] = "found" /\ my[p].op = "remove"
      /\ UNCHANGED <<skip, data, height, head, lock, size, my>>
  BY ZenonT(60) DEF RemoveFound, nodeVars, listVars
<1>3. pc' = [pc EXCEPT ![p] = "mark"] /\ pc'[p] = "mark"
  BY <1>2, Gone, ZenonT(60)
<1>4. /\ my[p].i = 0 /\ my[p].node # nullptr
      /\ height[my[p].node] = my[p].foundLayer + 1
  <2>1. my[p].i = 0
    BY <1>1, <1>2, ZenonT(60) DEF ThreadFine, ChangeFine
  <2>a. my[p].node \in OrNull /\ my[p].foundLayer \in Int
    BY <1>1, ZenonT(60) DEF Typed
  <2>b. my[p].foundLayer # -1
    BY <2>a
  <2>2. my[p].node # nullptr /\ my[p].node \in OrNull /\ my[p].foundLayer \in Int
    BY <1>1, <1>2, <2>a, <2>b, ZenonT(60) DEF ThreadFine, SearchFine
  <2>3. height[my[p].node] \in Nat
    BY <2>2, Heights, ZenonT(60)
  <2> QED
    BY <2>1, <2>2, <2>3 DEF okToDelete
<1>5. ChangeFine(p)'
  BY <1>2, <1>3, <1>4, ZenonT(60) DEF ChangeFine
<1>6. LocksFine(p)'
  <2>1. \A n \in Node : lock[n] # p
    BY <1>2, NoLocks, ZenonT(60)
  <2> QED
    BY <2>1, <1>2, ZenonT(60) DEF LocksFine
<1> QED
  BY <1>1, <1>2, <1>3, <1>5, <1>6, GoesOn, ZenonT(60)
     DEF Types, Place, Suits, Rest

(* remove has come back from its search. *)
LEMMA RemoveFoundKeeps ==
  ASSUME IInv, NEW p \in Proc, RemoveFound(p)
  PROVE  IInv'
<1>1. CASE my[p].nodeToDelete # nullptr
  BY <1>1, RemoveAgainKeeps, ZenonT(60)
<1>2. CASE /\ my[p].nodeToDelete = nullptr
           /\ my[p].foundLayer >= 0 /\ okToDelete(my[p].node, my[p].foundLayer)
  BY <1>2, RemoveMarkKeeps, ZenonT(60)
<1>3. CASE /\ my[p].nodeToDelete = nullptr
           /\ ~(my[p].foundLayer >= 0 /\ okToDelete(my[p].node, my[p].foundLayer))
  <2>1. Return(p, "no") /\ UNCHANGED <<skip, data, height, head, lock, size>>
    BY <1>3, ZenonT(60) DEF RemoveFound, nodeVars, listVars
  <2>2. \A n \in Node : lock[n] # p
    BY <1>3, NoLocks, ZenonT(60) DEF RemoveFound
  <2> QED
    BY <2>1, <2>2, ReturnFree, ZenonT(60) DEF Rest
<1> QED
  BY <1>1, <1>2, <1>3, ZenonT(60)

(* remove has locked and marked its node. *)
LEMMA MarkedKeeps ==
  ASSUME IInv, NEW p \in Proc, my[p].node \notin marked, MarkNode(p)
  PROVE  IInv'
<1> DEFINE m == [my[p] EXCEPT !.nodeToDelete = my[p].node,
                              !.nodeHeight = height[my[p].node]]
<1>1. /\ Types /\ ThreadFine(p) /\ my[p] \in LocalType /\ Typed(my[p])
      /\ height[head] \in Nat \ {0} /\ height[head] - 1 \in Layer
  BY Facts, ZenonT(60)
<1>2. my' = [my EXCEPT ![p] = m] /\ my'[p] = m
  BY <1>1, ZenonT(60) DEF MarkNode, Types, ThreadFine, CallFine
<1>3. /\ pc' = [pc EXCEPT ![p] = "lock"] /\ pc'[p] = "lock"
      /\ pc[p] = "mark" /\ my[p].op = "remove"
  BY <1>1, ZenonT(60) DEF MarkNode, Goto, Types, ThreadFine, CallFine
<1>f. /\ my[p].node \in OrNull /\ my[p].node # nullptr /\ my[p].i = 0
      /\ Allocated(my[p].node) /\ data[my[p].node] = my[p].data
      /\ height[my[p].node] \in 0 .. MAX_HEIGHT /\ height[my[p].node] \in Nat
      /\ height[my[p].node] <= my[p].maxLayer + 1
      /\ height[my[p].node] <= height[head]
      /\ size' \in Int /\ lock' \in [Node -> Proc \cup {None}]
      /\ \A q \in Proc \ {p}, n \in Node : lock'[n] = q => lock[n] = q
      /\ \A n \in Node : lock'[n] = p => n = my[p].node
  <2>1. /\ my[p].node # nullptr /\ my[p].i = 0 /\ my[p].node \in OrNull
        /\ height[my[p].node] = my[p].foundLayer + 1
    BY <1>1, <1>3, ZenonT(60) DEF ThreadFine, ChangeFine, Typed
  <2>2. /\ Allocated(my[p].node) /\ data[my[p].node] = my[p].data
        /\ my[p].foundLayer <= my[p].maxLayer /\ my[p].maxLayer < height[head]
        /\ my[p].foundLayer \in Int /\ my[p].maxLayer \in Nat
    BY <1>1, <1>3, <2>1, ZenonT(60) DEF ThreadFine, SearchFine, Typed
  <2>3. my[p].node \in Node
    BY <2>1, ZenonT(60) DEF OrNull
  <2>4. height[my[p].node] \in 0 .. MAX_HEIGHT /\ height[my[p].node] \in Nat
    BY <2>1, Heights, ZenonT(60)
  <2>5. /\ height[my[p].node] <= my[p].maxLayer + 1
        /\ height[my[p].node] <= height[head]
    BY <1>1, <2>1, <2>2
  <2>6. lock' = [lock EXCEPT ![my[p].node] = p] /\ size' = size
    BY ZenonT(60) DEF MarkNode, listVars
  <2>7. \A n \in Node : lock[n] # p
    BY <1>1, <1>3, ZenonT(60) DEF ThreadFine, LocksFine
  <2>8. /\ size' \in Int /\ lock' \in [Node -> Proc \cup {None}]
        /\ \A q \in Proc \ {p}, n \in Node : lock'[n] = q => lock[n] = q
        /\ \A n \in Node : lock'[n] = p => n = my[p].node
    BY <1>1, <2>3, <2>6, <2>7, ZenonT(60) DEF Types
  <2> QED
    BY <2>1, <2>2, <2>4, <2>5, <2>8, ZenonT(60)
<1>4. m \in LocalType
  BY <1>1, <1>f, ZenonT(60) DEF LocalType
<1>5. /\ SameSearch(m, my[p]) /\ SameFound(m, my[p])
      /\ m.op = my[p].op /\ m.data = my[p].data /\ m.nodeToDelete = my[p].node
      /\ m.nodeHeight = height[my[p].node] /\ m.i = my[p].i
  BY <1>1, ZenonT(60)
     DEF LocalType, Local, SameCall, SameChange, SameSearch, SameFound
<1>6. UNCHANGED <<skip, data, height, head>>
  BY ZenonT(60) DEF MarkNode, nodeVars, listVars
<1> HIDE DEF m
<1>b. /\ my'[p] = m /\ pc'[p] = "lock"
      /\ pc[p] = "mark" /\ my[p].op = "remove"
  BY <1>2, <1>3, ZenonT(60)
<1>7. Met(p)' /\ SearchFine(p)' /\ PredsFine(p)'
  <2>1. Stable /\ height'[head'] \in Int
    BY <1>1, <1>6 DEF Stable
  <2> QED
    BY <2>1, <1>b, <1>5, SearchKept, ZenonT(60) DEF SameSearch, SameFound
<1>8. CallFine(p)'
  BY <1>1, <1>b, <1>5, ZenonT(60) DEF ThreadFine, CallFine, Rest
<1>9. ChangeFine(p)'
  BY <1>b, <1>5, <1>6, <1>f, ZenonT(60) DEF ChangeFine, SameSearch, Allocated
<1>10. LocksFine(p)'
  BY <1>b, <1>5, <1>f, ZenonT(60) DEF LocksFine
<1> QED
  BY <1>1, <1>2, <1>3, <1>4, <1>6, <1>7, <1>8, <1>9, <1>10, <1>f, ThreadStep,
     ZenonT(60)
     DEF ThreadFine, Types, Place

(* remove has locked the node: it is its to delete, or another remove's. *)
LEMMA MarkNodeKeeps ==
  ASSUME IInv, NEW p \in Proc, MarkNode(p)
  PROVE  IInv'
<1>1. CASE my[p].node \notin marked
  BY <1>1, MarkedKeeps, ZenonT(60)
<1>2. CASE my[p].node \in marked
  <2>1. /\ Return(p, "no") /\ UNCHANGED <<skip, data, height, head, lock, size>>
        /\ pc[p] = "mark"
    BY <1>2, ZenonT(60) DEF MarkNode, listVars
  <2>2. \A n \in Node : lock[n] # p
    BY <2>1, ZenonT(60) DEF IInv, ThreadFine, LocksFine
  <2> QED
    BY <2>1, <2>2, ReturnFree, ZenonT(60) DEF Rest
<1> QED
  BY <1>1, <1>2, ZenonT(60)

(* The guards are given up, the lock of the node is kept. *)
LEMMA CountOutKeeps ==
  ASSUME IInv, NEW p \in Proc, CountOut(p)
  PROVE  IInv'
<1>1. Types /\ ThreadFine(p)
  BY Facts, ZenonT(60)
<1>2. /\ Goto(p, "recycle") /\ pc[p] = "uncount" /\ size' = size - 1
      /\ lock' = Released(p) /\ UNCHANGED <<skip, data, height, head, my>>
  BY ZenonT(60) DEF CountOut, nodeVars
<1>3. pc' = [pc EXCEPT ![p] = "recycle"] /\ pc'[p] = "recycle"
  BY <1>2, Gone, ZenonT(60)
<1>4. my[p].op = "remove" /\ size' \in Int
  BY <1>1, <1>2 DEF ThreadFine, CallFine, Types
<1>5. ChangeFine(p)'
  BY <1>1, <1>2, <1>3, ZenonT(60) DEF ThreadFine, ChangeFine, Allocated
<1>6. LocksFine(p)'
  BY <1>2, <1>3, ReleasedFacts, ZenonT(60) DEF LocksFine
<1> QED
  BY <1>2, <1>3, <1>4, <1>5, <1>6, ReleasedFacts, GoesOn, ZenonT(60)
     DEF Place, Suits, Rest

(* The node is recycled and its lock given up. *)
LEMMA RecycleKeeps ==
  ASSUME IInv, NEW p \in Proc, Recycle(p)
  PROVE  IInv'
<1>1. /\ Return(p, "yes") /\ UNCHANGED <<skip, data, height, head, size>>
      /\ lock' = [lock EXCEPT ![my[p].nodeToDelete] = None]
      /\ size \in Int /\ lock \in [Node -> Proc \cup {None}] /\ None \notin Proc
  BY Consts, ZenonT(60) DEF Recycle, nodeVars, IInv, Types
<1>2. \A n \in Node : lock[n] = p => n = my[p].nodeToDelete
  BY ZenonT(60) DEF Recycle, IInv, ThreadFine, LocksFine
<1>3. /\ lock' \in [Node -> Proc \cup {None}]
      /\ \A q \in Proc \ {p}, n \in Node : lock'[n] = q => lock[n] = q
      /\ \A n \in Node : lock'[n] # p
  BY <1>1, <1>2, ZenonT(60)
<1> QED
  BY <1>1, <1>3, ReturnKeeps, ZenonT(60) DEF Rest

(* Links into a removed node's successor skip its key, so the links still  *)
(* lead upward.                                                            *)
LEMMA UnlinkLayerKeeps ==
  ASSUME IInv, NEW p \in Proc, UnlinkLayer(p)
  PROVE  IInv'
<1> DEFINE i == my[p].i
           pred == my[p].preds[i]
           del == my[p].nodeToDelete
           succ == skip[del][i]
           m == [my[p] EXCEPT !.i = IF i > 0 THEN i - 1 ELSE i]
           at == IF i > 0 THEN "unlink" ELSE "uncount"
<1>1. /\ Types /\ ThreadFine(p) /\ my[p] \in LocalType /\ Typed(my[p])
      /\ height[head] \in Nat \ {0}
  BY Facts, ZenonT(60)
<1>2. pc[p] = "unlink" /\ my[p].op = "remove"
  BY <1>1, ZenonT(60) DEF UnlinkLayer, ThreadFine, CallFine
<1>3. /\ i \in Layer /\ i \in Nat /\ del \in OrNull /\ del # nullptr
      /\ data[del] = my[p].data /\ my[p].data \in Nat /\ pred \in OrNull
      /\ pred # nullptr => data[pred] < my[p].data
      /\ pred # nullptr => Allocated(pred)
  <2>1. i \in Layer /\ i \in Nat /\ del # nullptr /\ data[del] = my[p].data
    BY <1>1, <1>2, ZenonT(60) DEF ThreadFine, ChangeFine, Typed
  <2>2. del \in OrNull /\ my[p].data \in Nat /\ pred \in OrNull
    BY <1>1, <2>1, ZenonT(60) DEF Typed
  <2>3. pred # nullptr => Allocated(pred) /\ data[pred] < my[p].data
    BY <1>1, <2>1, ZenonT(60) DEF ThreadFine, Met
  <2> QED
    BY <2>1, <2>2, <2>3, ZenonT(60)
<1>4. skip' = [skip EXCEPT ![pred][i] = succ]
  BY ZenonT(60) DEF UnlinkLayer
<1>5. my' = [my EXCEPT ![p] = m] /\ pc' = [pc EXCEPT ![p] = at]
  <2>1. CASE i > 0
    BY <2>1, <1>1, ZenonT(60) DEF UnlinkLayer, Types
  <2>2. CASE ~(i > 0)
    BY <1>1 DEF UnlinkLayer, Goto, Types, LocalType
  <2> QED
    BY <2>1, <2>2, ZenonT(60)
<1>6. UNCHANGED <<data, height, head, lock, size>>
  BY ZenonT(60) DEF UnlinkLayer, listVars
<1>7. del \in Node /\ succ \in OrNull
  BY <1>1, <1>3 DEF OrNull, Types
<1>8. succ # nullptr => Allocated(succ) /\ my[p].data < data[succ]
  BY <1>3, <1>7, ZenonT(60) DEF IInv, NodesFine, LinksUpward
<1>9. \A n \in Node, l \in Layer :
        skip'[n][l] = IF n = pred /\ l = i THEN succ ELSE skip[n][l]
  BY <1>1, <1>4, ZenonT(60) DEF Types
<1>10. m \in LocalType /\ m.i \in Layer
  <2>1. (IF i > 0 THEN i - 1 ELSE i) \in 0 .. MAX_HEIGHT
    <3> HIDE DEF i
    <3> QED
      BY <1>3, Consts
  <2>2. (IF i > 0 THEN i - 1 ELSE i) \in Layer
    <3>1. i < MAX_HEIGHT /\ MAX_HEIGHT \in Nat /\ i \in Nat
      BY <1>3, Consts, ZenonT(60)
    <3> HIDE DEF i
    <3> QED
      BY SMTT(30), <3>1 DEF Layer
  <2> QED
    BY <2>1, <2>2, <1>1, ZenonT(60) DEF LocalType
<1>11. /\ SameCall(m, my[p]) /\ SameSearch(m, my[p]) /\ SameFound(m, my[p])
       /\ m.nodeHeight = my[p].nodeHeight /\ m.newNode = my[p].newNode
  BY <1>1, ZenonT(60) DEF LocalType, SameCall, SameSearch, SameFound
<1> HIDE DEF m
<1>12. my'[p] = m /\ pc'[p] = at /\ pc'[p] \in {"unlink", "uncount"}
  BY <1>1, <1>5, ZenonT(60) DEF Types
<1> HIDE DEF i, pred, del, succ, at
<1>13. Types'
  <2>1. skip' \in [Node -> [Layer -> OrNull]]
    BY <1>1, <1>4, <1>7, ZenonT(60) DEF Types
  <2>2. my' \in [Proc -> LocalType] /\ pc' \in [Proc -> Place]
    BY <1>1, <1>5, <1>10, <1>12, ZenonT(60) DEF Types, Place
  <2> QED
    BY <1>1, <1>6, <2>1, <2>2, ZenonT(60) DEF Types
<1>14. Stable
  BY <1>1, <1>6 DEF Stable
<1>15. NodesFine'
  <2>1. NodesFine /\ \A n \in Node : n # nullptr
    BY Consts, ZenonT(60) DEF IInv, nullptr
  <2>2. \A n \in Node : height'[n] = 0 =>
          data'[n] = 0 /\ \A l \in Layer : skip'[n][l] = nullptr
    BY <2>1, <1>3, <1>6, <1>9 DEF NodesFine, Allocated
  <2>3. \A n \in Node, l \in Layer :
          skip'[n][l] # nullptr => height'[skip'[n][l]] > 0
    BY <2>1, <1>6, <1>8, <1>9, ZenonT(60) DEF NodesFine, Allocated
  <2> QED
    BY <2>1, <2>2, <2>3, <1>6, ZenonT(60) DEF NodesFine, Allocated
<1>16. LinksUpward'
  <2>1. pred # nullptr /\ succ # nullptr => data[pred] < data[succ]
    <3>1. \A n \in OrNull : n # nullptr => data[n] \in Nat
      BY <1>1, ZenonT(60) DEF Types, OrNull
    <3> QED
      BY <3>1, <1>3, <1>7, <1>8
  <2>2. \A n \in Node : n # nullptr
    BY Consts, ZenonT(60) DEF nullptr
  <2> QED
    BY <2>1, <2>2, <1>6, <1>9, ZenonT(60) DEF IInv, LinksUpward
<1>17. Met(p)' /\ SearchFine(p)' /\ PredsFine(p)'
  <2>1. height'[head'] \in Int
    BY <1>1, <1>6
  <2> QED
    BY <2>1, <1>2, <1>11, <1>12, <1>14, SearchKept, ZenonT(60)
       DEF SameCall, SameSearch, SameFound
<1>18. CallFine(p)'
  BY <1>1, <1>2, <1>11, <1>12, ZenonT(60) DEF ThreadFine, CallFine, Rest, SameCall
<1>19. ChangeFine(p)'
  BY <1>1, <1>2, <1>6, <1>10, <1>11, <1>12, ZenonT(60)
     DEF ThreadFine, ChangeFine, SameCall, Allocated
<1>20. LocksFine(p)'
  BY <1>12, ZenonT(60) DEF LocksFine
<1> QED
  BY <1>1, <1>5, <1>6, <1>13, <1>14, <1>15, <1>16, <1>17, <1>18, <1>19, <1>20,
     Assemble, ZenonT(60)
     DEF ThreadFine, Types

(* A typed head is of some height. *)
LEMMA HeadHeight ==
  ASSUME Types'
  PROVE  height'[head'] \in Int
  BY DEF Types

(* The new node stands between a predecessor with a smaller and a          *)
(* successor with a larger key, on each layer that it is linked on.        *)
LEMMA LinkLayerKeeps ==
  ASSUME IInv, NEW p \in Proc, LinkLayer(p)
  PROVE  IInv'
<1> DEFINE i == my[p].i
           pred == my[p].preds[i]
           succ == my[p].succs[i]
           k == my[p].data
           h == my[p].nodeHeight
           at == IF i + 1 < h THEN "link" ELSE "linked"
<1>1. /\ Types /\ ThreadFine(p) /\ my[p] \in LocalType /\ Typed(my[p])
      /\ height[head] \in Nat \ {0} /\ NodesFine /\ LinksUpward
  BY Facts, ZenonT(60) DEF IInv
<1>2. pc[p] = "link" /\ my[p].op = "add" /\ my[p].nodeToDelete = nullptr
  BY <1>1, NothingToDelete, ZenonT(60) DEF LinkLayer, ThreadFine, CallFine
<1>3. PICK n \in Node :
        /\ IF i = 0 THEN Fresh(n) ELSE n = my[p].newNode
        /\ skip' = [skip EXCEPT ![n][i] = succ, ![pred][i] = n]
        /\ data' = [data EXCEPT ![n] = k]
        /\ height' = [height EXCEPT ![n] = h]
        /\ my' = [my EXCEPT ![p].newNode = n, ![p].i = i + 1]
        /\ pc' = [pc EXCEPT ![p] = at]
  BY ZenonT(60) DEF LinkLayer, Goto
<1> DEFINE m == [my[p] EXCEPT !.newNode = n, !.i = i + 1]
<1>n. (i = 0 => Fresh(n)) /\ (i # 0 => n = my[p].newNode)
  BY <1>3, ZenonT(60)
<1>d. data' = [data EXCEPT ![n] = k] /\ height' = [height EXCEPT ![n] = h]
  BY <1>3, ZenonT(60)
<1>c. pc' = [pc EXCEPT ![p] = at]
  BY <1>3, ZenonT(60)
<1>4. /\ i \in Layer /\ i \in Nat /\ h \in Nat /\ h \in 0 .. MAX_HEIGHT
      /\ i < h /\ h > 0 /\ i + 1 \in 0 .. MAX_HEIGHT
      /\ k \in Nat /\ k > 0
  <2>1. /\ i \in Nat /\ h \in Nat /\ h \in 0 .. MAX_HEIGHT /\ k \in Nat /\ i < h
        /\ MAX_HEIGHT \in Nat /\ k > 0
    BY <1>1, <1>2, Consts, ZenonT(60)
       DEF Typed, ThreadFine, ChangeFine, CallFine, Rest
  <2> HIDE DEF i, h, k
  <2> QED
    BY <2>1 DEF Layer
<1>5. /\ pred \in OrNull /\ succ \in OrNull
      /\ pred # nullptr => Allocated(pred) /\ data[pred] < k
      /\ succ # nullptr => Allocated(succ) /\ k < data[succ]
  <2>1. pred \in OrNull /\ succ \in OrNull
    BY <1>1, <1>4, ZenonT(60) DEF Typed
  <2>2. my[p].foundLayer = -1
    BY <1>1, <1>2, ZenonT(60) DEF ThreadFine, ChangeFine
  <2> QED
    BY <2>1, <2>2, <1>1, <1>4, ZenonT(60) DEF ThreadFine, Met
<1>6. /\ Allocated(n) => height[n] = h /\ data[n] = k
      /\ ~Allocated(n) => height[n] = 0
      /\ n # nullptr
  <2>1. CASE i = 0
    BY SMTT(30), <2>1, <1>n, Consts DEF Fresh, Allocated, nullptr
  <2>2. CASE i # 0
    <3>1. n = my[p].newNode
      BY <2>2, <1>n, ZenonT(60)
    <3>2. i > 0
      BY <2>2, <1>4
    <3>3. height[n] = h /\ data[n] = k /\ n # nullptr
      BY <3>1, <3>2, <1>1, <1>2, ZenonT(60) DEF ThreadFine, ChangeFine
    <3> QED
      BY <3>3, <1>4, ZenonT(60) DEF Allocated
  <2> QED
    BY <2>1, <2>2, ZenonT(60)
<1>7. n # pred /\ n # succ
  <2>1. data[n] = k \/ ~Allocated(n)
    BY <1>6, ZenonT(60)
  <2> QED
    BY SMTT(30), <1>4, <1>5, <1>6
<1>8. \A x \in Node, l \in Layer :
        skip'[x][l] = IF x = n /\ l = i THEN succ
                      ELSE IF x = pred /\ l = i THEN n
                      ELSE skip[x][l]
  BY <1>1, <1>3, <1>4, <1>7, ZenonT(60) DEF Types
<1>9. \A x \in Node : /\ data'[x] = IF x = n THEN k ELSE data[x]
                      /\ height'[x] = IF x = n THEN h ELSE height[x]
  BY <1>1, <1>d, ZenonT(60) DEF Types
<1>10. UNCHANGED <<head, lock, size>>
  BY ZenonT(60) DEF LinkLayer, listVars
<1>11. m \in LocalType
  BY <1>1, <1>4, ZenonT(60) DEF LocalType, OrNull
<1>12. /\ SameCall(m, my[p]) /\ SameSearch(m, my[p]) /\ SameFound(m, my[p])
       /\ m.nodeHeight = h /\ m.newNode = n /\ m.i = i + 1
  BY DEF SameCall, SameSearch, SameFound
<1>13. my' = [my EXCEPT ![p] = m] /\ my'[p] = m
  BY <1>1, <1>3, ZenonT(60) DEF Types
<1>14. /\ pc'[p] = at /\ pc'[p] \in {"link", "linked"}
       /\ pc'[p] = "link" => i + 1 < h
  BY <1>1, <1>c, ZenonT(60) DEF Types
<1> HIDE DEF m, i, pred, succ, k, h, at
<1>15. Types'
  <2>1. skip' \in [Node -> [Layer -> OrNull]]
    BY <1>1, <1>3, <1>5, ZenonT(60) DEF Types, OrNull
  <2>2. data' \in [Node -> Nat] /\ height' \in [Node -> 0 .. MAX_HEIGHT]
    BY <1>1, <1>d, <1>4, ZenonT(60) DEF Types
  <2>3. my' \in [Proc -> LocalType] /\ pc' \in [Proc -> Place]
    BY <1>1, <1>c, <1>11, <1>13, <1>14, ZenonT(60) DEF Types, Place
  <2> QED
    BY <1>1, <1>10, <2>1, <2>2, <2>3, ZenonT(60) DEF Types
<1>16. \A x \in Node : Allocated(x) => height'[x] = height[x] /\ data'[x] = data[x]
  BY <1>6, <1>9, ZenonT(60)
<1>17. Stable
  BY <1>1, <1>10, <1>16 DEF Stable, NodesFine, Types
<1>18. NodesFine'
  <2>1. height'[n] > 0 /\ height'[n] # 0
    BY <1>4, <1>9
  <2>2. Allocated(head)' /\ data'[head'] = 0
    BY <1>1, <1>10, <1>16, ZenonT(60) DEF NodesFine, Types, Allocated
  <2>3. \A x \in Node : height'[x] = 0 =>
          data'[x] = 0 /\ \A l \in Layer : skip'[x][l] = nullptr
    <3>1. \A x \in Node : height'[x] = 0 => x # n /\ x # pred /\ height[x] = 0
      BY <2>1, <1>5, <1>9, Consts DEF Allocated, nullptr
    <3> QED
      BY SMTT(30), <3>1, <1>1, <1>8, <1>9 DEF NodesFine
  <2>4. \A x \in OrNull : x # nullptr /\ Allocated(x) => height'[x] > 0
    BY <1>16, ZenonT(60) DEF OrNull, Allocated
  <2>5. \A x \in Node, l \in Layer : skip[x][l] \in OrNull
    BY <1>1, ZenonT(60) DEF Types
  <2>6. \A x \in Node, l \in Layer : skip'[x][l] # nullptr => height'[skip'[x][l]] > 0
    BY SMTT(30), <2>1, <2>4, <2>5, <1>1, <1>5, <1>8 DEF NodesFine
  <2> QED
    BY <2>2, <2>3, <2>6, ZenonT(60) DEF NodesFine, Allocated
<1>19. LinksUpward'
  <2>1. \A x \in OrNull : x # nullptr /\ Allocated(x) => data'[x] = data[x]
    BY <1>16, ZenonT(60) DEF OrNull
  <2>2. \A x \in Node, l \in Layer :
          skip[x][l] # nullptr =>
            /\ skip[x][l] \in OrNull /\ Allocated(skip[x][l])
            /\ height[x] # 0 /\ data[x] < data[skip[x][l]]
    BY <1>1, ZenonT(60) DEF Types, NodesFine, LinksUpward
  <2>3. \A x \in Node : height[x] # 0 => data'[x] = data[x]
    BY <1>6, <1>9, ZenonT(60)
  <2>4. \A x \in Node, l \in Layer :
          skip[x][l] # nullptr => data'[x] < data'[skip[x][l]]
    BY <2>1, <2>2, <2>3, ZenonT(60)
  <2>5. succ # nullptr => data'[n] < data'[succ]
    BY <2>1, <1>5, <1>9, ZenonT(60)
  <2>6. pred # nullptr => data'[pred] < data'[n]
    BY <2>1, <1>5, <1>9, ZenonT(60)
  <2>7. \A x \in Node : x # nullptr
    BY Consts, ZenonT(60) DEF nullptr
  <2> QED
    BY SMTT(30), <2>4, <2>5, <2>6, <2>7, <1>8 DEF LinksUpward
<1>20. Met(p)' /\ SearchFine(p)' /\ PredsFine(p)'
  <2>1. height'[head'] \in Int
    BY <1>15, HeadHeight, ZenonT(60)
  <2> QED
    BY <2>1, <1>2, <1>12, <1>13, <1>14, <1>17, SearchKept, ZenonT(60)
       DEF SameCall, SameSearch, SameFound
<1>21. CallFine(p)'
  BY <1>1, <1>2, <1>12, <1>13, <1>14, ZenonT(60)
     DEF ThreadFine, CallFine, Rest, SameCall
<1>22. ChangeFine(p)'
  <2>1. my[p].foundLayer = -1 /\ k = my[p].data
    BY <1>1, <1>2, ZenonT(60) DEF ThreadFine, ChangeFine, k
  <2> QED
    BY <2>1, <1>2, <1>6, <1>9, <1>12, <1>13, <1>14, ZenonT(60)
       DEF ChangeFine, SameCall, SameFound
<1>23. LocksFine(p)'
  BY <1>14, ZenonT(60) DEF LocksFine
<1> QED
  BY <1>1, <1>c, <1>10, <1>13, <1>15, <1>17, <1>18, <1>19, <1>20, <1>21, <1>22,
     <1>23, Assemble, ZenonT(60)
     DEF ThreadFine, Types

(* The new head has the links of the old one and is taller. *)
LEMMA HeadSwapped ==
  ASSUME IInv, NEW p \in Proc, SwapHead(p), head = my[p].node
  PROVE  IInv'
<1> DEFINE h == my[p].nodeHeight
<1>1. /\ Types /\ ThreadFine(p) /\ my[p] \in LocalType /\ Typed(my[p])
      /\ height[head] \in Nat \ {0} /\ NodesFine /\ LinksUpward /\ head \in Node
  BY Facts, ZenonT(60) DEF IInv, Types
<1>2. pc[p] = "swap" /\ my[p].op = "add" /\ my[p].nodeToDelete = nullptr
  BY <1>1, NothingToDelete, ZenonT(60) DEF SwapHead, ThreadFine, CallFine
<1>3. PICK n \in Node :
        /\ Fresh(n)
        /\ skip' = [skip EXCEPT ![n] = skip[head]]
        /\ height' = [height EXCEPT ![n] = h]
        /\ head' = n
  BY ZenonT(60) DEF SwapHead
<1>4. /\ lock' = [lock EXCEPT ![head] = p] /\ pc' = [pc EXCEPT ![p] = "retire"]
      /\ UNCHANGED <<my, data, size>> /\ pc'[p] = "retire"
  BY <1>1, ZenonT(60) DEF SwapHead, Goto, Types
<1>5. h \in Nat /\ h \in 0 .. MAX_HEIGHT /\ height[head] < h /\ h > 0
  <2>1. h \in Nat /\ h \in 0 .. MAX_HEIGHT /\ height[head] < h
    BY <1>1, <1>2, ZenonT(60) DEF Typed, ThreadFine, ChangeFine
  <2> HIDE DEF h
  <2> QED
    BY <2>1, <1>1
<1> HIDE DEF h
<1>6. height[n] = 0 /\ n # head /\ data[n] = 0 /\ data[head] = 0
  BY <1>1, <1>3, ZenonT(60) DEF Fresh, NodesFine
<1>7. \A x \in Node : height'[x] = IF x = n THEN h ELSE height[x]
  BY <1>1, <1>3, ZenonT(60) DEF Types
<1>8. \A x \in Node : skip'[x] = IF x = n THEN skip[head] ELSE skip[x]
  BY <1>1, <1>3, ZenonT(60) DEF Types
<1>9. /\ lock' \in [Node -> Proc \cup {None}]
      /\ \A q \in Proc \ {p}, x \in Node : lock'[x] = q => lock[x] = q
  BY <1>1, <1>4, ZenonT(60) DEF Types
<1>10. Types'
  <2>1. skip' \in [Node -> [Layer -> OrNull]]
    BY <1>1, <1>3, ZenonT(60) DEF Types
  <2>2. height' \in [Node -> 0 .. MAX_HEIGHT] /\ head' \in Node
    BY <1>1, <1>3, <1>5, ZenonT(60) DEF Types
  <2>3. pc' \in [Proc -> Place]
    BY <1>1, <1>4, ZenonT(60) DEF Types, Place
  <2> QED
    BY <1>1, <1>4, <1>9, <2>1, <2>2, <2>3, ZenonT(60) DEF Types
<1>11. Stable
  <2>1. height'[head'] >= height[head]
    BY <1>1, <1>3, <1>5, <1>7
  <2> QED
    BY SMTT(30), <2>1, <1>4, <1>6, <1>7 DEF Stable, Allocated
<1>12. NodesFine'
  <2>1. height'[n] > 0 /\ height'[n] # 0
    BY SMTT(30), <1>5, <1>7
  <2>2. \A x \in Node : height'[x] = 0 =>
          data'[x] = 0 /\ \A l \in Layer : skip'[x][l] = nullptr
    BY SMTT(30), <2>1, <1>1, <1>4, <1>7, <1>8 DEF NodesFine
  <2>3. \A x \in OrNull : x # nullptr /\ Allocated(x) => height'[x] > 0
    BY <2>1, <1>7, ZenonT(60) DEF OrNull, Allocated
  <2>4. \A x \in Node, l \in Layer : skip[x][l] \in OrNull
    BY <1>1, ZenonT(60) DEF Types
  <2>5. \A x \in Node, l \in Layer : skip'[x][l] # nullptr => height'[skip'[x][l]] > 0
    BY <2>3, <2>4, <1>1, <1>8, ZenonT(60) DEF NodesFine
  <2> QED
    BY <2>1, <2>2, <2>5, <1>3, <1>4, <1>6, ZenonT(60) DEF NodesFine, Allocated
<1>13. LinksUpward'
  BY <1>1, <1>4, <1>6, <1>8, ZenonT(60) DEF LinksUpward
<1>14. Met(p)' /\ SearchFine(p)' /\ PredsFine(p)'
  <2>1. height'[head'] \in Int
    BY <1>10, HeadHeight, ZenonT(60)
  <2> QED
    BY <2>1, <1>4, <1>11, SearchKept, ZenonT(60)
<1>15. CallFine(p)'
  BY <1>1, <1>2, <1>4, ZenonT(60) DEF ThreadFine, CallFine, Rest
<1>16. ChangeFine(p)'
  BY <1>2, <1>4, ZenonT(60) DEF ChangeFine
<1>17. LocksFine(p)'
  BY <1>4, ZenonT(60) DEF LocksFine
<1> QED
  BY <1>1, <1>4, <1>9, <1>10, <1>11, <1>12, <1>13, <1>14, <1>15, <1>16, <1>17,
     Assemble, ZenonT(60)
     DEF ThreadFine, Types

(* growHeight has locked the head it loaded. *)
LEMMA SwapHeadKeeps ==
  ASSUME IInv, NEW p \in Proc, SwapHead(p)
  PROVE  IInv'
<1>1. CASE head = my[p].node
  BY <1>1, HeadSwapped, ZenonT(60)
<1>2. CASE head # my[p].node
  <2>1. /\ Return(p, "yes") /\ UNCHANGED <<skip, data, height, head, lock, size>>
        /\ pc[p] = "swap"
    BY <1>2, ZenonT(60) DEF SwapHead
  <2>2. \A n \in Node : lock[n] # p
    BY <2>1, ZenonT(60) DEF IInv, ThreadFine, LocksFine
  <2> QED
    BY <2>1, <2>2, ReturnFree, ZenonT(60) DEF Rest
<1> QED
  BY <1>1, <1>2, ZenonT(60)
-----------------------------------------------------------------------------

(* The variables of a thread that has called nothing yet. *)
LEMMA Emptied ==
  /\ Local.preds = NoLinks /\ Local.succs = NoLinks /\ Local.node = nullptr
  /\ Local.foundLayer = -1 /\ Local.maxLayer = 0
  /\ Local.nodeToDelete = nullptr
  BY ZenonT(60) DEF Local

(* Such a thread satisfies the invariant. *)
LEMMA IdleFine ==
  ASSUME NEW p \in Proc, my[p] = Local, pc[p] = "no",
         \A x \in Node : lock[x] # p, height[head] > 0, height[head] \in Nat
  PROVE  ThreadFine(p)
<1>1. /\ my[p].preds = NoLinks /\ my[p].succs = NoLinks /\ my[p].node = nullptr
      /\ my[p].foundLayer = -1 /\ my[p].maxLayer = 0
      /\ my[p].nodeToDelete = nullptr
  BY Emptied, ZenonT(60)
<1>2. CallFine(p) /\ LocksFine(p)
  BY ZenonT(60) DEF CallFine, LocksFine, Rest
<1>3. ChangeFine(p)
  BY <1>1, ZenonT(60) DEF ChangeFine
<1>4. SearchFine(p)
  <2>1. -1 <= 0 /\ 0 < height[head]
    OBVIOUS
  <2> QED
    BY <1>1, <2>1, ZenonT(60) DEF SearchFine
<1>5. Met(p) /\ PredsFine(p)
  BY <1>1, ZenonT(60) DEF Met, PredsFine, NoLinks
<1> QED
  BY <1>2, <1>3, <1>4, <1>5, ZenonT(60) DEF ThreadFine

(* The list to begin with satisfies the invariant. *)
LEMMA InitFine == Init => IInv
<1> SUFFICES ASSUME Init PROVE IInv
  BY ZenonT(60)
<1> DEFINE n == Len(Initial)
<1>1. PICK h \in 1 .. MAX_HEIGHT : \E g \in 1 .. h :
        /\ height = [x \in Node |-> IF x = 1 THEN h ELSE IF x <= n + 1 THEN g ELSE 0]
        /\ skip = [x \in Node |-> [l \in Layer |->
                                     IF x <= n /\ l < g THEN x + 1 ELSE nullptr]]
  BY ZenonT(60) DEF Init
<1>2. PICK g \in 1 .. h :
        /\ height = [x \in Node |-> IF x = 1 THEN h ELSE IF x <= n + 1 THEN g ELSE 0]
        /\ skip = [x \in Node |-> [l \in Layer |->
                                     IF x <= n /\ l < g THEN x + 1 ELSE nullptr]]
  BY <1>1, ZenonT(60)
<1>3. /\ data = [x \in Node |-> IF x \in 2 .. n + 1 THEN Initial[x - 1] ELSE 0]
      /\ lock = [x \in Node |-> None]
      /\ head = 1 /\ size = n
      /\ pc = [p \in Proc |-> "no"]
      /\ my = [p \in Proc |-> Local]
  BY ZenonT(60) DEF Init
<1>4. /\ n \in Nat /\ MAX_HEIGHT \in Nat /\ h \in Nat /\ g \in Nat
      /\ h > 0 /\ h <= MAX_HEIGHT /\ g > 0 /\ g <= h
      /\ \A x \in Node : x \in Nat /\ x >= 1
      /\ \A x \in Nat : x >= 1 /\ x <= n + 1 => x \in Node
      /\ 1 \in Node
  BY ConstAssumption DEF Node, Nodes
<1>5. \A x \in Nat : x >= 2 /\ x <= n + 1 => Initial[x - 1] \in Nat /\ Initial[x - 1] > 0
  <2>1. \A y \in 1 .. n : Initial[y] \in Nat /\ Initial[y] > 0
    <3>1. \A y \in 1 .. n : Initial[y] \in Key
      BY ConstAssumption
    <3>2. \A x \in Key : x \in Nat /\ x > 0
      BY ConstAssumption
    <3> QED
      BY <3>1, <3>2, ZenonT(60)
  <2>2. \A x \in Nat : x >= 2 /\ x <= n + 1 => x - 1 \in 1 .. n
    BY <1>4
  <2> QED
    BY <2>1
<1>6. \A x \in Nat : x >= 2 /\ x <= n => Initial[x - 1] < Initial[x]
  <2>1. \A y \in 1 .. n - 1 : Initial[y] < Initial[y + 1]
    BY ConstAssumption, ZenonT(60)
  <2>2. \A x \in Nat : x >= 2 /\ x <= n => x - 1 \in 1 .. n - 1 /\ (x - 1) + 1 = x
    BY SMTT(30), <1>4
  <2> QED
    BY <2>1
<1> HIDE DEF n
<1>7. /\ \A x \in Node : data[x] = IF x >= 2 /\ x <= n + 1 THEN Initial[x - 1] ELSE 0
      /\ \A x \in Node :
           height[x] = IF x = 1 THEN h ELSE IF x <= n + 1 THEN g ELSE 0
      /\ \A x \in Node, l \in Layer :
           skip[x][l] = IF x <= n /\ l < g THEN x + 1 ELSE nullptr
  BY SMTT(30), <1>2, <1>3, <1>4
<1>8. Types
  <2>1. data \in [Node -> Nat]
    BY SMTT(30), <1>3, <1>5
  <2>2. height \in [Node -> 0 .. MAX_HEIGHT]
    BY SMTT(30), <1>2, <1>4
  <2>3. skip \in [Node -> [Layer -> OrNull]]
    BY SMTT(30), <1>2, <1>4 DEF OrNull
  <2>4. lock \in [Node -> Proc \cup {None}] /\ head \in Node /\ size \in Int
    BY SMTT(30), <1>3, <1>4
  <2>5. pc \in [Proc -> Place] /\ my \in [Proc -> LocalType]
    BY <1>3, LocalTyped, ZenonT(60) DEF Place
  <2> QED
    BY <2>1, <2>2, <2>3, <2>4, <2>5, ZenonT(60) DEF Types
<1>9. NodesFine
  <2>1. height[head] > 0 /\ data[head] = 0
    BY SMTT(30), <1>3, <1>4, <1>7
  <2>2. \A x \in Node : height[x] = 0 =>
          data[x] = 0 /\ \A l \in Layer : skip[x][l] = nullptr
    BY SMTT(30), <1>4, <1>7
  <2>3. \A x \in Node, l \in Layer :
          skip[x][l] # nullptr => height[skip[x][l]] > 0
    BY <1>4, <1>7
  <2> QED
    BY <2>1, <2>2, <2>3, ZenonT(60) DEF NodesFine, Allocated
<1>10. LinksUpward
  <2> SUFFICES ASSUME NEW x \in Node, NEW l \in Layer, skip[x][l] # nullptr
               PROVE  data[x] < data[skip[x][l]]
    BY ZenonT(60) DEF LinksUpward
  <2>1. x \in Nat /\ x >= 1 /\ x <= n /\ skip[x][l] = x + 1 /\ x + 1 \in Node
    BY SMTT(30), <1>4, <1>7
  <2>2. data[x + 1] = Initial[x]
    BY <1>4, <1>7
  <2>3. CASE x = 1
    <3>1. data[x] = 0 /\ Initial[(x + 1) - 1] > 0 /\ (x + 1) - 1 = x
      BY SMTT(30), <2>3, <1>4, <1>5, <1>7
    <3> QED
      BY <2>1, <2>2, <3>1, ZenonT(60)
  <2>4. CASE x # 1
    BY <2>4, <1>4, <1>6, <1>7
  <2> QED
    BY <2>3, <2>4, ZenonT(60)
<1>11. ASSUME NEW p \in Proc PROVE ThreadFine(p)
  <2>1. my[p] = Local /\ pc[p] = "no" /\ \A x \in Node : lock[x] # p
    BY <1>3, Consts, ZenonT(60)
  <2>2. height[head] > 0 /\ height[head] \in Nat
    BY <1>3, <1>4, <1>7, ZenonT(60)
  <2> QED
    BY <2>1, <2>2, IdleFine, ZenonT(60)
<1> QED
  BY <1>8, <1>9, <1>10, <1>11, ZenonT(60) DEF IInv

(* Every step keeps the invariant. *)
LEMMA NextKeeps == IInv /\ [Next]_vars => IInv'
<1>1. ASSUME IInv, NEW p \in Proc, Step(p) PROVE IInv'
  BY ZenonT(60), <1>1, LoadHeightKeeps, LoadHeadKeeps, AdvanceKeeps, DownKeeps,
     DownFindKeeps,
     FindKeeps, AddFoundKeeps, WaitLinkedKeeps, AddHeightKeeps, LockLayerKeeps,
     LinkLayerKeeps, SetFullyLinkedKeeps, CountInKeeps, CheckLimitKeeps,
     GrowHeightKeeps, SwapHeadKeeps, RetireHeadKeeps, RemoveFoundKeeps,
     MarkNodeKeeps, UnlinkLayerKeeps, CountOutKeeps, RecycleKeeps
     DEF Step
<1>2. ASSUME IInv, Next PROVE IInv'
  BY <1>1, <1>2, CallKeeps, ZenonT(60) DEF Next
<1>3. ASSUME IInv, UNCHANGED vars PROVE IInv'
  <2>1. UNCHANGED <<skip, data, height, lock, head, size, pc, my>>
    BY <1>3, ZenonT(60) DEF vars, nodeVars, listVars
  <2>2. Types'
    BY <1>3, <2>1, ZenonT(60) DEF IInv, Types
  <2>3. Stable
    BY <1>3, <2>1, Unmoved, ZenonT(60) DEF IInv
  <2>4. NodesFine' /\ LinksUpward'
    BY <1>3, <2>1, ZenonT(60) DEF IInv, NodesFine, LinksUpward, Allocated
  <2>5. ASSUME NEW q \in Proc PROVE ThreadFine(q)'
    BY <1>3, <2>1, <2>2, <2>3, OtherKept, ZenonT(60)
  <2> QED
    BY <2>2, <2>4, <2>5, ZenonT(60) DEF IInv
<1> QED
  BY <1>2, <1>3, ZenonT(60)

(* The invariant holds in every reachable state. *)
LEMMA Invariant == Spec => []IInv
  BY InitFine, NextKeeps, PTL DEF Spec

(* Every link, of removed nodes and replaced heads too, leads to a larger  *)
(* key, however add, remove and growHeight interleave.                     *)
THEOREM UpwardAlways == Spec => []LinksUpward
<1>1. IInv => LinksUpward
  BY ZenonT(60) DEF IInv
<1> QED
  BY <1>1, Invariant, PTL

(* lockNodesForChange waits for a lock only while it holds locks of larger *)
(* keys; MarkNode and growHeight wait while they hold none.                *)
THEOREM OrderedLocking == Spec => []LockOrder
<1>1. ASSUME IInv PROVE LockOrder
  <2> SUFFICES ASSUME NEW p \in Proc, NEW n \in Node, lock[n] = p,
                      pc[p] \in {"lock", "mark", "swap"}
               PROVE  /\ pc[p] = "lock"
                      /\ \/ data[n] > data[my[p].preds[my[p].i]]
                         \/ n = my[p].preds[my[p].i] /\ my[p].i > 0
    BY ZenonT(60) DEF LockOrder
  <2>1. ThreadFine(p) /\ Types /\ Typed(my[p])
    BY <1>1, Facts, ZenonT(60)
  <2>2. pc[p] = "lock"
    BY <2>1, ZenonT(60) DEF ThreadFine, LocksFine
  <2>3. /\ my[p].i \in Layer /\ my[p].i \in Nat
        /\ my[p].preds[my[p].i] \in Node /\ my[p].preds[my[p].i] # nullptr
    BY <1>1, <2>2, LockFacts, Consts, ZenonT(60) DEF nullptr
  <2>4. CASE n = my[p].nodeToDelete
    <3>1. n # nullptr
      BY Consts, ZenonT(60) DEF nullptr
    <3>2. data[n] = my[p].data
      BY <2>1, <2>4, <3>1, ZenonT(60) DEF ThreadFine, ChangeFine
    <3>3. data[my[p].preds[my[p].i]] < my[p].data
      BY <2>1, <2>3, ZenonT(60) DEF ThreadFine, Met
    <3> QED
      BY <2>2, <3>2, <3>3, ZenonT(60)
  <2>5. CASE n # my[p].nodeToDelete
    <3>1. PICK j \in Layer : j < my[p].i /\ n = my[p].preds[j]
      BY <2>1, <2>5, ZenonT(60) DEF ThreadFine, LocksFine
    <3>2. j \in Nat /\ n # nullptr /\ my[p].i > 0
      BY <2>3, <3>1, Consts DEF nullptr
    <3>3. n = my[p].preds[my[p].i] \/ data[n] > data[my[p].preds[my[p].i]]
      BY <2>1, <2>3, <3>1, <3>2, ZenonT(60) DEF ThreadFine, Met
    <3> QED
      BY <2>2, <3>2, <3>3, ZenonT(60)
  <2> QED
    BY <2>4, <2>5, ZenonT(60)
<1> QED
  BY <1>1, Invariant, PTL
=============================================================================
