------------------------- MODULE ConcurrentSkipList -------------------------
(***************************************************************************)
(* folly's ConcurrentSkipList                                              *)
(* (src/ds_algor/skipList/From folly/ConcurrentSkipList.h): find without   *)
(* locks, addOrGetData and remove with a spin lock per node, and the head  *)
(* node that growHeight replaces by a taller one.                          *)
(*                                                                         *)
(* One action is one access to a link, a flag, head_ or size_ that another *)
(* thread can see.  What follows on taking a node's lock and is protected  *)
(* by it belongs to the action that takes the lock, and releasing locks    *)
(* belongs to the access before it.  A node is a number, in the order of   *)
(* allocation; nullptr is 0.  What becomes of a node given to recycle is   *)
(* the subject of NodeRecycler.                                            *)
(***************************************************************************)
EXTENDS Integers, Sequences

CONSTANTS Proc,
          Key,         \* a set of positive numbers
          None,        \* no thread
          MAX_HEIGHT,
          SizeLimit,   \* getSizeLimit, from 1 .. MAX_HEIGHT
          Initial,     \* the keys of the list to begin with, in order
          MaxCalls     \* bound on the number of calls

ASSUME ConstAssumption ==
  /\ Key \subseteq Nat \ {0} /\ Initial \in Seq(Key)
  /\ \A i \in 1 .. Len(Initial) - 1 : Initial[i] < Initial[i + 1]
  /\ MAX_HEIGHT \in Nat \ {0} /\ MaxCalls \in Nat
  /\ SizeLimit \in [1 .. MAX_HEIGHT -> Nat]
  /\ None \notin Proc

VARIABLES skip,      \* skip[n][l] is n->skip_[l]
          data,      \* data_ of each node; 0 in a head node
          height,    \* height_ of each node; 0 when it is not allocated
          full,      \* nodes with FULLY_LINKED
          marked,    \* nodes with MARKED_FOR_REMOVAL
          lock,      \* the holder of each node's spinLock_
          head,      \* head_
          size,      \* size_
          recycled,  \* nodes given to recycle
          calls,     \* calls begun
          pc,        \* where each thread is; "yes" and "no" are answers
          my,        \* its local variables
          seen       \* history: what its key has been during the call

nodeVars == <<skip, data, height, full, marked>>
listVars == <<head, size, recycled>>
vars == <<nodeVars, lock, listVars, calls, pc, my, seen>>

nullptr == 0
Layer == 0 .. MAX_HEIGHT - 1

(* Nodes of the list to begin with, of calls, and the heads. *)
Nodes == Len(Initial) + MaxCalls + MAX_HEIGHT
Node == 1 .. Nodes

NoLinks == [l \in Layer |-> nullptr]

Local == [op |-> "none", data |-> 0, maxLayer |-> 0, pred |-> nullptr,
          layer |-> 0, preds |-> NoLinks, succs |-> NoLinks,
          node |-> nullptr, foundLayer |-> -1, nodeHeight |-> 0, i |-> 0,
          nodeToDelete |-> nullptr, newNode |-> nullptr, newSize |-> 0]

Rest == {"yes", "no"}

(* A list made with a head of some height and filled by a single thread    *)
(* with nodes that have all got the same height.                           *)
Init ==
  LET n == Len(Initial)
  IN \E h \in 1 .. MAX_HEIGHT : \E g \in 1 .. h :
     /\ n <= SizeLimit[h] \/ h = MAX_HEIGHT
     /\ data = [x \in Node |-> IF x \in 2 .. n + 1 THEN Initial[x - 1] ELSE 0]
     /\ height = [x \in Node |-> IF x = 1 THEN h ELSE IF x <= n + 1 THEN g ELSE 0]
     /\ skip = [x \in Node |-> [l \in Layer |->
                                  IF x <= n /\ l < g THEN x + 1 ELSE nullptr]]
     /\ full = 2 .. n + 1 /\ marked = {}
     /\ lock = [x \in Node |-> None]
     /\ head = 1 /\ size = n /\ recycled = {} /\ calls = 0
     /\ pc = [p \in Proc |-> "no"]
     /\ my = [p \in Proc |-> Local]
     /\ seen = [p \in Proc |-> {}]

(* The node that NodeType::create allocates next. *)
Fresh(n) == height[n] = 0 /\ \A m \in 1 .. n - 1 : height[m] # 0

Goto(p, to) == pc' = [pc EXCEPT ![p] = to]

(* The call returns; its local variables are gone. *)
Return(p, answer) ==
  /\ Goto(p, answer)
  /\ my' = [my EXCEPT ![p] = Local]

(* "continue": all that the round found is found again. *)
Retry(p) ==
  /\ Goto(p, "height")
  /\ LET m == my[p]
     IN my' = [my EXCEPT ![p] =
                 [Local EXCEPT !.op = m.op, !.data = m.data,
                               !.nodeToDelete = m.nodeToDelete,
                               !.nodeHeight = IF m.op = "add" THEN 0
                                              ELSE m.nodeHeight]]

(* Mutant of greater: <= for <. *)
greaterOrEqual(k, n) == n # nullptr /\ data[n] <= k

greater(k, n) == n # nullptr /\ data[n] < k
Equal(k, n) == n # nullptr /\ data[n] = k

-----------------------------------------------------------------------------
(* The searches: findInsertionPoint for add and remove, and                *)
(* findNodeDownRight, which stops at the first node with the key.          *)

Call(p, op, k) ==
  /\ pc[p] \in Rest /\ calls < MaxCalls
  /\ calls' = calls + 1
  /\ my' = [my EXCEPT ![p] = [Local EXCEPT !.op = op, !.data = k]]
  /\ Goto(p, IF op = "find" THEN "head" ELSE "height")
  /\ UNCHANGED <<nodeVars, lock, listVars>>

(* findInsertionPointGetMaxLayer loads head_ for its height ... *)
LoadHeight(p) ==
  /\ pc[p] = "height"
  /\ my' = [my EXCEPT ![p].maxLayer = height[head] - 1]
  /\ Goto(p, "head")
  /\ UNCHANGED <<nodeVars, lock, listVars, calls>>

(* ... and again as the beginning. *)
LoadHead(p) ==
  /\ pc[p] = "head"
  /\ my' = [my EXCEPT ![p].pred = head,
                      ![p].layer = IF my[p].op = "find" THEN height[head] - 1
                                   ELSE my[p].maxLayer]
  /\ Goto(p, "search")
  /\ UNCHANGED <<nodeVars, lock, listVars, calls>>

Loaded(p) == skip[my[p].pred][my[p].layer]

(* To the right. *)
Advance(p) ==
  /\ pc[p] = "search" /\ greater(my[p].data, Loaded(p))
  /\ my' = [my EXCEPT ![p].pred = Loaded(p)]
  /\ UNCHANGED <<nodeVars, lock, listVars, calls, pc>>

(* Down, with preds[] and succs[] of this layer. *)
Down(p) ==
  /\ pc[p] = "search" /\ my[p].op # "find"
  /\ ~greater(my[p].data, Loaded(p))
  /\ LET m == my[p]
         l == m.layer
         first == m.foundLayer = -1 /\ Equal(m.data, Loaded(p))
         node == IF first THEN Loaded(p) ELSE m.node
     IN /\ my' = [my EXCEPT ![p] =
             [m EXCEPT !.foundLayer = IF first THEN l ELSE @,
                       !.node = node,
                       !.preds[l] = m.pred,
                       !.succs[l] = IF node # nullptr THEN node ELSE Loaded(p),
                       !.layer = IF l = 0 THEN 0 ELSE l - 1]]
        /\ Goto(p, IF l > 0 THEN "search" ELSE "found")
  /\ UNCHANGED <<nodeVars, lock, listVars, calls>>

(* find goes down, or has found the node, or has not. *)
DownFind(p) ==
  /\ pc[p] = "search" /\ my[p].op = "find"
  /\ ~greater(my[p].data, Loaded(p))
  /\ \/ /\ Equal(my[p].data, Loaded(p))
        /\ my' = [my EXCEPT ![p].node = Loaded(p)]
        /\ Goto(p, "test")
     \/ /\ ~Equal(my[p].data, Loaded(p)) /\ my[p].layer > 0
        /\ my' = [my EXCEPT ![p].layer = @ - 1]
        /\ UNCHANGED pc
     \/ /\ ~Equal(my[p].data, Loaded(p)) /\ my[p].layer = 0
        /\ Return(p, "no")
  /\ UNCHANGED <<nodeVars, lock, listVars, calls>>

(* Mutant of find: the mark of the node is not looked at. *)
findMarked(p) ==
  /\ pc[p] = "test"
  /\ Return(p, "yes")
  /\ UNCHANGED <<nodeVars, lock, listVars, calls>>

find(p) ==
  /\ pc[p] = "test"
  /\ Return(p, IF my[p].node \in marked THEN "no" ELSE "yes")
  /\ UNCHANGED <<nodeVars, lock, listVars, calls>>

-----------------------------------------------------------------------------
(* addOrGetData *)

(* A node with the key is there: one that is being removed is waited out   *)
(* by searching again.                                                     *)
AddFound(p) ==
  /\ pc[p] = "found" /\ my[p].op = "add" /\ my[p].foundLayer >= 0
  /\ IF my[p].node \in marked THEN Retry(p) ELSE Goto(p, "wait") /\ UNCHANGED my
  /\ UNCHANGED <<nodeVars, lock, listVars, calls>>

WaitLinked(p) ==
  /\ pc[p] = "wait" /\ my[p].node \in full
  /\ Return(p, "no")
  /\ UNCHANGED <<nodeVars, lock, listVars, calls>>

(* getHeight is random. *)
AddHeight(p) ==
  /\ pc[p] = "found" /\ my[p].op = "add" /\ my[p].foundLayer = -1
  /\ \E h \in 1 .. my[p].maxLayer + 1 :
       my' = [my EXCEPT ![p].nodeHeight = h, ![p].i = 0]
  /\ Goto(p, "lock")
  /\ UNCHANGED <<nodeVars, lock, listVars, calls>>

(* Mutant of Guards: only remove gives up locks. *)
GuardsOfRemove(p) ==
  {n \in Node : my[p].op = "remove" /\ lock[n] = p /\ n # my[p].nodeToDelete}

Guards(p) == {n \in Node : lock[n] = p /\ n # my[p].nodeToDelete}
Released(p) == [n \in Node |-> IF n \in Guards(p) THEN None ELSE lock[n]]

(* Mutant of Valid: a predecessor that is being removed will do. *)
ValidAnyPred(p, l) ==
  LET pred == my[p].preds[l]
      succ == my[p].succs[l]
  IN /\ skip[pred][l] = succ
     /\ my[p].op = "add" => succ \notin marked

(* The condition of lockNodesForChange at layer l, pred's lock held. *)
Valid(p, l) ==
  LET pred == my[p].preds[l]
      succ == my[p].succs[l]
  IN /\ pred \notin marked
     /\ skip[pred][l] = succ
     /\ my[p].op = "add" => succ \notin marked

(* lockNodesForChange, one layer. *)
LockLayer(p) ==
  /\ pc[p] = "lock"
  /\ LET l == my[p].i
         pred == my[p].preds[l]
     IN /\ lock[pred] = None \/ (l > 0 /\ pred = my[p].preds[l - 1])
        /\ IF ~Valid(p, l)
           THEN Retry(p) /\ lock' = Released(p)
           ELSE /\ lock' = [lock EXCEPT ![pred] = p]
                /\ IF l + 1 < my[p].nodeHeight
                   THEN my' = [my EXCEPT ![p].i = l + 1] /\ UNCHANGED pc
                   ELSE IF my[p].op = "add"
                   THEN my' = [my EXCEPT ![p].i = 0] /\ Goto(p, "link")
                   ELSE UNCHANGED my /\ Goto(p, "unlink")
  /\ UNCHANGED <<nodeVars, listVars, calls>>

(* The new node at layer i, from the bottom. *)
LinkLayer(p) ==
  /\ pc[p] = "link"
  /\ \E n \in Node : LET m == my[p]
                         l == m.i
     IN /\ IF l = 0 THEN Fresh(n) ELSE n = m.newNode
        /\ skip' = [skip EXCEPT ![n][l] = m.succs[l], ![m.preds[l]][l] = n]
        /\ data' = [data EXCEPT ![n] = m.data]
        /\ height' = [height EXCEPT ![n] = m.nodeHeight]
        /\ my' = [my EXCEPT ![p].newNode = n, ![p].i = l + 1]
        /\ Goto(p, IF l + 1 < m.nodeHeight THEN "link" ELSE "linked")
  /\ UNCHANGED <<full, marked, lock, listVars, calls>>

SetFullyLinked(p) ==
  /\ pc[p] = "linked"
  /\ full' = full \cup {my[p].newNode}
  /\ Goto(p, "count")
  /\ UNCHANGED <<skip, data, height, marked, lock, listVars, calls, my>>

(* incrementSize(1), then the guards are given up. *)
CountIn(p) ==
  /\ pc[p] = "count"
  /\ size' = size + 1
  /\ lock' = Released(p)
  /\ my' = [my EXCEPT ![p] = [Local EXCEPT !.op = "add", !.data = my[p].data,
                                           !.newSize = size + 1]]
  /\ Goto(p, "limit")
  /\ UNCHANGED <<nodeVars, head, recycled, calls>>

(* height() against the limit for it. *)
CheckLimit(p) ==
  /\ pc[p] = "limit"
  /\ IF height[head] < MAX_HEIGHT /\ my[p].newSize > SizeLimit[height[head]]
     THEN /\ my' = [my EXCEPT ![p].nodeHeight = height[head] + 1]
          /\ Goto(p, "grow")
     ELSE Return(p, "yes")
  /\ UNCHANGED <<nodeVars, lock, listVars, calls>>

(* growHeight loads head_. *)
GrowHeight(p) ==
  /\ pc[p] = "grow"
  /\ IF height[head] >= my[p].nodeHeight
     THEN Return(p, "yes")
     ELSE my' = [my EXCEPT ![p].node = head] /\ Goto(p, "swap")
  /\ UNCHANGED <<nodeVars, lock, listVars, calls>>

(* With the old head locked: copyHead and the exchange of head_. *)
SwapHead(p) ==
  /\ pc[p] = "swap" /\ lock[my[p].node] = None
  /\ IF head = my[p].node
     THEN /\ lock' = [lock EXCEPT ![head] = p]
          /\ \E newHead \in Node :
               /\ Fresh(newHead)
               /\ skip' = [skip EXCEPT ![newHead] = skip[head]]
               /\ height' = [height EXCEPT ![newHead] = my[p].nodeHeight]
               /\ head' = newHead
          /\ Goto(p, "retire") /\ UNCHANGED my
     ELSE /\ Return(p, "yes")
          /\ UNCHANGED <<lock, skip, height, head>>
  /\ UNCHANGED <<data, full, marked, size, recycled, calls>>

(* The old head is marked, unlocked and recycled. *)
RetireHead(p) ==
  /\ pc[p] = "retire"
  /\ marked' = marked \cup {my[p].node}
  /\ lock' = Released(p)
  /\ recycled' = recycled \cup {my[p].node}
  /\ Return(p, "yes")
  /\ UNCHANGED <<skip, data, height, full, head, size, calls>>

-----------------------------------------------------------------------------
(* remove *)

okToDelete(n, layer) ==
  n \in full /\ height[n] - 1 = layer /\ n \notin marked

RemoveFound(p) ==
  /\ pc[p] = "found" /\ my[p].op = "remove"
  /\ IF my[p].nodeToDelete # nullptr
     THEN Goto(p, "lock") /\ UNCHANGED my
     ELSE IF my[p].foundLayer >= 0 /\ okToDelete(my[p].node, my[p].foundLayer)
     THEN Goto(p, "mark") /\ UNCHANGED my
     ELSE Return(p, "no")
  /\ UNCHANGED <<nodeVars, lock, listVars, calls>>

(* Mutant of MarkNode: maxLayer() for height(). *)
MarkNodeShort(p) ==
  /\ pc[p] = "mark"
  /\ LET n == my[p].node
     IN /\ lock[n] = None
        /\ IF n \in marked
           THEN Return(p, "no") /\ UNCHANGED <<lock, marked>>
           ELSE /\ lock' = [lock EXCEPT ![n] = p]
                /\ marked' = marked \cup {n}
                /\ my' = [my EXCEPT ![p].nodeToDelete = n,
                                    ![p].nodeHeight = height[n] - 1]
                /\ Goto(p, "lock")
  /\ UNCHANGED <<skip, data, height, full, listVars, calls>>

(* With the node locked: another remove was first, or it is marked. *)
MarkNode(p) ==
  /\ pc[p] = "mark"
  /\ LET n == my[p].node
     IN /\ lock[n] = None
        /\ IF n \in marked
           THEN Return(p, "no") /\ UNCHANGED <<lock, marked>>
           ELSE /\ lock' = [lock EXCEPT ![n] = p]
                /\ marked' = marked \cup {n}
                /\ my' = [my EXCEPT ![p].nodeToDelete = n,
                                    ![p].nodeHeight = height[n]]
                /\ Goto(p, "lock")
  /\ UNCHANGED <<skip, data, height, full, listVars, calls>>

(* The node at layer i, from its top. *)
UnlinkLayer(p) ==
  /\ pc[p] = "unlink"
  /\ LET m == my[p]
     IN /\ skip' = [skip EXCEPT ![m.preds[m.i]][m.i] = skip[m.nodeToDelete][m.i]]
        /\ IF m.i > 0
           THEN my' = [my EXCEPT ![p].i = @ - 1] /\ UNCHANGED pc
           ELSE Goto(p, "uncount") /\ UNCHANGED my
  /\ UNCHANGED <<data, height, full, marked, lock, listVars, calls>>

(* incrementSize(-1), then the guards are given up. *)
CountOut(p) ==
  /\ pc[p] = "uncount"
  /\ size' = size - 1
  /\ lock' = Released(p)
  /\ Goto(p, "recycle")
  /\ UNCHANGED <<nodeVars, head, recycled, calls, my>>

(* recycle, then the node's own lock is given up. *)
Recycle(p) ==
  /\ pc[p] = "recycle"
  /\ recycled' = recycled \cup {my[p].nodeToDelete}
  /\ lock' = [lock EXCEPT ![my[p].nodeToDelete] = None]
  /\ Return(p, "yes")
  /\ UNCHANGED <<nodeVars, head, size, calls>>

-----------------------------------------------------------------------------

Step(p) ==
  \/ LoadHeight(p) \/ LoadHead(p) \/ Advance(p) \/ Down(p) \/ DownFind(p)
  \/ find(p)
  \/ AddFound(p) \/ WaitLinked(p) \/ AddHeight(p) \/ LockLayer(p)
  \/ LinkLayer(p) \/ SetFullyLinked(p) \/ CountIn(p)
  \/ CheckLimit(p) \/ GrowHeight(p) \/ SwapHead(p) \/ RetireHead(p)
  \/ RemoveFound(p) \/ MarkNode(p) \/ UnlinkLayer(p) \/ CountOut(p)
  \/ Recycle(p)

(* The nodes reachable from head_ at layer l. *)
InLayer(l) ==
  LET from[n \in Node \cup {nullptr}] ==
        IF n = nullptr THEN {} ELSE {n} \cup from[skip[n][l]]
  IN from[head]

(* What each key is in the list: "partial" while its node is being linked. *)
Status ==
  LET live == {n \in InLayer(0) : n \notin marked}
  IN [k \in Key |->
        IF \A n \in live : data[n] # k THEN "absent"
        ELSE IF \A n \in live \cap full : data[n] # k THEN "partial"
        ELSE "present"]

Observe ==
  seen' = [p \in Proc |->
             IF pc'[p] \in Rest THEN {}
             ELSE (IF pc[p] \in Rest THEN {} ELSE seen[p])
                  \cup {Status'[my'[p].data]}]

Next ==
  \E p \in Proc :
    /\ Step(p) \/ \E op \in {"find", "add", "remove"}, k \in Key : Call(p, op, k)
    /\ Observe

Spec == Init /\ [][Next]_vars

-----------------------------------------------------------------------------

(* Every link leads to a strictly larger key, the links of nodes already   *)
(* removed and of replaced heads included: a search that stands on such a  *)
(* node never goes back or round, and no layer has two nodes with one key. *)
LinksUpward ==
  \A n \in Node, l \in Layer :
    skip[n][l] # nullptr => data[n] < data[skip[n][l]]

(* A node that add has announced and nobody removes is found from head_ on *)
(* all its layers: no concurrent insertion, removal or growth loses it.    *)
LiveReachable ==
  \A n \in full \ marked : \A l \in 0 .. height[n] - 1 : n \in InLayer(l)

(* A node given to recycle cannot be reached from head_ any more, on any   *)
(* layer: a later Accessor never meets it.                                 *)
RecycledUnreachable ==
  \A l \in Layer : l < height[head] => InLayer(l) \cap recycled = {}

(* Deadlock is impossible because locks are taken in descending order: a   *)
(* thread that waits for a node's lock holds only locks of nodes with      *)
(* larger keys.                                                            *)
LockOrder ==
  \A p \in Proc : \A n \in Node :
    lock[n] = p =>
      CASE pc[p] = "lock" ->
             \/ data[n] > data[my[p].preds[my[p].i]]
             \/ n = my[p].preds[my[p].i] /\ my[p].i > 0
        [] pc[p] \in {"mark", "swap"} -> FALSE
        [] OTHER -> TRUE

(* Each answer was right at some time during the call: contains saw the    *)
(* key, or its absence; add refuses a key that was there; remove refuses a *)
(* key that was not there or not there completely.  contains counts a key  *)
(* that is still being linked, remove does not.                            *)
AnswersRight ==
  [][\A p \in Proc :
       LET op == my[p].op
       IN /\ pc[p] \notin Rest /\ pc'[p] = "yes" /\ op = "find" =>
               seen[p] \cap {"present", "partial"} # {}
          /\ pc[p] \notin Rest /\ pc'[p] = "no" =>
               CASE op = "find" -> "absent" \in seen[p]
                 [] op = "add" -> "present" \in seen[p]
                 [] op = "remove" -> seen[p] \cap {"absent", "partial"} # {}
    ]_vars
=============================================================================
