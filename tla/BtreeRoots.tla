----------------------------- MODULE BtreeRoots -----------------------------
(***************************************************************************)
(* Versions of Oceanbase's copy-on-write B-tree, of                        *)
(* src/ds_algor/bTree/From Oceanbase/btree: how BtreeBase publishes a new  *)
(* BtreeRootPointer, how readers pin one without a lock, and when the      *)
(* nodes of an old version, and its root pointer, are used again.          *)
(*                                                                         *)
(* Writers hold wl_mutex_ from get_write_handle to the end of              *)
(* BtreeWriteHandle::end, so one writer at a time is active and its work   *)
(* on nodes that no version holds yet is one action per call.  Readers     *)
(* take no lock: every load of root_pointer_, and every access to a root   *)
(* pointer's ref_count_ or sequence_, is an action of its own.             *)
(* root_pointer_ is a plain member read without synchronisation: a use of  *)
(* it is either a load or the value of the load before, as the compiler    *)
(* pleases.  The use after the store to handle.root_pointer_ is a load,    *)
(* since that store may have changed root_pointer_ for all the compiler    *)
(* knows; nothing else would make it one.                                  *)
(*                                                                         *)
(* A tree is its set of nodes and the node at the top; keys and the shape  *)
(* are left out.  put_pair and remove_pair copy some path that contains    *)
(* the top, add nodes, and drop nodes.  There is one tree (tree_count_ is  *)
(* 1), keys are not counted (key_allocator_ is NULL), handles are not      *)
(* nested, and memory does not run out.                                    *)
(***************************************************************************)
EXTENDS Integers, Sequences, FiniteSets, Functions, Lists

CONSTANTS Root,         \* addresses of BtreeRootPointers
          Empty,        \* &empty_root_pointer_
          NoRoot,       \* NULL
          Nodes,        \* the number of node addresses
          Reader,       \* threads with a BtreeBaseHandle
          MaxRecycle,   \* MAX_RECYCLE_ROOT_COUNT
          MaxSequence,  \* bound on the number of write handles
          MaxWrites,    \* bound on the writes through one handle
          MaxTree       \* bound on the nodes of a tree

ASSUME RootsAssumption ==
  /\ Empty \notin Root /\ NoRoot \notin Root \cup {Empty}
  /\ MaxRecycle \in Nat

ASSUME ReaderAssumption == IsFiniteSet(Reader)

VARIABLES rootPointer,  \* root_pointer_
          sequence,     \* sequence_ of each root pointer
          refCount,     \* ref_count_: its upper 32 bits and its count
          tree,         \* root_[0] and what it leads to
          nodeList,     \* node_list_
          chain,        \* the root pointers from root_pointer_ to root_tail_
          freelist,     \* proot_freelist_
          prootSeq,     \* proot_sequence_
          nodeSeq,      \* sequence of each node; 0 when it is not allocated
          readOnly,     \* nodes with read_only_ set
          deleted,      \* nodes with deleted_ set
          wpc,          \* where the writer is; "none" when wl_mutex_ is free
          wroot,        \* handle.root_pointer_ of the write handle
          prev,         \* handle.prev_root_pointer_
          error,        \* handle.error_ is set
          writes,       \* writes made through the handle
          proot, cnt,   \* locals of the recycling loop
          pc,           \* where each reader is
          q,            \* the root pointer the reader loaded last
          old,          \* old_value
          h,            \* handle.root_pointer_ of the reader
          asked,        \* history: the version current when the call began
          stray         \* history: a refcas has succeeded on zeroed memory

rootVars   == <<rootPointer, sequence, refCount, tree, nodeList, chain>>
allocVars  == <<freelist, prootSeq, nodeSeq, readOnly, deleted>>
writerVars == <<wpc, wroot, prev, error, writes, proot, cnt>>
readerVars == <<pc, q, old, h, asked, stray>>
vars == <<rootVars, allocVars, writerVars, readerVars>>

Node == 1 .. Nodes
AnyRoot == Root \cup {Empty}

NoTree == [top |-> 0, nodes |-> {}]

(* ref_count_ of a live root pointer holds its sequence in the upper half. *)
Tagged(seq, n) == [tag |-> seq, cnt |-> n]

(* Root pointers the node allocator can hand out; all are alike. *)
Spare == Root \ (Range(chain) \cup Range(freelist) \cup {wroot})

Unallocated == {n \in Node : nodeSeq[n] = 0}

(* The k lowest free addresses: which ones are taken makes no difference. *)
Fresh(k) ==
  {n \in Unallocated : Cardinality({m \in Unallocated : m <= n}) <= k}

Init ==
  /\ rootPointer = Empty
  /\ sequence = [r \in AnyRoot |-> 0]
  /\ refCount = [r \in AnyRoot |-> Tagged(0, 0)]
  /\ tree = [r \in AnyRoot |-> NoTree]
  /\ nodeList = [r \in AnyRoot |-> {}]
  /\ chain = <<>> /\ freelist = <<>>
  /\ prootSeq = 0
  /\ nodeSeq = [n \in Node |-> 0]
  /\ readOnly = {} /\ deleted = {}
  /\ wpc = "none" /\ wroot = NoRoot /\ prev = NoRoot
  /\ error = FALSE /\ writes = 0 /\ proot = NoRoot /\ cnt = 0
  /\ pc = [r \in Reader |-> "idle"]
  /\ q = [r \in Reader |-> NoRoot]
  /\ old = [r \in Reader |-> Tagged(0, 0)]
  /\ h = [r \in Reader |-> NoRoot]
  /\ asked = [r \in Reader |-> 0]
  /\ stray = FALSE

-----------------------------------------------------------------------------
(* The writer. *)

(* The lock, and a root pointer from the free list or else zeroed memory.  *)
(* One from the free list keeps its ref_count_ for now.                    *)
get_write_handle ==
  /\ wpc = "none" /\ prootSeq < MaxSequence
  /\ \/ /\ freelist # <<>>
        /\ wroot' = Head(freelist) /\ freelist' = Tail(freelist)
        /\ UNCHANGED <<sequence, refCount, tree>>
     \/ /\ freelist = <<>>
        /\ Spare # {} /\ wroot' = CHOOSE r \in Spare : TRUE
        /\ sequence' = [sequence EXCEPT ![wroot'] = 0]
        /\ refCount' = [refCount EXCEPT ![wroot'] = Tagged(0, 0)]
        /\ tree' = [tree EXCEPT ![wroot'] = NoTree]
        /\ UNCHANGED freelist
  /\ nodeList' = [nodeList EXCEPT ![wroot'] = {}]
  /\ wpc' = "init"
  /\ UNCHANGED <<rootPointer, chain, prootSeq, nodeSeq, readOnly, deleted,
                 prev, error, writes, proot, cnt, readerVars>>

(* As InitRoot, but ref_count_ keeps the value it had on the free list. *)
InitRootKeepsCount ==
  /\ wpc = "init"
  /\ prootSeq' = prootSeq + 1
  /\ sequence' = [sequence EXCEPT ![wroot] = prootSeq + 1]
  /\ tree' = [tree EXCEPT ![wroot] = tree[rootPointer]]
  /\ prev' = rootPointer
  /\ error' = FALSE /\ writes' = 0
  /\ wpc' = "open"
  /\ UNCHANGED <<rootPointer, refCount, nodeList, chain, freelist, nodeSeq,
                 readOnly, deleted, wroot, proot, cnt, readerVars>>

(* The rest of get_write_handle: the new version starts as the current one. *)
InitRoot ==
  /\ wpc = "init"
  /\ prootSeq' = prootSeq + 1
  /\ sequence' = [sequence EXCEPT ![wroot] = prootSeq + 1]
  /\ refCount' = [refCount EXCEPT ![wroot] = Tagged(prootSeq + 1, 0)]
  /\ tree' = [tree EXCEPT ![wroot] = tree[rootPointer]]
  /\ prev' = rootPointer
  /\ error' = FALSE /\ writes' = 0
  /\ wpc' = "open"
  /\ UNCHANGED <<rootPointer, nodeList, chain, freelist, nodeSeq, readOnly,
                 deleted, wroot, proot, cnt, readerVars>>

(* copy_node_for_write and copy_next_node_for_write on the nodes of path,  *)
(* and k new_nodes: read-only nodes are replaced by copies and wait on the *)
(* previous root pointer; new nodes are listed on the handle's own.  When  *)
(* the tree has grown one of them is the new top.                          *)
CopyOnWrite(path, k, grown) ==
  LET t == tree[wroot]
      c == path \cap readOnly
      f == Fresh(Cardinality(c) + k)
  IN [copied |-> c, fresh |-> f, nodes |-> (t.nodes \ c) \cup f,
      top |-> IF t.top \in c \/ t.nodes = {} \/ grown
              THEN CHOOSE n \in f : \A m \in f : n <= m ELSE t.top]

(* Paths from the top; the copies must fit in the bound Nodes. *)
Paths == {p \in SUBSET tree[wroot].nodes :
            /\ tree[wroot].top \in p
            /\ Cardinality(p \cap readOnly) <= Cardinality(Unallocated)}

(* How many nodes add_pair_to_node adds: one for each node of the path it  *)
(* splits, from the bottom up and short of the top; or one for every level *)
(* and the new top above.                                                  *)
Splits(path, k, grown) ==
  \/ ~grown /\ k < Cardinality(path)
  \/ grown /\ k \in 2 .. Cardinality(path) + 1

(* put_pair: the first node of an empty tree; or a path is copied and some *)
(* of its nodes are split.                                                 *)
put_pair(path, k, grown) ==
  /\ \/ tree[wroot].nodes = {} /\ path = {} /\ k = 1 /\ ~grown
     \/ path \in Paths /\ Splits(path, k, grown)
  /\ Cardinality(tree[wroot].nodes) + k <= MaxTree
  /\ Cardinality(path \cap readOnly) + k <= Cardinality(Unallocated)
  /\ LET w == CopyOnWrite(path, k, grown)
     IN /\ tree' = [tree EXCEPT ![wroot] = [top |-> w.top, nodes |-> w.nodes]]
        /\ nodeList' = [nodeList EXCEPT ![wroot] = @ \cup w.fresh,
                                        ![prev] = @ \cup w.copied]
        /\ nodeSeq' = [n \in Node |-> IF n \in w.fresh THEN sequence[wroot]
                                      ELSE nodeSeq[n]]
  /\ writes' = writes + 1
  /\ UNCHANGED <<rootPointer, sequence, refCount, chain, freelist, prootSeq,
                 readOnly, deleted, wpc, wroot, prev, error, proot, cnt,
                 readerVars>>

(* remove_pair: a path is copied, then nodes that became empty, and nodes  *)
(* merged into their left neighbour, are dropped.  A dropped node of this  *)
(* handle is only marked; a read-only one waits on the previous root.  A   *)
(* top with one child left gives way to the child.                         *)
remove_pair(path, dropped, top) ==
  /\ LET w == CopyOnWrite(path, 0, FALSE)
         left == w.nodes \ dropped
     IN /\ top = IF w.top \notin dropped THEN w.top
                 ELSE IF left = {} THEN 0 ELSE top
        /\ top \in left \cup {0} /\ (top = 0 <=> left = {})
        /\ tree' = [tree EXCEPT ![wroot] = [top |-> top, nodes |-> left]]
        /\ nodeList' = [nodeList EXCEPT
             ![wroot] = @ \cup w.fresh,
             ![prev] = @ \cup w.copied \cup (dropped \cap readOnly)]
        /\ nodeSeq' = [n \in Node |-> IF n \in w.fresh THEN sequence[wroot]
                                      ELSE nodeSeq[n]]
        /\ deleted' = deleted \cup (dropped \ readOnly)
  /\ writes' = writes + 1
  /\ UNCHANGED <<rootPointer, sequence, refCount, chain, freelist, prootSeq,
                 readOnly, wpc, wroot, prev, error, proot, cnt, readerVars>>

(* BtreeBase::clear with remove_allnode: its handle does nothing else. *)
clear ==
  /\ wpc = "open" /\ writes = 0 /\ ~error
  /\ tree' = [tree EXCEPT ![wroot] = NoTree]
  /\ nodeList' = [nodeList EXCEPT ![prev] = @ \cup tree[wroot].nodes]
  /\ wpc' = "end"
  /\ UNCHANGED <<rootPointer, sequence, refCount, chain, allocVars, wroot,
                 prev, error, writes, proot, cnt, readerVars>>

(* rollback, or a put_pair that found its key and may not overwrite it. *)
rollback ==
  /\ wpc = "open" /\ ~error
  /\ error' = TRUE
  /\ UNCHANGED <<rootVars, allocVars, wpc, wroot, prev, writes, proot, cnt,
                 readerVars>>

(* callback_done refuses a handle that changed nothing. *)
Changed == tree[wroot].top = 0 \/ tree[wroot].top # tree[rootPointer].top

(* As publish, with set_read_only(key_allocator_, false). *)
publishKeepsDeleted ==
  /\ wpc \in {"open", "end"} /\ ~error /\ Changed
  /\ readOnly' = readOnly \cup (nodeList[wroot] \ deleted)
  /\ nodeList' = [nodeList EXCEPT ![wroot] = {}]
  /\ rootPointer' = wroot
  /\ chain' = IF prev = Empty THEN <<wroot>> ELSE <<wroot>> \o chain
  /\ wpc' = "flip"
  /\ UNCHANGED <<sequence, refCount, tree, freelist, prootSeq, nodeSeq, deleted,
                 wroot, prev, error, writes, proot, cnt, readerVars>>

(* callback_done up to the switch: nodes marked deleted are released, the  *)
(* others become read-only, and the version is published.                  *)
publish ==
  /\ wpc \in {"open", "end"} /\ ~error /\ Changed
  /\ LET gone == nodeList[wroot] \cap deleted
     IN /\ nodeSeq' = [n \in Node |-> IF n \in gone THEN 0 ELSE nodeSeq[n]]
        /\ deleted' = deleted \ gone
        /\ readOnly' = readOnly \cup (nodeList[wroot] \ gone)
  /\ nodeList' = [nodeList EXCEPT ![wroot] = {}]
  /\ rootPointer' = wroot
  /\ chain' = IF prev = Empty THEN <<wroot>> ELSE <<wroot>> \o chain
  /\ wpc' = "flip"
  /\ UNCHANGED <<sequence, refCount, tree, freelist, prootSeq, wroot, prev,
                 error, writes, proot, cnt, readerVars>>

(* As flip, but the tag stays. *)
flipNothing ==
  /\ wpc = "flip"
  /\ proot' = chain[Len(chain)] /\ cnt' = MaxRecycle
  /\ wpc' = "recycle"
  /\ UNCHANGED <<rootVars, allocVars, wroot, prev, error, writes, readerVars>>

(* The loop with refcas: the upper half of ref_count_ is complemented, so  *)
(* that no reader pins the old version any more.                           *)
flip ==
  /\ wpc = "flip"
  /\ refCount' = [refCount EXCEPT ![prev].tag = -@ - 1]
  /\ proot' = chain[Len(chain)] /\ cnt' = MaxRecycle
  /\ wpc' = "recycle"
  /\ UNCHANGED <<rootPointer, sequence, tree, nodeList, chain, allocVars,
                 wroot, prev, error, writes, readerVars>>

Place(r) == CHOOSE i \in 1 .. Len(chain) : chain[i] = r

(* sequence_value: that of the nearest older version that is in use. *)
SequenceInUse(r) ==
  LET used == {i \in Place(r) + 1 .. Len(chain) : refCount[chain[i]].cnt > 0}
  IN IF used = {} THEN 0
     ELSE sequence[chain[CHOOSE i \in used : \A j \in used : i <= j]]

(* As Released, without looking at the sequence. *)
ReleasedAll(r, seq) == nodeList[r]

(* release_node_list. *)
Released(r, seq) == {n \in nodeList[r] : seq = 0 \/ nodeSeq[n] > seq}

(* One round of the recycling loop, from the oldest version towards the    *)
(* current one.                                                            *)
recycle ==
  /\ wpc = "recycle" /\ proot # rootPointer /\ cnt - 1 > 0
  /\ cnt' = cnt - 1
  /\ proot' = chain[Place(proot) - 1]
  /\ IF refCount[proot].cnt # 0
     THEN UNCHANGED <<nodeSeq, readOnly, nodeList, chain, freelist>>
     ELSE LET gone == Released(proot, SequenceInUse(proot))
              kept == nodeList[proot] \ gone
          IN /\ nodeSeq' = [n \in Node |-> IF n \in gone THEN 0 ELSE nodeSeq[n]]
             /\ readOnly' = readOnly \ gone
             /\ nodeList' = [nodeList EXCEPT ![proot] = kept]
             /\ IF kept = {}
                THEN /\ chain' = RemoveFirst(chain, proot)
                     /\ freelist' = Append(freelist, proot)
                ELSE UNCHANGED <<chain, freelist>>
  /\ UNCHANGED <<rootPointer, sequence, refCount, tree, prootSeq, deleted,
                 wpc, wroot, prev, error, writes, readerVars>>

CloseHandle ==
  /\ wpc' = "none" /\ wroot' = NoRoot /\ prev' = NoRoot
  /\ error' = FALSE /\ writes' = 0 /\ proot' = NoRoot /\ cnt' = 0

(* The loop is over, the lock is given back. *)
finish ==
  /\ wpc = "recycle" /\ ~(proot # rootPointer /\ cnt - 1 > 0)
  /\ CloseHandle
  /\ UNCHANGED <<rootVars, allocVars, readerVars>>

(* end() with an error: the handle's nodes are released, its root pointer  *)
(* goes back to the node allocator, and what waited on the previous root   *)
(* pointer stays in use.                                                   *)
discard ==
  /\ wpc \in {"open", "end"} /\ (error \/ ~Changed)
  /\ nodeSeq' = [n \in Node |-> IF n \in nodeList[wroot] THEN 0 ELSE nodeSeq[n]]
  /\ deleted' = deleted \ nodeList[wroot]
  /\ nodeList' = [nodeList EXCEPT ![wroot] = {}, ![prev] = {}]
  /\ CloseHandle
  /\ UNCHANGED <<rootPointer, sequence, refCount, tree, chain, freelist,
                 prootSeq, readOnly, readerVars>>

Write ==
  \/ /\ wpc = "open" /\ writes < MaxWrites
     /\ \/ \E path \in Paths \cup {{}}, k \in 0 .. MaxTree, grown \in BOOLEAN :
             put_pair(path, k, grown)
        \/ \E path \in Paths :
             \E dropped \in SUBSET CopyOnWrite(path, 0, FALSE).nodes,
                top \in CopyOnWrite(path, 0, FALSE).nodes \cup {0} :
               remove_pair(path, dropped, top)
  \/ clear
  \/ rollback

Finish == publish \/ flip \/ recycle \/ finish \/ discard

-----------------------------------------------------------------------------
(* get_read_handle, a load or an access to a root pointer at a time. *)

Goto(r, to) == pc' = [pc EXCEPT ![r] = to]

Load(r) == q' = [q EXCEPT ![r] = rootPointer]
LoadOrReuse(r) == \/ Load(r)
                  \/ UNCHANGED q

(* The round failed; what it loaded is forgotten. *)
Again(r) ==
  /\ Goto(r, "again")
  /\ q' = [q EXCEPT ![r] = NoRoot]
  /\ old' = [old EXCEPT ![r] = Tagged(0, 0)]
  /\ h' = [h EXCEPT ![r] = NoRoot]

ReaderUnchanged == UNCHANGED <<rootVars, allocVars, writerVars, stray>>

(* root_pointer_ in old_value = root_pointer_->ref_count_. *)
LoadForCount(r) ==
  /\ pc[r] \in {"idle", "again"}
  /\ Load(r) /\ Goto(r, "count")
  /\ asked' = [asked EXCEPT ![r] = IF pc[r] = "idle" THEN sequence[rootPointer]
                                   ELSE @]
  /\ UNCHANGED <<old, h>> /\ ReaderUnchanged

ReadCount(r) ==
  /\ pc[r] = "count"
  /\ old' = [old EXCEPT ![r] = refCount[q[r]]] /\ Goto(r, "handle")
  /\ UNCHANGED <<q, h, asked>> /\ ReaderUnchanged

(* handle.root_pointer_ = root_pointer_. *)
LoadHandle(r) ==
  /\ pc[r] = "handle"
  /\ LoadOrReuse(r) /\ h' = [h EXCEPT ![r] = q'[r]] /\ Goto(r, "tag")
  /\ UNCHANGED <<old, asked>> /\ ReaderUnchanged

(* root_pointer_ in root_pointer_->sequence_. *)
LoadForTag(r) ==
  /\ pc[r] = "tag"
  /\ Load(r) /\ Goto(r, "compare")
  /\ UNCHANGED <<old, h, asked>> /\ ReaderUnchanged

CompareTag(r) ==
  /\ pc[r] = "compare"
  /\ IF old[r].tag = sequence[q[r]]
     THEN Goto(r, "same") /\ UNCHANGED <<q, old, h>>
     ELSE Again(r)
  /\ UNCHANGED asked /\ ReaderUnchanged

(* As CompareRoot, without the comparison. *)
CompareRootNot(r) ==
  /\ pc[r] = "same"
  /\ LoadOrReuse(r) /\ Goto(r, "target")
  /\ UNCHANGED <<old, h, asked>> /\ ReaderUnchanged

(* handle.root_pointer_ == root_pointer_. *)
CompareRoot(r) ==
  /\ pc[r] = "same"
  /\ \/ /\ LoadOrReuse(r) /\ h[r] = q'[r]
        /\ Goto(r, "target") /\ UNCHANGED <<old, h>>
     \/ /\ h[r] # rootPointer \/ h[r] # q[r]
        /\ Again(r)
  /\ UNCHANGED asked /\ ReaderUnchanged

(* root_pointer_ in refcas(&(root_pointer_->ref_count_), ...). *)
LoadTarget(r) ==
  /\ pc[r] = "target"
  /\ LoadOrReuse(r) /\ Goto(r, "cas")
  /\ UNCHANGED <<old, h, asked>> /\ ReaderUnchanged

(* As refcas, but an addition that does not compare. *)
refAdd(r) ==
  /\ pc[r] = "cas"
  /\ refCount' = [refCount EXCEPT ![q[r]].cnt = @ + 1]
  /\ Goto(r, "held") /\ q' = [q EXCEPT ![r] = NoRoot]
  /\ old' = [old EXCEPT ![r] = Tagged(0, 0)]
  /\ UNCHANGED <<h, stray, rootPointer, sequence, tree, nodeList, chain, asked,
                 allocVars, writerVars>>

refcas(r) ==
  /\ pc[r] = "cas"
  /\ IF refCount[q[r]] = old[r]
     THEN /\ refCount' = [refCount EXCEPT ![q[r]].cnt = @ + 1]
          /\ Goto(r, "held") /\ q' = [q EXCEPT ![r] = NoRoot]
          /\ old' = [old EXCEPT ![r] = Tagged(0, 0)]
          /\ stray' = (stray \/ (q[r] # Empty /\ old[r].tag = 0))
          /\ UNCHANGED h
     ELSE Again(r) /\ UNCHANGED <<refCount, stray>>
  /\ UNCHANGED <<rootPointer, sequence, tree, nodeList, chain, asked,
                 allocVars, writerVars>>

(* BtreeBaseHandle::clear. *)
ClearHandle(r) ==
  /\ pc[r] = "held"
  /\ refCount' = [refCount EXCEPT ![h[r]].cnt = @ - 1]
  /\ Goto(r, "idle") /\ h' = [h EXCEPT ![r] = NoRoot]
  /\ asked' = [asked EXCEPT ![r] = 0]
  /\ UNCHANGED <<rootPointer, sequence, tree, nodeList, chain, q, old,
                 stray, allocVars, writerVars>>

get_read_handle(r) ==
  \/ LoadForCount(r) \/ ReadCount(r) \/ LoadHandle(r) \/ LoadForTag(r)
  \/ CompareTag(r) \/ CompareRoot(r) \/ LoadTarget(r) \/ refcas(r)

Next ==
  \/ get_write_handle \/ InitRoot \/ Write \/ Finish
  \/ \E r \in Reader : get_read_handle(r) \/ ClearHandle(r)

Spec == Init /\ [][Next]_vars

-----------------------------------------------------------------------------

Holders(r) == {d \in Reader : pc[d] = "held" /\ h[d] = r}

(* A version a reader has pinned stays as it was: its root pointer is not  *)
(* recycled, and none of its nodes is released or given to another         *)
(* version, however many versions are published, rolled back and recycled  *)
(* meanwhile.  A reader that was delayed from its read of                  *)
(* empty_root_pointer_'s count until the allocator had zeroed a root       *)
(* pointer again may count itself there, where its tag 0 matches; nothing  *)
(* is claimed once that has happened (stray).                              *)
PinnedIntact ==
  ~stray => \A d \in Reader : pc[d] = "held" =>
    /\ h[d] \in Range(chain) \cup {Empty}
    /\ \A n \in tree[h[d]].nodes :
         n \in readOnly /\ nodeSeq[n] \in 1 .. sequence[h[d]]

(* get_read_handle answers with a version that was current at some time    *)
(* during the call, never with one already replaced when it began.         *)
PinRecent ==
  ~stray => \A d \in Reader : pc[d] = "held" =>
    sequence[h[d]] \in asked[d] .. sequence[rootPointer]

(* The count of every root pointer in the list is the number of handles on *)
(* it, so the recycling loop and SequenceInUse see every reader.           *)
CountExact ==
  ~stray => \A r \in Range(chain) \cup {Empty} :
    refCount[r].cnt = Cardinality(Holders(r))

(* Every node that is allocated is in the current version, or waits in the *)
(* node_list_ of exactly one version, or belongs to the open handle; and   *)
(* what waits on the root pointer just published, or rolled back, is not   *)
(* what the current version still uses.                                    *)
NodesAccounted ==
  LET owners == (Range(chain) \cup {wroot, Empty}) \ {NoRoot}
      current == tree[rootPointer].nodes
      listed == UNION {nodeList[r] : r \in owners}
  IN /\ {n \in Node : nodeSeq[n] # 0} = current \cup listed
     /\ \A r, s \in owners :
          r # s => nodeList[r] \cap nodeList[s] = {}
     /\ wpc \notin {"open", "end"} => current \cap listed = {}

(* A round of the recycling loop on a version nobody has pinned releases   *)
(* exactly the nodes that no older pinned version contains: nothing a      *)
(* reader can reach, and nothing less.                                     *)
RecycleExact ==
  [][recycle /\ refCount[proot].cnt = 0 =>
       nodeList'[proot] =
         {n \in nodeList[proot] :
            \E i \in Place(proot) + 1 .. Len(chain) :
              /\ refCount[chain[i]].cnt > 0
              /\ n \in tree[chain[i]].nodes}]_vars
=============================================================================
