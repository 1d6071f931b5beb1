-------------------------- MODULE BtreeRootsProofs --------------------------
(***************************************************************************)
(* Proofs about BtreeRoots and BtreeRounds, for any number of readers,     *)
(* root pointers and nodes, and any number of versions.                    *)
(*                                                                         *)
(* The inductive invariant has a part about nodes, which says where each   *)
(* allocated node is and that the versions a reader may hold are complete, *)
(* and a part about pins, which says what the tags and counts of the root  *)
(* pointers mean and what a reader knows at each point of get_read_handle. *)
(* The steps are shown to keep the one, then the other; the theorems are   *)
(* at the end.                                                             *)
(***************************************************************************)
EXTENDS BtreeRounds, CacheLemmas

-----------------------------------------------------------------------------
(* The inductive invariant                                                 *)

Counter == [tag : Int, cnt : Int]

WriterPlaces == {"none", "init", "open", "end", "flip", "recycle"}
ReaderPlaces == {"idle", "again", "count", "handle", "tag", "compare", "same",
                 "target", "cas", "held"}

RootTypes ==
  /\ rootPointer \in AnyRoot
  /\ sequence \in [AnyRoot -> Nat]
  /\ refCount \in [AnyRoot -> Counter]
  /\ chain \in Seq(Root) /\ freelist \in Seq(Root)
  /\ prootSeq \in Nat
  /\ wpc \in WriterPlaces
  /\ wroot \in Root \cup {NoRoot}
  /\ prev \in AnyRoot \cup {NoRoot}
  /\ proot \in AnyRoot \cup {NoRoot}

ReaderTypes ==
  /\ pc \in [Reader -> ReaderPlaces]
  /\ q \in [Reader -> AnyRoot \cup {NoRoot}]
  /\ h \in [Reader -> AnyRoot \cup {NoRoot}]
  /\ old \in [Reader -> Counter]
  /\ asked \in [Reader -> Nat]

NodeTypes ==
  /\ tree = [x \in AnyRoot |-> tree[x]]
  /\ \A x \in AnyRoot : tree[x].nodes \in SUBSET Node
  /\ nodeList \in [AnyRoot -> SUBSET Node]
  /\ nodeSeq \in [Node -> Nat]
  /\ readOnly \in SUBSET Node /\ deleted \in SUBSET Node
  /\ writes \in Nat

(* The write handle has a version of its own that is not published. *)
Opened == wpc \in {"open", "end"}

(* A root pointer is on one list at most, and the writer's is on the list  *)
(* of versions once it is published, and never on the free list.           *)
Shape ==
  /\ IsInjective(chain) /\ IsInjective(freelist)
  /\ \A x : ~(Contains(chain, x) /\ Contains(freelist, x))
  /\ wpc = "none" <=> wroot = NoRoot
  /\ ~Contains(freelist, wroot)
  /\ wpc \in {"init", "open", "end"} => ~Contains(chain, wroot)
  /\ rootPointer = IF chain = <<>> THEN Empty ELSE chain[1]
  /\ Opened => prev = rootPointer
  /\ wpc \in {"flip", "recycle"} => wroot = rootPointer
  /\ wpc = "flip" => prev # rootPointer /\ (prev = Empty \/ Contains(chain, prev))
  /\ wpc = "recycle" => Contains(chain, proot)

(* Root pointers that hold a version that was published, or none. *)
Published(x) ==
  Contains(chain, x) \/ Contains(freelist, x) \/ (wpc = "init" /\ x = wroot)

(* A reader may still pin the version of x. *)
Open(x) == x = rootPointer \/ (wpc = "flip" /\ x = prev)

(* The tag of a root pointer is its sequence or negative, and of the       *)
(* published ones only those that may be pinned have their sequence.       *)
Tags ==
  /\ \A x \in AnyRoot : refCount[x].tag >= 0 => refCount[x].tag = sequence[x]
  /\ \A x \in AnyRoot : Open(x) => refCount[x].tag = sequence[x]
  /\ \A x \in AnyRoot : Published(x) /\ refCount[x].tag > 0 => Open(x)
  /\ Opened => refCount[wroot].tag = sequence[wroot]

(* A sequence is given once, and the list of versions runs from the newest *)
(* to the oldest.                                                          *)
Ordered ==
  /\ sequence[Empty] = 0
  /\ \A x \in AnyRoot : sequence[x] <= prootSeq
  /\ \A x, y \in AnyRoot : sequence[x] = sequence[y] => x = y \/ sequence[x] = 0
  /\ \A i, j \in 1 .. Len(chain) : i < j => sequence[chain[j]] < sequence[chain[i]]
  /\ \A x : Contains(chain, x) => sequence[x] > 0
  /\ Opened => sequence[wroot] = prootSeq /\ prootSeq > 0

(* What a reader knows at each point of get_read_handle.  If n, the tag it *)
(* read, is still the sequence of a root pointer x, then x held the        *)
(* current version at some time of the call.                               *)
Knows(r) ==
  LET n == old[r].tag IN
  /\ n <= prootSeq
  /\ pc[r] = "compare" /\ n > 0 /\ n = sequence[q[r]] =>
       Published(q[r]) /\ asked[r] <= n
  /\ pc[r] \in {"same", "target", "cas"} =>
       /\ n >= 0
       /\ n > 0 => asked[r] <= n
       /\ n > 0 => \A x \in AnyRoot : sequence[x] = n =>
            /\ Published(x)
            /\ pc[r] = "same" => x = q[r]
            /\ pc[r] = "target" => x = h[r] \/ (x # q[r] /\ x # rootPointer)
            /\ pc[r] = "cas" => x = h[r] \/ x # q[r]

(* The local variables of a reader, and the empty root pointer, which is   *)
(* not used again once a version is published.                             *)
Local(r) ==
  /\ q[r] = NoRoot <=> pc[r] \in {"idle", "again", "held"}
  /\ h[r] = NoRoot <=> pc[r] \in {"idle", "again", "count", "handle"}
  /\ rootPointer = Empty => q[r] \in {NoRoot, Empty} /\ h[r] \in {NoRoot, Empty}
  /\ q[r] = Empty => h[r] \in {NoRoot, Empty} /\ asked[r] = 0
  /\ asked[r] <= sequence[rootPointer]

(* What is pinned is a version of the list that was current during the     *)
(* call.                                                                   *)
Pinned(r) ==
  ~stray /\ pc[r] = "held" =>
    /\ Contains(chain, h[r]) \/ h[r] = Empty
    /\ asked[r] <= sequence[h[r]]

(* The counts; that of an unpublished version is zero. *)
Counts ==
  ~stray =>
    /\ \A x : Contains(chain, x) \/ x = Empty =>
         refCount[x].cnt = Cardinality(Holders(x))
    /\ Opened => refCount[wroot].cnt = 0

(* There are finitely many readers, so sets of them can be counted.  This  *)
(* is a fact about the constants; it is derived from ReaderAssumption at   *)
(* the end.                                                                *)
Sizes ==
  /\ Cardinality({}) = 0
  /\ \A S \in SUBSET Reader :
       /\ Cardinality(S) \in Nat
       /\ Cardinality(S) = 0 <=> S = {}
       /\ \A d \in Reader :
            /\ d \notin S => Cardinality(S \cup {d}) = Cardinality(S) + 1
            /\ d \in S => Cardinality(S \ {d}) = Cardinality(S) - 1

PinInv ==
  /\ Sizes /\ RootTypes /\ ReaderTypes /\ Shape /\ Tags /\ Ordered /\ Counts
  /\ \A r \in Reader : Knows(r) /\ Local(r) /\ Pinned(r)

(* The nodes of the current version. *)
Cur == tree[rootPointer].nodes

(* Root pointers on which nodes may wait. *)
Owner(x) == Contains(chain, x) \/ x = Empty \/ (x = wroot /\ x # NoRoot)

(* n is in the current version, or waits on a version not older than x. *)
Kept(n, x) ==
  \/ n \in Cur
  \/ \E y \in AnyRoot : /\ Contains(chain, y) /\ sequence[x] <= sequence[y]
                        /\ n \in nodeList[y]

(* The nodes of x are all there. *)
Intact(x) ==
  \A n \in tree[x].nodes :
    n \in readOnly /\ nodeSeq[n] \in 1 .. sequence[x] /\ Kept(n, x)

(* A node is allocated while it is in the current version or on a list. *)
Allocated ==
  \A n \in Node : nodeSeq[n] # 0 <=>
    n \in Cur \/ \E x \in AnyRoot : Owner(x) /\ n \in nodeList[x]

(* A node is on one list at most; only while a handle is open may one of   *)
(* the current version be on a list, that of the current version.          *)
Apart ==
  /\ \A x, y \in AnyRoot : \A n \in Node :
       Owner(x) /\ Owner(y) /\ n \in nodeList[x] /\ n \in nodeList[y] => x = y
  /\ \A x \in AnyRoot : \A n \in Node :
       Owner(x) /\ n \in Cur /\ n \in nodeList[x] => x = rootPointer

(* What has nothing waiting on it. *)
Settled ==
  /\ ~Opened => nodeList[rootPointer] = {} /\ deleted = {}
  /\ wpc = "init" => nodeList[wroot] = {}
  /\ tree[Empty].nodes = {} /\ nodeList[Empty] = {}
  /\ \A n \in readOnly : nodeSeq[n] # 0

(* What the open handle has copied, added and dropped. *)
Draft ==
  Opened =>
    /\ nodeList[prev] \subseteq Cur
    /\ \A n \in nodeList[wroot] : n \notin readOnly /\ nodeSeq[n] = sequence[wroot]
    /\ deleted \subseteq nodeList[wroot]
    /\ tree[wroot].nodes = (Cur \ nodeList[prev]) \cup (nodeList[wroot] \ deleted)
    /\ writes = 0 => nodeList[wroot] = {}

(* The versions a reader has, or may yet pin, are intact. *)
Readable ==
  \A x \in AnyRoot :
    Contains(chain, x) /\ (Open(x) \/ refCount[x].cnt > 0) => Intact(x)

(* A node that waits is in every version from its own sequence on. *)
Complete ==
  \A x \in AnyRoot, n \in Node :
    Contains(chain, x) /\ nodeSeq[n] <= sequence[x] /\ Kept(n, x) => n \in tree[x].nodes

NodeInv == NodeTypes /\ Allocated /\ Apart /\ Settled /\ Draft /\ Readable /\ Complete

IInv == PinInv /\ NodeInv

-----------------------------------------------------------------------------
(* Rounds of get_read_handle                                               *)

(* What a reader has loaded in a round that nobody has disturbed is still  *)
(* what it would load now.                                                 *)
Undisturbed(r) ==
  r \in calm /\ pc[r] \notin {"idle", "again", "held"} =>
    /\ q[r] = rootPointer
    /\ pc[r] # "count" => old[r] = refCount[rootPointer]
    /\ pc[r] \notin {"count", "handle"} => h[r] = rootPointer

RoundsInv == IInv /\ \A r \in Reader : Undisturbed(r)

(* A step leaves a reader where it is, or is its own. *)
LEMMA OwnStep ==
  ASSUME PinInv, [Next]_vars, NEW r \in Reader
  PROVE  \/ pc'[r] = pc[r] /\ q'[r] = q[r] /\ old'[r] = old[r] /\ h'[r] = h[r]
         \/ get_read_handle(r) \/ ClearHandle(r)
<1>1. CASE UNCHANGED readerVars
  BY <1>1, ZenonT(60) DEF readerVars
<1>2. CASE UNCHANGED vars
  BY <1>2, <1>1, ZenonT(60) DEF vars
<1>3. CASE get_write_handle \/ InitRoot \/ Finish
  BY <1>1, <1>3, ZenonT(60)
     DEF get_write_handle, InitRoot, Finish, publish, flip, recycle, finish, discard
<1>4. CASE Write
  BY <1>1, <1>4, ZenonT(60) DEF Write, put_pair, remove_pair, clear, rollback
<1>5. ASSUME NEW s \in Reader, s # r, get_read_handle(s) \/ ClearHandle(s)
      PROVE  pc'[r] = pc[r] /\ q'[r] = q[r] /\ old'[r] = old[r] /\ h'[r] = h[r]
  <2>1. /\ pc \in [Reader -> ReaderPlaces]
        /\ q \in [Reader -> AnyRoot \cup {NoRoot}] /\ h \in [Reader -> AnyRoot \cup {NoRoot}]
        /\ old \in [Reader -> Counter]
    BY ZenonT(60) DEF PinInv, ReaderTypes
  <2>2. CASE LoadForCount(s) \/ ReadCount(s) \/ LoadHandle(s) \/ LoadForTag(s) \/ LoadTarget(s)
    BY <1>5, <2>1, <2>2, ZenonT(60)
       DEF LoadForCount, ReadCount, LoadHandle, LoadForTag, LoadTarget, Load, LoadOrReuse, Goto
  <2>3. CASE CompareTag(s) \/ CompareRoot(s)
    BY <1>5, <2>1, <2>3, ZenonT(60) DEF CompareTag, CompareRoot, Again, Load, LoadOrReuse, Goto
  <2>4. CASE refcas(s) \/ ClearHandle(s)
    BY <1>5, <2>1, <2>4, ZenonT(60) DEF refcas, ClearHandle, Again, Goto
  <2> QED BY <1>5, <2>2, <2>3, <2>4, ZenonT(60) DEF get_read_handle
<1> QED BY <1>2, <1>3, <1>4, <1>5, ZenonT(60) DEF Next

(* A reader that goes on in its round does so with what is current. *)
LEMMA UndisturbedOn ==
  ASSUME PinInv, [Next]_vars, NEW r \in Reader, Undisturbed(r),
         r \in calm' => \/ pc[r] \in {"idle", "again"} /\ pc'[r] = "count"
                        \/ r \in calm /\ Quiet
  PROVE  Undisturbed(r)'
<1>1. /\ pc \in [Reader -> ReaderPlaces]
      /\ q \in [Reader -> AnyRoot \cup {NoRoot}] /\ h \in [Reader -> AnyRoot \cup {NoRoot}]
      /\ old \in [Reader -> Counter]
  BY ZenonT(60) DEF PinInv, ReaderTypes
<1>2. CASE pc'[r] = pc[r] /\ q'[r] = q[r] /\ old'[r] = old[r] /\ h'[r] = h[r]
  BY <1>2, ZenonT(60) DEF Undisturbed, Quiet
<1>3. CASE LoadForCount(r)
  <2>1. pc'[r] = "count" /\ q'[r] = rootPointer /\ rootPointer' = rootPointer
    BY <1>1, <1>3, ZenonT(60) DEF LoadForCount, Load, Goto, ReaderUnchanged, rootVars
  <2> QED BY <2>1, ZenonT(60) DEF Undisturbed
<1>4. CASE ReadCount(r)
  <2>1. /\ pc[r] = "count" /\ pc'[r] = "handle" /\ q'[r] = q[r] /\ old'[r] = refCount[q[r]]
        /\ rootPointer' = rootPointer /\ refCount' = refCount
    BY <1>1, <1>4, ZenonT(60) DEF ReadCount, Goto, ReaderUnchanged, rootVars
  <2> QED BY <2>1, ZenonT(60) DEF Undisturbed
<1>5. CASE LoadHandle(r)
  <2>1. /\ pc[r] = "handle" /\ pc'[r] = "tag" /\ q'[r] \in {q[r], rootPointer}
        /\ h'[r] = q'[r] /\ old'[r] = old[r]
        /\ rootPointer' = rootPointer /\ refCount' = refCount
    BY <1>1, <1>5, ZenonT(60) DEF LoadHandle, LoadOrReuse, Load, Goto, ReaderUnchanged, rootVars
  <2> QED BY <2>1, ZenonT(60) DEF Undisturbed
<1>6. CASE LoadForTag(r) \/ LoadTarget(r)
  <2>1. /\ pc[r] \in {"tag", "target"} /\ q'[r] \in {q[r], rootPointer}
        /\ h'[r] = h[r] /\ old'[r] = old[r]
        /\ rootPointer' = rootPointer /\ refCount' = refCount
    BY <1>1, <1>6, ZenonT(60)
       DEF LoadForTag, LoadTarget, LoadOrReuse, Load, ReaderUnchanged, rootVars
  <2> QED BY <2>1, ZenonT(60) DEF Undisturbed
<1>7. CASE CompareTag(r) \/ CompareRoot(r)
  <2>1. /\ pc[r] \in {"compare", "same"} /\ rootPointer' = rootPointer /\ refCount' = refCount
        /\ \/ pc'[r] = "again"
           \/ q'[r] \in {q[r], rootPointer} /\ h'[r] = h[r] /\ old'[r] = old[r]
    BY <1>1, <1>7, ZenonT(60)
       DEF CompareTag, CompareRoot, LoadOrReuse, Load, Again, Goto, ReaderUnchanged, rootVars
  <2> QED BY <2>1, ZenonT(60) DEF Undisturbed
<1>8. CASE refcas(r) \/ ClearHandle(r)
  <2>1. pc'[r] \in {"idle", "again", "held"}
    BY <1>1, <1>8, ZenonT(60) DEF refcas, ClearHandle, Again, Goto
  <2> QED BY <2>1, ZenonT(60) DEF Undisturbed
<1> QED BY <1>2, <1>3, <1>4, <1>5, <1>6, <1>7, <1>8, OwnStep, ZenonT(60) DEF get_read_handle

(* A round that nobody has disturbed does not fail. *)
LEMMA CalmSucceeds ==
  ASSUME PinInv, [Next]_vars, NEW r \in Reader, Undisturbed(r), r \in calm,
         pc[r] # "again", pc'[r] = "again"
  PROVE  FALSE
<1>1. /\ pc \in [Reader -> ReaderPlaces]
      /\ refCount[rootPointer].tag = sequence[rootPointer]
  BY ZenonT(60) DEF PinInv, ReaderTypes, RootTypes, Tags, Open
<1>2. CASE CompareTag(r)
  <2>1. pc[r] = "compare" /\ old[r] = refCount[rootPointer] /\ q[r] = rootPointer
    BY <1>2, ZenonT(60) DEF CompareTag, Undisturbed
  <2>2. Goto(r, "same")
    BY <1>1, <1>2, <2>1, ZenonT(60) DEF CompareTag
  <2> QED BY <1>1, <2>2, ZenonT(60) DEF Goto
<1>3. CASE CompareRoot(r)
  <2>1. pc[r] = "same" /\ h[r] = rootPointer /\ q[r] = rootPointer
    BY <1>3, ZenonT(60) DEF CompareRoot, Undisturbed
  <2>2. Goto(r, "target")
    BY <1>3, <2>1, ZenonT(60) DEF CompareRoot
  <2> QED BY <1>1, <2>2, ZenonT(60) DEF Goto
<1>4. CASE refcas(r)
  <2>1. pc[r] = "cas" /\ old[r] = refCount[rootPointer] /\ q[r] = rootPointer
    BY <1>4, ZenonT(60) DEF refcas, Undisturbed
  <2>2. Goto(r, "held")
    BY <1>4, <2>1, ZenonT(60) DEF refcas
  <2> QED BY <1>1, <2>2, ZenonT(60) DEF Goto
<1>5. CASE LoadForCount(r) \/ ReadCount(r) \/ LoadHandle(r) \/ LoadForTag(r) \/ LoadTarget(r)
           \/ ClearHandle(r)
  BY <1>1, <1>5, ZenonT(60)
     DEF LoadForCount, ReadCount, LoadHandle, LoadForTag, LoadTarget, ClearHandle, Goto
<1> QED BY <1>2, <1>3, <1>4, <1>5, OwnStep, ZenonT(60) DEF get_read_handle

-----------------------------------------------------------------------------
(* Versions and pins                                                       *)

(* The list of versions as a set. *)
LEMMA RangeIs ==
  ASSUME RootTypes
  PROVE  \A x : x \in Range(chain) <=> Contains(chain, x)
<1>1. DOMAIN chain = 1 .. Len(chain)
  BY DEF RootTypes
<1> QED BY <1>1, ZenonT(60) DEF Range, Contains

(* The members of the list of versions are root pointers. *)
LEMMA ChainRoots ==
  ASSUME RootTypes
  PROVE  /\ \A x : Contains(chain, x) => x \in Root /\ x \in AnyRoot /\ x # Empty
         /\ \A x : Contains(freelist, x) => x \in Root /\ x \in AnyRoot /\ x # Empty
<1>1. chain \in Seq(Root) /\ freelist \in Seq(Root)
  BY ZenonT(60) DEF RootTypes
<1>2. \A x : Contains(chain, x) \/ Contains(freelist, x) => x \in Root
  BY <1>1 DEF Contains
<1> QED BY <1>2, RootsAssumption, ZenonT(60) DEF AnyRoot

(* A version that is pinned has a count. *)
LEMMA HeldCounted ==
  ASSUME PinInv, ~stray, NEW r \in Reader, pc[r] = "held"
  PROVE  /\ h[r] \in AnyRoot
         /\ refCount[h[r]].cnt # 0
<1>1. Contains(chain, h[r]) \/ h[r] = Empty
  BY ZenonT(60) DEF PinInv, Pinned
<1>2. refCount[h[r]].cnt = Cardinality(Holders(h[r]))
  BY <1>1, ZenonT(60) DEF PinInv, Counts
<1>3. Holders(h[r]) \in SUBSET Reader
  BY ZenonT(60) DEF Holders
<1>4. Holders(h[r]) # {}
  BY ZenonT(60) DEF Holders
<1>5. Cardinality(Holders(h[r])) # 0
  BY <1>3, <1>4, ZenonT(60) DEF PinInv, Sizes
<1>6. h[r] \in AnyRoot
  BY <1>1, ChainRoots, ZenonT(60) DEF PinInv, AnyRoot
<1> QED BY <1>2, <1>5, <1>6, ZenonT(60)

(* The root pointer of a new write handle comes from the free list, or is  *)
(* on no list and zeroed.                                                  *)
LEMMA TakenRoot ==
  ASSUME PinInv, get_write_handle
  PROVE  \E w \in Root :
           /\ wroot' = w /\ ~Contains(chain, w)
           /\ freelist' \in Seq(Root) /\ IsInjective(freelist')
           /\ \A y : Contains(freelist', y) <=> Contains(freelist, y) /\ y # w
           /\ \/ /\ Contains(freelist, w)
                 /\ sequence' = sequence /\ refCount' = refCount /\ tree' = tree
              \/ /\ ~Contains(freelist, w)
                 /\ sequence' = [sequence EXCEPT ![w] = 0]
                 /\ refCount' = [refCount EXCEPT ![w] = Tagged(0, 0)]
                 /\ tree' = [tree EXCEPT ![w] = NoTree]
           /\ nodeList' = [nodeList EXCEPT ![w] = {}]
<1>1. /\ freelist \in Seq(Root) /\ IsInjective(freelist) /\ chain \in Seq(Root)
      /\ \A x : ~(Contains(chain, x) /\ Contains(freelist, x))
  BY ZenonT(60) DEF PinInv, RootTypes, Shape
<1>2. nodeList' = [nodeList EXCEPT ![wroot'] = {}]
  BY ZenonT(60) DEF get_write_handle
<1>3. CASE freelist # <<>>
  <2>1. /\ wroot' = Head(freelist) /\ freelist' = Tail(freelist)
        /\ sequence' = sequence /\ refCount' = refCount /\ tree' = tree
    BY <1>3, ZenonT(60) DEF get_write_handle
  <2>2. /\ Head(freelist) \in Root /\ Contains(freelist, Head(freelist))
        /\ freelist' \in Seq(Root) /\ IsInjective(freelist')
        /\ \A y : Contains(freelist', y) <=> Contains(freelist, y) /\ y # Head(freelist)
    BY <1>1, <1>3, <2>1, TailList, ZenonT(60)
  <2>3. PICK w \in Root : w = Head(freelist)
    BY <2>2, ZenonT(60)
  <2>4. /\ wroot' = w /\ ~Contains(chain, w) /\ Contains(freelist, w)
        /\ \A y : Contains(freelist', y) <=> Contains(freelist, y) /\ y # w
        /\ nodeList' = [nodeList EXCEPT ![w] = {}]
    BY <1>1, <1>2, <2>1, <2>2, <2>3, ZenonT(60)
  <2> QED BY <2>1, <2>2, <2>4, ZenonT(60)
<1>4. CASE freelist = <<>>
  <2>1. /\ Spare # {} /\ wroot' = CHOOSE r \in Spare : TRUE
        /\ sequence' = [sequence EXCEPT ![wroot'] = 0]
        /\ refCount' = [refCount EXCEPT ![wroot'] = Tagged(0, 0)]
        /\ tree' = [tree EXCEPT ![wroot'] = NoTree]
        /\ freelist' = freelist
    BY <1>4, ZenonT(60) DEF get_write_handle
  <2>2. PICK w \in Spare : w = wroot'
    BY <2>1, ZenonT(60)
  <2>3. /\ w \in Root /\ w \notin Range(chain) /\ w \notin Range(freelist)
    BY <2>2, ZenonT(60) DEF Spare
  <2>4. DOMAIN chain = 1 .. Len(chain) /\ DOMAIN freelist = 1 .. Len(freelist)
    BY <1>1
  <2>5. ~Contains(chain, w) /\ ~Contains(freelist, w)
    BY <2>3, <2>4, ZenonT(60) DEF Range, Contains
  <2>6. \A y : Contains(freelist', y) <=> Contains(freelist, y) /\ y # w
    BY <2>1, <2>5, ZenonT(60)
  <2>7. /\ wroot' = w
        /\ sequence' = [sequence EXCEPT ![w] = 0]
        /\ refCount' = [refCount EXCEPT ![w] = Tagged(0, 0)]
        /\ tree' = [tree EXCEPT ![w] = NoTree]
        /\ nodeList' = [nodeList EXCEPT ![w] = {}]
    BY <1>2, <2>1, <2>2, ZenonT(60)
  <2> QED BY <1>1, <2>1, <2>3, <2>5, <2>6, <2>7, ZenonT(60)
<1> QED BY <1>3, <1>4, ZenonT(60)

(* What publishing does to the list of versions: the new one is put in     *)
(* front.                                                                  *)
LEMMA PublishChain ==
  ASSUME PinInv, Opened, rootPointer' = wroot,
         chain' = IF prev = Empty THEN <<wroot>> ELSE <<wroot>> \o chain
  PROVE  \E w \in Root :
           /\ w = wroot /\ w # Empty /\ w # NoRoot
           /\ ~Contains(chain, w) /\ ~Contains(freelist, w)
           /\ prev = rootPointer /\ w # rootPointer
           /\ rootPointer = Empty => chain = <<>>
           /\ chain' \in Seq(Root) /\ IsInjective(chain')
           /\ Len(chain') = Len(chain) + 1 /\ chain'[1] = w
           /\ \A i \in 1 .. Len(chain) : chain'[i + 1] = chain[i]
           /\ \A y : Contains(chain', y) <=> Contains(chain, y) \/ y = w
<1>1. RootTypes /\ Shape
  BY ZenonT(60) DEF PinInv
<1>2. wpc \in {"open", "end"}
  BY ZenonT(60) DEF Opened
<1>3. PICK w \in Root : w = wroot
  BY <1>1, <1>2, ZenonT(60) DEF RootTypes, Shape
<1>4. w # Empty /\ w # NoRoot
  BY RootsAssumption, ZenonT(60)
<1>5. /\ ~Contains(chain, w) /\ ~Contains(freelist, w) /\ prev = rootPointer
      /\ chain \in Seq(Root) /\ IsInjective(chain)
      /\ rootPointer = IF chain = <<>> THEN Empty ELSE chain[1]
  BY <1>1, <1>2, <1>3, ZenonT(60) DEF Shape, RootTypes, Opened
<1>6. chain # <<>> => Contains(chain, rootPointer)
  BY <1>5 DEF Contains
<1>7. w # rootPointer /\ (rootPointer = Empty => chain = <<>>)
  BY <1>1, <1>4, <1>5, <1>6, ChainRoots, ZenonT(60)
<1>8. chain' = <<w>> \o chain
  <2>1. <<w>> \o <<>> = <<w>>
    OBVIOUS
  <2> QED BY <1>3, <1>5, <1>7, <2>1, ZenonT(60)
<1>9. /\ chain' \in Seq(Root) /\ IsInjective(chain')
      /\ Len(chain') = Len(chain) + 1 /\ chain'[1] = w
      /\ \A i \in 1 .. Len(chain) : chain'[i + 1] = chain[i]
      /\ \A y : Contains(chain', y) <=> Contains(chain, y) \/ y = w
  <2> DEFINE c == <<w>> \o chain
  <2>1. /\ c \in Seq(Root) /\ (IsInjective(chain) /\ ~Contains(chain, w) => IsInjective(c))
        /\ Len(c) = Len(chain) + 1 /\ c[1] = w
        /\ \A i \in 1 .. Len(chain) : c[i + 1] = chain[i]
        /\ \A y : Contains(c, y) <=> Contains(chain, y) \/ y = w
    BY <1>5, ConsList
  <2> HIDE DEF c
  <2>2. chain' = c
    BY <1>8, ZenonT(60) DEF c
  <2> QED BY <1>5, <2>1, <2>2, ZenonT(60)
<1> QED BY <1>3, <1>4, <1>5, <1>7, <1>9, ZenonT(60)

(* Where the recycling loop is. *)
LEMMA RecyclePlace ==
  ASSUME PinInv, wpc = "recycle", proot # rootPointer
  PROVE  /\ Contains(chain, proot) /\ proot \in AnyRoot /\ proot # Empty
         /\ Place(proot) \in 2 .. Len(chain) /\ chain[Place(proot)] = proot
         /\ Contains(chain, chain[Place(proot) - 1]) /\ chain[Place(proot) - 1] # proot
         /\ Len(chain) \in Nat
<1>1. /\ chain \in Seq(Root) /\ Len(chain) \in Nat /\ IsInjective(chain) /\ Contains(chain, proot)
      /\ DOMAIN chain = 1 .. Len(chain)
      /\ rootPointer = IF chain = <<>> THEN Empty ELSE chain[1]
  BY DEF PinInv, RootTypes, Shape
<1>2. proot \in AnyRoot /\ proot # Empty
  BY <1>1, ChainRoots, ZenonT(60) DEF PinInv
<1> DEFINE k == CHOOSE i \in 1 .. Len(chain) : chain[i] = proot
<1>3. k \in 1 .. Len(chain) /\ chain[k] = proot
  BY <1>1, ZenonT(60) DEF Contains
<1>4. Place(proot) = k
  BY ZenonT(60) DEF Place
<1> HIDE DEF k
<1>5. k # 1 /\ chain # <<>>
  BY <1>1, <1>3
<1>6. k \in 2 .. Len(chain) /\ k - 1 \in 1 .. Len(chain) /\ k - 1 # k
  BY <1>1, <1>3, <1>5
<1>7. Contains(chain, chain[k - 1])
  BY <1>6, ZenonT(60) DEF Contains
<1>8. chain[k - 1] # proot
  BY <1>1, <1>3, <1>6, ZenonT(60) DEF IsInjective
<1> QED BY <1>1, <1>2, <1>3, <1>4, <1>6, <1>7, <1>8, ZenonT(60)

(* What a round of the loop does to the lists of root pointers. *)
LEMMA RecycleChain ==
  ASSUME PinInv, wpc = "recycle", proot # rootPointer,
         chain' = RemoveFirst(chain, proot), freelist' = Append(freelist, proot)
  PROVE  /\ chain' \in Seq(Root) /\ IsInjective(chain')
         /\ freelist' \in Seq(Root) /\ IsInjective(freelist')
         /\ \A y : Contains(chain', y) <=> Contains(chain, y) /\ y # proot
         /\ \A y : Contains(freelist', y) <=> Contains(freelist, y) \/ y = proot
         /\ chain' # <<>> /\ chain'[1] = chain[1] /\ chain # <<>>
         /\ Len(chain') = Len(chain) - 1
         /\ \A i \in 1 .. (Len(chain) - 1) :
              chain'[i] = IF i < Place(proot) THEN chain[i] ELSE chain[i + 1]
<1>1. /\ chain \in Seq(Root) /\ Len(chain) \in Nat /\ IsInjective(chain)
      /\ freelist \in Seq(Root) /\ IsInjective(freelist)
      /\ \A x : ~(Contains(chain, x) /\ Contains(freelist, x))
  BY DEF PinInv, RootTypes, Shape
<1>2. PICK k \in 2 .. Len(chain) : k = Place(proot)
  BY RecyclePlace, ZenonT(60)
<1>3. Contains(chain, proot) /\ chain[k] = proot /\ proot \in Root
  <2>1. Contains(chain, proot) /\ chain[k] = proot
    BY <1>2, RecyclePlace, ZenonT(60)
  <2> QED BY <2>1, ChainRoots, ZenonT(60) DEF PinInv
<1>4. /\ chain' \in Seq(Root) /\ IsInjective(chain') /\ Len(chain') = Len(chain) - 1
      /\ \A y : Contains(chain', y) <=> Contains(chain, y) /\ y # proot
  BY <1>1, <1>3, RemoveList, ZenonT(60)
<1>5. \A i \in 1 .. (Len(chain) - 1) : chain'[i] = IF i < k THEN chain[i] ELSE chain[i + 1]
  <2>1. k \in 1 .. Len(chain)
    BY <1>1, <1>2
  <2>2. \A i \in 1 .. (Len(chain) - 1) :
          RemoveFirst(chain, chain[k])[i] = IF i < k THEN chain[i] ELSE chain[i + 1]
    BY <1>1, <2>1, RemovePlaces, ZenonT(60)
  <2> QED BY <1>3, <2>2, ZenonT(60)
<1>6. chain' # <<>> /\ chain'[1] = chain[1] /\ chain # <<>>
  <2>1. 1 \in 1 .. (Len(chain) - 1) /\ 1 < k
    BY <1>1, <1>2
  <2>2. chain'[1] = chain[1]
    BY <1>5, <2>1, ZenonT(60)
  <2>3. Len(chain') # 0 /\ Len(chain) # 0
    BY <1>1, <1>4, <2>1
  <2> QED BY <1>1, <1>4, <2>2, <2>3
<1>7. /\ freelist' \in Seq(Root) /\ IsInjective(freelist')
      /\ \A y : Contains(freelist', y) <=> Contains(freelist, y) \/ y = proot
  <2>1. ~Contains(freelist, proot)
    BY <1>1, <1>3, ZenonT(60)
  <2>2. /\ Append(freelist, proot) \in Seq(Root) /\ IsInjective(Append(freelist, proot))
        /\ \A y : Contains(Append(freelist, proot), y) <=> Contains(freelist, y) \/ y = proot
    BY <1>1, <1>3, <2>1, AppendList
  <2> QED BY <2>2, ZenonT(60)
<1> QED BY <1>2, <1>4, <1>5, <1>6, <1>7, ZenonT(60)

(* What a reader that has not finished its call uses. *)
LEMMA ReaderFacts ==
  ASSUME PinInv, NEW r \in Reader
  PROVE  /\ rootPointer \in AnyRoot /\ prootSeq \in Nat
         /\ NoRoot \notin AnyRoot /\ Empty \in AnyRoot
         /\ sequence \in [AnyRoot -> Nat] /\ sequence[Empty] = 0
         /\ sequence[rootPointer] \in Nat
         /\ pc \in [Reader -> ReaderPlaces]
         /\ q \in [Reader -> AnyRoot \cup {NoRoot}] /\ h \in [Reader -> AnyRoot \cup {NoRoot}]
         /\ old \in [Reader -> Counter] /\ old[r].tag \in Int
         /\ asked \in [Reader -> Nat] /\ asked[r] \in Nat
         /\ Knows(r) /\ Local(r)
         /\ asked[r] <= sequence[rootPointer]
         /\ old[r].tag <= prootSeq
BY RootsAssumption, ZenonT(60)
   DEF PinInv, RootTypes, ReaderTypes, Ordered, AnyRoot, Counter, Knows, Local

(* What refcas pins, unless it is zeroed memory: the root pointer of the   *)
(* handle, which is on the list of versions and recent enough.             *)
LEMMA PinTarget ==
  ASSUME PinInv, NEW r \in Reader, pc[r] = "cas", refCount[q[r]] = old[r],
         q[r] = Empty \/ old[r].tag # 0
  PROVE  /\ h[r] = q[r] /\ asked[r] <= sequence[q[r]]
         /\ q[r] = Empty \/ (Contains(chain, q[r]) /\ Open(q[r]))
<1>1. q[r] \in AnyRoot /\ h[r] # NoRoot
  BY ReaderFacts, ZenonT(60) DEF Local
<1>2. PICK x \in AnyRoot : x = q[r]
  BY <1>1, ZenonT(60)
<1>3. /\ old[r].tag \in Int /\ old[r].tag >= 0
      /\ old[r].tag > 0 => asked[r] <= old[r].tag
      /\ old[r].tag > 0 /\ sequence[x] = old[r].tag => Published(x) /\ (x = h[r] \/ x # q[r])
  BY ReaderFacts, ZenonT(60) DEF Knows
<1>4. old[r].tag = sequence[x]
  BY <1>2, <1>3, ZenonT(60) DEF PinInv, Tags
<1>5. CASE old[r].tag > 0
  <2>1. Published(x) /\ x = h[r] /\ asked[r] <= sequence[x]
    BY <1>2, <1>3, <1>4, <1>5, ZenonT(60)
  <2>2. Open(x)
    BY <1>2, <1>5, <2>1, ZenonT(60) DEF PinInv, Tags
  <2>3. x # Empty
    BY <1>4, <1>5, ReaderFacts
  <2>4. CASE x = rootPointer
    <3>1. chain \in Seq(Root) /\ chain # <<>> /\ x = chain[1]
      BY <2>3, <2>4, ZenonT(60) DEF PinInv, RootTypes, Shape
    <3>2. 1 \in 1 .. Len(chain)
      BY <3>1
    <3>3. Contains(chain, x)
      BY <3>1, <3>2, ZenonT(60) DEF Contains
    <3> QED BY <1>2, <2>1, <2>2, <3>3, ZenonT(60)
  <2>5. CASE wpc = "flip" /\ x = prev
    <3>1. Contains(chain, x)
      BY <2>3, <2>5, ZenonT(60) DEF PinInv, Shape
    <3> QED BY <1>2, <2>1, <2>2, <3>1, ZenonT(60)
  <2> QED BY <2>2, <2>4, <2>5, ZenonT(60) DEF Open
<1>6. CASE ~(old[r].tag > 0)
  <2>1. q[r] = Empty
    BY <1>3, <1>6
  <2>2. h[r] = Empty /\ asked[r] = 0
    BY <1>1, <2>1, ReaderFacts, ZenonT(60) DEF Local
  <2> QED BY <2>1, <2>2, ReaderFacts
<1> QED BY <1>5, <1>6, ZenonT(60)

-----------------------------------------------------------------------------
(* Nodes                                                                   *)

(* The current version is the newest on the list. *)
LEMMA Newest ==
  ASSUME PinInv
  PROVE  /\ rootPointer = Empty \/ Contains(chain, rootPointer)
         /\ \A x : Contains(chain, x) =>
              /\ x \in AnyRoot /\ x # Empty /\ x # NoRoot
              /\ Contains(chain, rootPointer)
              /\ sequence[x] <= sequence[rootPointer]
              /\ sequence[x] \in Nat /\ sequence[rootPointer] \in Nat
<1>1. /\ chain \in Seq(Root) /\ Len(chain) \in Nat
      /\ rootPointer = IF chain = <<>> THEN Empty ELSE chain[1]
      /\ sequence \in [AnyRoot -> Nat] /\ rootPointer \in AnyRoot
  BY DEF PinInv, RootTypes, Shape
<1>2. chain # <<>> => Contains(chain, rootPointer)
  <2>1. chain # <<>> => 1 \in 1 .. Len(chain)
    BY <1>1
  <2> QED BY <1>1, <2>1, ZenonT(60) DEF Contains
<1>3. \A x : Contains(chain, x) => x \in AnyRoot /\ x # Empty /\ x # NoRoot
  BY ChainRoots, RootsAssumption, ZenonT(60) DEF PinInv, AnyRoot
<1>4. ASSUME NEW x, Contains(chain, x)
      PROVE  Contains(chain, rootPointer) /\ sequence[x] <= sequence[rootPointer]
  <2>1. PICK i \in 1 .. Len(chain) : chain[i] = x
    BY <1>4, ZenonT(60) DEF Contains
  <2>2. 1 \in 1 .. Len(chain) /\ (i = 1 \/ 1 < i) /\ chain # <<>>
    BY <1>1, <2>1
  <2>3. 1 < i => sequence[chain[i]] < sequence[chain[1]]
    BY <2>1, <2>2, ZenonT(60) DEF PinInv, Ordered
  <2>4. sequence[x] \in Nat /\ sequence[rootPointer] \in Nat
    BY <1>1, <1>3, <1>4, ZenonT(60)
  <2> QED BY <1>1, <1>2, <2>1, <2>2, <2>3, <2>4
<1> QED BY <1>1, <1>2, <1>3, <1>4, ZenonT(60)

(* The writer's root pointer while its version is not published. *)
LEMMA OwnRoot ==
  ASSUME PinInv, Opened \/ wpc = "init"
  PROVE  /\ wroot \in Root /\ wroot \in AnyRoot /\ wroot # Empty /\ wroot # NoRoot
         /\ ~Contains(chain, wroot) /\ wroot # rootPointer
         /\ Opened => /\ prev = rootPointer /\ sequence[wroot] > 0 /\ sequence[wroot] \in Nat
                      /\ \A x : Contains(chain, x) => sequence[x] < sequence[wroot]
                      /\ sequence[rootPointer] <= sequence[wroot]
<1>1. /\ wroot \in Root /\ wroot \in AnyRoot /\ wroot # Empty /\ wroot # NoRoot
      /\ ~Contains(chain, wroot)
  BY RootsAssumption, ZenonT(60) DEF PinInv, Shape, RootTypes, Opened, AnyRoot
<1>2. wroot # rootPointer
  BY <1>1, Newest, ZenonT(60)
<1>3. ASSUME Opened
      PROVE  /\ prev = rootPointer /\ sequence[wroot] > 0 /\ sequence[wroot] \in Nat
             /\ sequence[wroot] = prootSeq
  BY <1>1, <1>3, ZenonT(60) DEF PinInv, Shape, Ordered, RootTypes
<1>4. ASSUME Opened, NEW x, Contains(chain, x)
      PROVE  sequence[x] < sequence[wroot]
  <2>1. x \in AnyRoot /\ sequence[x] \in Nat /\ x # wroot
    BY <1>1, <1>4, Newest, ZenonT(60)
  <2>2. sequence[x] <= prootSeq /\ (sequence[x] = sequence[wroot] => sequence[x] = 0)
    BY <1>1, <2>1, ZenonT(60) DEF PinInv, Ordered
  <2> QED BY <1>3, <1>4, <2>1, <2>2
<1>5. Opened => sequence[rootPointer] <= sequence[wroot]
  BY <1>3, ZenonT(60) DEF PinInv, Ordered, RootTypes
<1> QED BY <1>1, <1>2, <1>3, <1>4, <1>5, ZenonT(60)

(* The types of what a node step works on. *)
LEMMA NodeFacts ==
  ASSUME PinInv, NodeInv
  PROVE  /\ nodeList \in [AnyRoot -> SUBSET Node] /\ nodeSeq \in [Node -> Nat]
         /\ readOnly \subseteq Node /\ deleted \subseteq Node
         /\ Cur \subseteq Node /\ \A x \in AnyRoot : tree[x].nodes \subseteq Node
         /\ rootPointer \in AnyRoot /\ Empty \in AnyRoot
         /\ \A x \in AnyRoot : sequence[x] \in Nat /\ nodeList[x] \subseteq Node
         /\ \A n \in Node : nodeSeq[n] \in Nat
         /\ tree = [x \in AnyRoot |-> tree[x]]
BY ZenonT(60) DEF PinInv, NodeInv, NodeTypes, RootTypes, Cur, AnyRoot

(* The nodes of the current version are read-only. *)
LEMMA CurReadOnly ==
  ASSUME PinInv, NodeInv
  PROVE  \A n \in Cur : /\ n \in Node /\ n \in readOnly
                        /\ nodeSeq[n] \in 1 .. sequence[rootPointer]
                        /\ Contains(chain, rootPointer)
<1>1. CASE rootPointer = Empty
  BY <1>1, ZenonT(60) DEF NodeInv, Settled, Cur
<1>2. CASE Contains(chain, rootPointer)
  <2>1. Intact(rootPointer)
    BY <1>2, NodeFacts, ZenonT(60) DEF NodeInv, Readable, Open
  <2> QED BY <1>2, <2>1, NodeFacts, ZenonT(60) DEF Intact, Cur
<1> QED BY <1>1, <1>2, Newest, ZenonT(60)

(* A tree without versions has no nodes. *)
LEMMA InitNode == Init => NodeInv
<1> SUFFICES ASSUME Init PROVE NodeInv
  BY ZenonT(60)
<1>1. \A x : ~Contains(chain, x)
  BY EmptyList, ZenonT(60) DEF Init
<1>2. NodeTypes
  BY ZenonT(60) DEF Init, NodeTypes, NoTree
<1>3. Cur = {} /\ \A x \in AnyRoot : nodeList[x] = {} /\ tree[x].nodes = {}
  BY ZenonT(60) DEF Init, Cur, NoTree, AnyRoot
<1>4. \A n \in Node : nodeSeq[n] = 0
  BY ZenonT(60) DEF Init
<1>5. Allocated /\ Apart
  BY <1>3, <1>4, ZenonT(60) DEF Allocated, Apart
<1>6. Settled
  BY <1>3, ZenonT(60) DEF Settled, Init, AnyRoot
<1>7. Draft /\ Readable /\ Complete
  BY <1>1, ZenonT(60) DEF Draft, Readable, Complete, Opened, Init
<1> QED BY <1>2, <1>5, <1>6, <1>7, ZenonT(60) DEF NodeInv

(* A step that moves no node: the versions, their nodes and their owners   *)
(* stay, and no version that was closed to readers is opened to them.      *)
Resting ==
  /\ UNCHANGED <<rootPointer, sequence, chain, tree, nodeList, nodeSeq, readOnly, deleted>>
  /\ writes' \in Nat
  /\ Opened' <=> Opened
  /\ Opened => wroot' = wroot /\ prev' = prev /\ writes' = writes
  /\ wpc' # "init" \/ (wpc = "init" /\ wroot' = wroot)
  /\ \A x \in AnyRoot : Owner(x)' <=> Owner(x)
  /\ \A x \in AnyRoot : Contains(chain, x) /\ (Open(x)' \/ refCount'[x].cnt > 0) =>
       Open(x) \/ refCount[x].cnt > 0

LEMMA RestingInv ==
  ASSUME NodeInv, Resting
  PROVE  NodeInv'
<1>1. UNCHANGED <<rootPointer, sequence, chain, tree, nodeList, nodeSeq, readOnly, deleted>>
  BY ZenonT(60) DEF Resting
<1>2. Cur' = Cur
  BY <1>1, ZenonT(60) DEF Cur
<1>3. \A n, x : Kept(n, x)' <=> Kept(n, x)
  BY <1>1, <1>2, ZenonT(60) DEF Kept
<1>4. \A x : Intact(x)' <=> Intact(x)
  BY <1>1, <1>3, ZenonT(60) DEF Intact
<1>5. NodeTypes'
  BY <1>1, ZenonT(60) DEF NodeInv, NodeTypes, Resting
<1>6. Allocated'
  BY <1>1, <1>2, ZenonT(60) DEF NodeInv, Allocated, Resting
<1>7. Apart'
  BY <1>1, <1>2, ZenonT(60) DEF NodeInv, Apart, Resting
<1>8. Settled'
  BY <1>1, ZenonT(60) DEF NodeInv, Settled, Resting
<1>9. Draft'
  <2>1. CASE ~Opened
    BY <2>1, ZenonT(60) DEF Draft, Resting
  <2>2. CASE Opened
    <3>1. wroot' = wroot /\ prev' = prev /\ writes' = writes
      BY <2>2, ZenonT(60) DEF Resting
    <3>2. Draft
      BY ZenonT(60) DEF NodeInv
    <3> QED BY <1>1, <1>2, <2>2, <3>1, <3>2, ZenonT(60) DEF Draft
  <2> QED BY <2>1, <2>2, ZenonT(60)
<1>10. Readable'
  BY <1>1, <1>4, ZenonT(60) DEF NodeInv, Readable, Resting
<1>11. Complete'
  BY <1>1, <1>3, ZenonT(60) DEF NodeInv, Complete
<1> QED BY <1>5, <1>6, <1>7, <1>8, <1>9, <1>10, <1>11, ZenonT(60) DEF NodeInv

(* Counting and letting go do not open a version to readers: refcas only   *)
(* counts on a version of the list that is open.                           *)
LEMMA ReaderNode ==
  ASSUME PinInv, NodeInv, NEW r \in Reader, get_read_handle(r) \/ ClearHandle(r)
  PROVE  NodeInv'
<1>1. UNCHANGED <<rootPointer, sequence, chain, tree, nodeList, allocVars, writerVars>>
  <2>1. ASSUME ReaderUnchanged
        PROVE  UNCHANGED <<rootPointer, sequence, chain, tree, nodeList, allocVars, writerVars>>
    BY <2>1, ZenonT(60) DEF ReaderUnchanged, rootVars
  <2>2. CASE refcas(r) \/ ClearHandle(r)
    BY <2>2, ZenonT(60) DEF refcas, ClearHandle
  <2> QED BY <2>1, <2>2, ZenonT(60)
             DEF get_read_handle, LoadForCount, ReadCount, LoadHandle,
             LoadForTag, CompareTag, CompareRoot, LoadTarget
<1>2. refCount \in [AnyRoot -> Counter]
  BY ZenonT(60) DEF PinInv, RootTypes
<1>3. ASSUME NEW x \in AnyRoot, Contains(chain, x), refCount'[x].cnt > 0
      PROVE  Open(x) \/ refCount[x].cnt > 0
  <2>1. CASE ReaderUnchanged
    BY <1>3, <2>1, ZenonT(60) DEF ReaderUnchanged, rootVars
  <2>2. CASE refcas(r)
    <3>1. refCount' = refCount \/ (refCount[q[r]] = old[r]
                                   /\ refCount' = [refCount EXCEPT ![q[r]].cnt = @ + 1])
      BY <2>2, ZenonT(60) DEF refcas
    <3>2. CASE refCount' = refCount
      BY <1>3, <3>2, ZenonT(60)
    <3>3. CASE /\ refCount[q[r]] = old[r]
               /\ refCount' = [refCount EXCEPT ![q[r]].cnt = @ + 1]
      <4>1. CASE x # q[r]
        BY <1>2, <1>3, <3>3, <4>1, ZenonT(60)
      <4>2. CASE x = q[r]
        <5>1. old[r].tag # 0
          <6>1. sequence[x] > 0 /\ sequence[x] \in Nat
            BY <1>3, Newest, ZenonT(60) DEF PinInv, Ordered
          <6>2. refCount[x].tag >= 0 => refCount[x].tag = sequence[x]
            BY ZenonT(60) DEF PinInv, Tags
          <6> QED BY <3>3, <4>2, <6>1, <6>2
        <5>2. pc[r] = "cas" /\ q[r] # Empty
          BY <1>3, <2>2, <4>2, Newest, ZenonT(60) DEF refcas
        <5> QED BY <3>3, <4>2, <5>1, <5>2, PinTarget, ZenonT(60)
      <4> QED BY <4>1, <4>2, ZenonT(60)
    <3> QED BY <3>1, <3>2, <3>3, ZenonT(60)
  <2>3. CASE ClearHandle(r)
    <3>1. refCount' = [refCount EXCEPT ![h[r]].cnt = @ - 1]
      BY <2>3, ZenonT(60) DEF ClearHandle
    <3>2. refCount'[x].cnt <= refCount[x].cnt /\ refCount[x].cnt \in Int
      BY <1>2, <3>1 DEF Counter
    <3> QED BY <1>2, <1>3, <3>1, <3>2 DEF Counter
  <2> QED BY <2>1, <2>2, <2>3, ZenonT(60)
             DEF get_read_handle, LoadForCount, ReadCount,
             LoadHandle, LoadForTag, CompareTag, CompareRoot, LoadTarget
<1>4. UNCHANGED <<nodeSeq, readOnly, deleted, wpc, wroot, prev, writes>>
  BY <1>1, ZenonT(60) DEF allocVars, writerVars
<1>5. \A x : (Open(x)' <=> Open(x)) /\ (Owner(x)' <=> Owner(x))
  BY <1>1, <1>4, ZenonT(60) DEF Open, Owner
<1>6. Opened' <=> Opened
  BY <1>4, ZenonT(60) DEF Opened
<1>7. writes' \in Nat
  BY <1>4, ZenonT(60) DEF NodeInv, NodeTypes
<1>8. wpc' # "init" \/ (wpc = "init" /\ wroot' = wroot)
  BY <1>4, ZenonT(60)
<1>9. Resting
  BY <1>1, <1>3, <1>4, <1>5, <1>6, <1>7, <1>8, ZenonT(60) DEF Resting
<1> QED BY <1>9, RestingInv, ZenonT(60)

(* Closing the old version to readers, the end of the loop, and marking    *)
(* the handle as failed move no node.                                      *)
LEMMA WriterRests ==
  ASSUME PinInv, NodeInv, flip \/ finish \/ rollback \/ UNCHANGED vars
  PROVE  NodeInv'
<1>1. UNCHANGED <<rootPointer, sequence, chain, tree, nodeList, nodeSeq, readOnly, deleted>>
  BY ZenonT(60) DEF flip, finish, rollback, vars, rootVars, allocVars
<1>2. refCount \in [AnyRoot -> Counter] /\ prev \in AnyRoot \cup {NoRoot}
  BY ZenonT(60) DEF PinInv, RootTypes
<1>3. \A x \in AnyRoot : refCount'[x].cnt = refCount[x].cnt
  <2>1. CASE flip
    <3>1. refCount' = [refCount EXCEPT ![prev].tag = -@ - 1]
      BY <2>1, ZenonT(60) DEF flip
    <3> QED BY <1>2, <3>1, ZenonT(60) DEF Counter
  <2>2. CASE finish \/ rollback \/ UNCHANGED vars
    BY <2>2, ZenonT(60) DEF finish, rollback, vars, rootVars
  <2> QED BY <2>1, <2>2, ZenonT(60)
<1>4. writes \in Nat
  BY ZenonT(60) DEF NodeInv, NodeTypes
<1>5. CASE flip
  <2>1. /\ wpc = "flip" /\ wpc' = "recycle" /\ wroot' = wroot /\ writes' = writes
    BY <1>5, ZenonT(60) DEF flip
  <2>2. ~Opened /\ ~Opened' /\ wpc' # "init" /\ wpc' # "flip"
    BY <2>1, ZenonT(60) DEF Opened
  <2>3. \A x : (Open(x)' => Open(x)) /\ (Owner(x)' <=> Owner(x))
    BY <1>1, <2>1, <2>2, ZenonT(60) DEF Open, Owner
  <2>4. Resting
    BY <1>1, <1>3, <1>4, <2>1, <2>2, <2>3, ZenonT(60) DEF Resting
  <2> QED BY <2>4, RestingInv, ZenonT(60)
<1>6. CASE finish
  <2>1. /\ wpc = "recycle" /\ wpc' = "none" /\ wroot' = NoRoot /\ writes' = 0
    BY <1>6, ZenonT(60) DEF finish, CloseHandle
  <2>2. ~Opened /\ ~Opened' /\ wpc' # "init" /\ wpc' # "flip" /\ writes' \in Nat
    BY <2>1, ZenonT(60) DEF Opened
  <2>3. wroot = rootPointer
    BY <2>1, ZenonT(60) DEF PinInv, Shape
  <2>4. \A x : (Open(x)' => Open(x)) /\ (Owner(x)' <=> Owner(x))
    BY <1>1, <2>1, <2>2, <2>3, Newest, ZenonT(60) DEF Open, Owner
  <2>5. Resting
    BY <1>1, <1>3, <2>2, <2>4, ZenonT(60) DEF Resting
  <2> QED BY <2>5, RestingInv, ZenonT(60)
<1>7. CASE rollback \/ UNCHANGED vars
  <2>1. UNCHANGED <<wpc, wroot, prev, writes>>
    BY <1>7, ZenonT(60) DEF rollback, vars, writerVars
  <2>2. Opened' <=> Opened
    BY <2>1, ZenonT(60) DEF Opened
  <2>3. \A x : (Open(x)' <=> Open(x)) /\ (Owner(x)' <=> Owner(x))
    BY <1>1, <2>1, ZenonT(60) DEF Open, Owner
  <2>4. wpc' # "init" \/ (wpc = "init" /\ wroot' = wroot)
    BY <2>1, ZenonT(60)
  <2>5. Resting
    BY <1>1, <1>3, <1>4, <2>1, <2>2, <2>3, <2>4, ZenonT(60) DEF Resting
  <2> QED BY <2>5, RestingInv, ZenonT(60)
<1> QED BY <1>5, <1>6, <1>7, ZenonT(60)

(* What both halves of get_write_handle do: they work on a root pointer w  *)
(* that is on no list, and nothing waits on it.                            *)
LEMMA Prepared ==
  ASSUME PinInv, NodeInv, ~Opened, NEW w \in Root, ~Contains(chain, w),
         UNCHANGED <<rootPointer, chain, nodeSeq, readOnly, deleted>>,
         \A x \in AnyRoot \ {w} : /\ sequence'[x] = sequence[x] /\ tree'[x] = tree[x]
                                  /\ nodeList'[x] = nodeList[x] /\ refCount'[x] = refCount[x],
         nodeList'[w] = {}, wroot' = w,
         wroot = NoRoot \/ (wroot = w /\ nodeList[w] = {}), wpc # "flip", wpc' # "flip",
         NodeTypes'
  PROVE  /\ Cur' = Cur /\ Allocated' /\ Apart' /\ Readable' /\ Complete'
         /\ tree'[Empty].nodes = {} /\ nodeList'[Empty] = {} /\ \A n \in readOnly' : nodeSeq'[n] # 0
         /\ nodeList'[rootPointer'] = {} /\ deleted' = {}
<1>1. /\ w \in AnyRoot /\ w # Empty /\ w # NoRoot /\ w # rootPointer
      /\ rootPointer \in AnyRoot /\ Empty \in AnyRoot
  BY Newest, NodeFacts, RootsAssumption, ZenonT(60) DEF AnyRoot
<1>2. Cur' = Cur
  BY <1>1, ZenonT(60) DEF Cur
<1>3. \A x \in AnyRoot : Owner(x)' <=> Owner(x) \/ x = w
  BY <1>1, ZenonT(60) DEF Owner
<1>4. \A x \in AnyRoot : Owner(x)' /\ nodeList'[x] # {} =>
        x # w /\ Owner(x) /\ nodeList'[x] = nodeList[x]
  BY <1>3, ZenonT(60)
<1>5. \A x \in AnyRoot : Owner(x) /\ nodeList[x] # {} => Owner(x)' /\ nodeList'[x] = nodeList[x]
  BY <1>1, <1>3, ZenonT(60) DEF Owner
<1>6. NodeInv
  BY ZenonT(60)
<1>7. Allocated'
  <2>1. \A n \in Node : (\E x \in AnyRoot : Owner(x)' /\ n \in nodeList'[x]) <=>
                        (\E x \in AnyRoot : Owner(x) /\ n \in nodeList[x])
    BY <1>4, <1>5, ZenonT(60)
  <2> QED BY <1>2, <1>6, <2>1, ZenonT(60) DEF NodeInv, Allocated
<1>8. Apart'
  <2>1. ASSUME NEW x \in AnyRoot, NEW y \in AnyRoot, NEW n \in Node,
               Owner(x)', Owner(y)', n \in nodeList'[x], n \in nodeList'[y]
        PROVE  x = y
    <3>1. Owner(x) /\ Owner(y) /\ n \in nodeList[x] /\ n \in nodeList[y]
      BY <1>4, <2>1, ZenonT(60)
    <3> QED BY <1>6, <3>1, ZenonT(60) DEF NodeInv, Apart
  <2>2. ASSUME NEW x \in AnyRoot, NEW n \in Node, Owner(x)', n \in Cur, n \in nodeList'[x]
        PROVE  x = rootPointer
    <3>1. Owner(x) /\ n \in nodeList[x]
      BY <1>4, <2>2, ZenonT(60)
    <3> QED BY <1>6, <2>2, <3>1, ZenonT(60) DEF NodeInv, Apart
  <2> QED BY <1>2, <2>1, <2>2, ZenonT(60) DEF Apart
<1>9. \A x \in AnyRoot : Contains(chain, x) =>
        /\ sequence'[x] = sequence[x] /\ tree'[x] = tree[x] /\ nodeList'[x] = nodeList[x]
        /\ refCount'[x] = refCount[x]
  BY ZenonT(60)
<1>10. \A n : \A x \in AnyRoot : Contains(chain, x) => (Kept(n, x)' <=> Kept(n, x))
  BY <1>2, <1>9, ZenonT(60) DEF Kept
<1>11. \A x \in AnyRoot : Contains(chain, x) => (Intact(x)' <=> Intact(x))
  BY <1>9, <1>10, ZenonT(60) DEF Intact
<1>12. \A x : Open(x)' <=> Open(x)
  BY ZenonT(60) DEF Open
<1>13. Readable'
  BY <1>6, <1>9, <1>11, <1>12, ZenonT(60) DEF NodeInv, Readable
<1>14. Complete'
  BY <1>6, <1>9, <1>10, ZenonT(60) DEF NodeInv, Complete
<1>15. /\ tree'[Empty].nodes = {} /\ nodeList'[Empty] = {} /\ \A n \in readOnly' : nodeSeq'[n] # 0
       /\ nodeList'[rootPointer'] = {} /\ deleted' = {}
  BY <1>1, <1>6, ZenonT(60) DEF NodeInv, Settled
<1> QED BY <1>2, <1>7, <1>8, <1>13, <1>14, <1>15, ZenonT(60)

(* get_write_handle takes a root pointer on which nothing waits. *)
LEMMA TakeNode ==
  ASSUME PinInv, NodeInv, get_write_handle
  PROVE  NodeInv'
<1>1. PICK w \in Root :
           /\ wroot' = w /\ ~Contains(chain, w)
           /\ \/ sequence' = sequence /\ refCount' = refCount /\ tree' = tree
              \/ /\ sequence' = [sequence EXCEPT ![w] = 0]
                 /\ refCount' = [refCount EXCEPT ![w] = Tagged(0, 0)]
                 /\ tree' = [tree EXCEPT ![w] = NoTree]
           /\ nodeList' = [nodeList EXCEPT ![w] = {}]
  BY TakenRoot, ZenonT(60)
<1>2. /\ wpc = "none" /\ wpc' = "init"
      /\ UNCHANGED <<rootPointer, chain, nodeSeq, readOnly, deleted, writes>>
  BY ZenonT(60) DEF get_write_handle
<1>3. wroot = NoRoot
  BY <1>2, ZenonT(60) DEF PinInv, Shape
<1>4. /\ sequence \in [AnyRoot -> Nat] /\ refCount \in [AnyRoot -> Counter]
      /\ nodeList \in [AnyRoot -> SUBSET Node] /\ tree = [x \in AnyRoot |-> tree[x]]
      /\ w \in AnyRoot
  BY NodeFacts, ZenonT(60) DEF PinInv, RootTypes, AnyRoot
<1>5. \A x \in AnyRoot \ {w} : /\ sequence'[x] = sequence[x] /\ tree'[x] = tree[x]
                               /\ nodeList'[x] = nodeList[x] /\ refCount'[x] = refCount[x]
  BY <1>1, <1>4, ZenonT(60)
<1>6. nodeList'[w] = {} /\ nodeList' \in [AnyRoot -> SUBSET Node]
  BY <1>1, <1>4, ZenonT(60)
<1>7. NodeTypes'
  <2>1. CASE tree' = tree
    BY <1>2, <1>6, <2>1, ZenonT(60) DEF NodeInv, NodeTypes
  <2>2. CASE tree' = [tree EXCEPT ![w] = NoTree]
    <3>1. tree' = [x \in AnyRoot |-> tree'[x]] /\ tree'[w] = NoTree
      BY <1>4, <2>2, ZenonT(60)
    <3>2. \A x \in AnyRoot : tree'[x].nodes \in SUBSET Node
      BY <1>5, <3>1, NodeFacts DEF NoTree
    <3> QED BY <1>2, <1>6, <3>1, <3>2, ZenonT(60) DEF NodeInv, NodeTypes
  <2> QED BY <1>1, <2>1, <2>2, ZenonT(60)
<1>8. ~Opened /\ ~Opened' /\ wpc # "flip" /\ wpc' # "flip"
  BY <1>2, ZenonT(60) DEF Opened
<1>9. /\ Allocated' /\ Apart' /\ Readable' /\ Complete'
      /\ tree'[Empty].nodes = {} /\ nodeList'[Empty] = {} /\ \A n \in readOnly' : nodeSeq'[n] # 0
      /\ nodeList'[rootPointer'] = {} /\ deleted' = {}
  BY <1>1, <1>2, <1>3, <1>5, <1>6, <1>7, <1>8, Prepared, ZenonT(60)
<1>10. Settled' /\ Draft'
  BY <1>1, <1>6, <1>8, <1>9, ZenonT(60) DEF Settled, Draft
<1> QED BY <1>7, <1>9, <1>10, ZenonT(60) DEF NodeInv

(* The new version starts with the nodes of the current one. *)
LEMMA InitRootNode ==
  ASSUME PinInv, NodeInv, InitRoot
  PROVE  NodeInv'
<1>1. /\ wpc = "init" /\ wpc' = "open" /\ prev' = rootPointer /\ writes' = 0
      /\ sequence' = [sequence EXCEPT ![wroot] = prootSeq + 1]
      /\ refCount' = [refCount EXCEPT ![wroot] = Tagged(prootSeq + 1, 0)]
      /\ tree' = [tree EXCEPT ![wroot] = tree[rootPointer]]
      /\ UNCHANGED <<rootPointer, nodeList, chain, nodeSeq, readOnly, deleted, wroot>>
  BY ZenonT(60) DEF InitRoot
<1>2. PICK w \in Root : w = wroot /\ ~Contains(chain, w) /\ w \in AnyRoot
  BY <1>1, OwnRoot, ZenonT(60)
<1>3. /\ sequence \in [AnyRoot -> Nat] /\ refCount \in [AnyRoot -> Counter]
      /\ tree = [x \in AnyRoot |-> tree[x]] /\ rootPointer \in AnyRoot
  BY NodeFacts, ZenonT(60) DEF PinInv, RootTypes
<1>4. \A x \in AnyRoot \ {w} : /\ sequence'[x] = sequence[x] /\ tree'[x] = tree[x]
                               /\ nodeList'[x] = nodeList[x] /\ refCount'[x] = refCount[x]
  BY <1>1, <1>2, <1>3, ZenonT(60)
<1>5. tree' = [x \in AnyRoot |-> tree'[x]] /\ tree'[w] = tree[rootPointer]
  BY <1>1, <1>2, <1>3, ZenonT(60)
<1>6. NodeTypes'
  <2>1. \A x \in AnyRoot : tree'[x].nodes \in SUBSET Node
    BY <1>4, <1>5, NodeFacts, ZenonT(60)
  <2> QED BY <1>1, <1>5, <2>1, ZenonT(60) DEF NodeInv, NodeTypes
<1>7. ~Opened /\ Opened' /\ wpc # "flip" /\ wpc' # "flip" /\ wpc' # "init"
  BY <1>1, ZenonT(60) DEF Opened
<1>8. nodeList[w] = {}
  BY <1>1, <1>2, ZenonT(60) DEF NodeInv, Settled
<1>9. /\ Cur' = Cur /\ Allocated' /\ Apart' /\ Readable' /\ Complete'
      /\ tree'[Empty].nodes = {} /\ nodeList'[Empty] = {} /\ \A n \in readOnly' : nodeSeq'[n] # 0
      /\ nodeList'[rootPointer'] = {} /\ deleted' = {}
  BY <1>1, <1>2, <1>4, <1>6, <1>7, <1>8, Prepared, ZenonT(60)
<1>10. Settled'
  BY <1>7, <1>9, ZenonT(60) DEF Settled
<1>11. Draft'
  <2>1. nodeList'[prev'] = {} /\ nodeList'[wroot'] = {} /\ deleted' = {}
    BY <1>1, <1>2, <1>8, <1>9, ZenonT(60)
  <2>2. tree'[wroot'].nodes = Cur
    BY <1>1, <1>2, <1>5, ZenonT(60) DEF Cur
  <2> QED BY <1>9, <2>1, <2>2, ZenonT(60) DEF Draft
<1> QED BY <1>6, <1>9, <1>10, <1>11, ZenonT(60) DEF NodeInv

(* A write through the open handle: the nodes c of the current version are *)
(* replaced or dropped, the nodes f are new, and of the handle's own nodes *)
(* g are dropped.                                                          *)
Edit(c, f, g) ==
  /\ c \subseteq Cur /\ f \subseteq Unallocated /\ g \subseteq nodeList[wroot] \cup f
  /\ UNCHANGED <<rootPointer, sequence, refCount, chain, readOnly, wroot, prev>>
  /\ \A x \in AnyRoot \ {wroot} : tree'[x] = tree[x]
  /\ \A x \in AnyRoot \ {wroot, prev} : nodeList'[x] = nodeList[x]
  /\ nodeList'[wroot] = nodeList[wroot] \cup f
  /\ nodeList'[prev] = nodeList[prev] \cup c
  /\ tree'[wroot].nodes = (Cur \ (nodeList[prev] \cup c))
                          \cup ((nodeList[wroot] \cup f) \ (deleted \cup g))
  /\ \A n \in Node : nodeSeq'[n] = IF n \in f THEN sequence[wroot] ELSE nodeSeq[n]
  /\ deleted' = deleted \cup g
  /\ writes' = 0 => nodeList'[wroot] = {}

LEMMA EditInv ==
  ASSUME PinInv, NodeInv, Opened, Opened', NodeTypes', NEW c, NEW f, NEW g, Edit(c, f, g)
  PROVE  NodeInv'
<1>1. UNCHANGED <<rootPointer, sequence, refCount, chain, readOnly, wroot, prev>>
  BY ZenonT(60) DEF Edit
<1>2. PICK w \in AnyRoot : w = wroot
  BY OwnRoot, ZenonT(60)
<1>3. /\ w \in AnyRoot /\ w # Empty /\ w # NoRoot /\ ~Contains(chain, w) /\ w # rootPointer
      /\ prev = rootPointer /\ rootPointer \in AnyRoot
      /\ sequence[w] > 0 /\ sequence[w] \in Nat
  BY <1>2, OwnRoot, NodeFacts, ZenonT(60)
<1>4. Cur' = Cur
  BY <1>1, <1>2, <1>3, ZenonT(60) DEF Cur, Edit
<1>5. \A x : (Owner(x)' <=> Owner(x)) /\ (Open(x)' <=> Open(x))
  <2>1. wpc # "flip" /\ wpc' # "flip"
    BY ZenonT(60) DEF Opened
  <2> QED BY <1>1, <2>1, ZenonT(60) DEF Owner, Open
<1>6. Owner(w) /\ Owner(rootPointer)
  BY <1>2, <1>3, Newest, ZenonT(60) DEF Owner
<1>7. \A n \in f : n \in Node /\ nodeSeq[n] = 0
  BY ZenonT(60) DEF Edit, Unallocated
<1>8. \A n \in Node : n \notin f => nodeSeq'[n] = nodeSeq[n]
  BY ZenonT(60) DEF Edit
<1>9. \A n \in f : nodeSeq'[n] = sequence[w]
  BY <1>2, <1>7, ZenonT(60) DEF Edit
<1>10. /\ \A n \in Cur : n \in Node /\ nodeSeq[n] # 0
       /\ \A x \in AnyRoot : \A n \in nodeList[x] : Owner(x) => n \in Node /\ nodeSeq[n] # 0
       /\ \A n \in readOnly : n \in Node /\ nodeSeq[n] # 0
  BY NodeFacts, ZenonT(60) DEF NodeInv, Allocated, Settled
<1>11. /\ \A n \in Cur : n \notin f
       /\ \A x \in AnyRoot : \A n \in nodeList[x] : Owner(x) => n \notin f
       /\ \A n \in readOnly : n \notin f
  BY <1>7, <1>10, ZenonT(60)
<1>12. \A x \in AnyRoot : \A n : n \in nodeList'[x] =>
         \/ n \in nodeList[x]
         \/ x = w /\ n \in f
         \/ x = rootPointer /\ n \in Cur
  BY <1>2, <1>3, ZenonT(60) DEF Edit
<1>13. \A x \in AnyRoot : nodeList[x] \subseteq nodeList'[x]
  BY <1>2, <1>3, ZenonT(60) DEF Edit
<1>14. Allocated'
  <2>1. ASSUME NEW n \in Node, n \in f
        PROVE  nodeSeq'[n] # 0 /\ n \in nodeList'[w]
    BY <1>2, <1>3, <1>9, <2>1 DEF Edit
  <2>2. ASSUME NEW n \in Node, n \notin f
        PROVE  (\E x \in AnyRoot : Owner(x) /\ n \in nodeList'[x]) \/ n \in Cur <=>
               (\E x \in AnyRoot : Owner(x) /\ n \in nodeList[x]) \/ n \in Cur
    BY <1>12, <1>13, <2>2, ZenonT(60)
  <2>3. ASSUME NEW n \in Node
        PROVE  nodeSeq'[n] # 0 <=> n \in Cur \/ \E x \in AnyRoot : Owner(x) /\ n \in nodeList'[x]
    BY <1>3, <1>6, <1>8, <2>1, <2>2, ZenonT(60) DEF NodeInv, Allocated
  <2> QED BY <1>4, <1>5, <2>3, ZenonT(60) DEF Allocated
<1>15. Apart'
  <2>1. ASSUME NEW x \in AnyRoot, NEW n \in Node, Owner(x), n \in Cur, n \in nodeList'[x]
        PROVE  x = rootPointer
    <3>1. n \in nodeList[x] \/ x = rootPointer
      BY <1>11, <1>12, <2>1, ZenonT(60)
    <3> QED BY <2>1, <3>1, ZenonT(60) DEF NodeInv, Apart
  <2>2. ASSUME NEW x \in AnyRoot, NEW y \in AnyRoot, NEW n \in Node,
               Owner(x), Owner(y), n \in nodeList'[x], n \in nodeList'[y]
        PROVE  x = y
    <3>1. CASE n \in f
      <4>1. x = w /\ y = w
        BY <1>11, <1>12, <2>2, <3>1, ZenonT(60)
      <4> QED BY <4>1, ZenonT(60)
    <3>2. CASE n \in Cur
      BY <2>1, <2>2, <3>2, ZenonT(60)
    <3>3. CASE n \notin f /\ n \notin Cur
      <4>1. n \in nodeList[x] /\ n \in nodeList[y]
        BY <1>12, <2>2, <3>3, ZenonT(60)
      <4> QED BY <2>2, <4>1, ZenonT(60) DEF NodeInv, Apart
    <3> QED BY <3>1, <3>2, <3>3, ZenonT(60)
  <2> QED BY <1>1, <1>4, <1>5, <2>1, <2>2, ZenonT(60) DEF Apart
<1>16. Settled'
  <2>1. tree'[Empty].nodes = {} /\ Empty \in AnyRoot
    BY <1>2, <1>3, NodeFacts, ZenonT(60) DEF Edit, NodeInv, Settled
  <2>2. nodeList'[Empty] = {}
    <3>1. rootPointer = Empty => Cur = {}
      BY ZenonT(60) DEF Cur, NodeInv, Settled
    <3>2. nodeList[Empty] = {}
      BY ZenonT(60) DEF NodeInv, Settled
    <3> QED BY <1>3, <1>12, <2>1, <3>1, <3>2, ZenonT(60)
  <2>3. \A n \in readOnly : nodeSeq'[n] # 0
    BY <1>8, <1>10, <1>11, ZenonT(60)
  <2>4. wpc' # "init"
    BY ZenonT(60) DEF Opened
  <2> QED BY <1>1, <2>1, <2>2, <2>3, <2>4, ZenonT(60) DEF Settled
<1>17. Draft'
  <2>1. Draft
    BY ZenonT(60) DEF NodeInv
  <2>2. nodeList'[prev] \subseteq Cur
    BY <2>1, ZenonT(60) DEF Edit, Draft
  <2>3. \A n \in nodeList'[wroot] : n \notin readOnly /\ nodeSeq'[n] = sequence[wroot]
    <3>1. \A n \in nodeList[wroot] : n \notin readOnly /\ nodeSeq[n] = sequence[wroot] /\ n \in Node
      BY <1>2, <1>6, <1>10, <2>1, ZenonT(60) DEF Draft
    <3> QED BY <1>2, <1>8, <1>9, <1>11, <3>1, ZenonT(60) DEF Edit
  <2>4. deleted' \subseteq nodeList'[wroot]
    BY <2>1, ZenonT(60) DEF Edit, Draft
  <2>5. tree'[wroot].nodes = (Cur \ nodeList'[prev]) \cup (nodeList'[wroot] \ deleted')
    BY ZenonT(60) DEF Edit
  <2>6. writes' = 0 => nodeList'[wroot] = {}
    BY ZenonT(60) DEF Edit
  <2> QED BY <1>1, <1>4, <2>2, <2>3, <2>4, <2>5, <2>6, ZenonT(60) DEF Draft
<1>18. \A x \in AnyRoot : Contains(chain, x) => tree'[x] = tree[x]
  BY <1>2, <1>3, ZenonT(60) DEF Edit
<1>19. \A n : \A x \in AnyRoot : Kept(n, x)' <=> Kept(n, x)
  <2>1. ASSUME NEW n, NEW x \in AnyRoot, NEW y \in AnyRoot, Contains(chain, y)
        PROVE  n \in nodeList'[y] \/ n \in Cur <=> n \in nodeList[y] \/ n \in Cur
    BY <1>3, <1>12, <1>13, <2>1, ZenonT(60)
  <2> QED BY <1>1, <1>4, <2>1, ZenonT(60) DEF Kept
<1>20. Readable'
  <2>1. ASSUME NEW x \in AnyRoot, Contains(chain, x), Intact(x)
        PROVE  Intact(x)'
    <3>1. \A n \in tree[x].nodes : n \in readOnly /\ nodeSeq'[n] = nodeSeq[n]
      BY <1>8, <1>10, <1>11, <2>1, ZenonT(60) DEF Intact
    <3> QED BY <1>1, <1>18, <1>19, <2>1, <3>1, ZenonT(60) DEF Intact
  <2> QED BY <1>1, <1>5, <2>1, ZenonT(60) DEF NodeInv, Readable
<1>21. Complete'
  <2>1. ASSUME NEW x \in AnyRoot, NEW n \in Node, Contains(chain, x), Kept(n, x)
        PROVE  nodeSeq'[n] = nodeSeq[n]
    <3>1. n \notin f
      BY <1>11, <2>1, ZenonT(60) DEF Kept, Owner
    <3> QED BY <1>8, <3>1, ZenonT(60)
  <2> QED BY <1>1, <1>18, <1>19, <2>1, ZenonT(60) DEF NodeInv, Complete
<1> QED BY <1>14, <1>15, <1>16, <1>17, <1>20, <1>21, ZenonT(60) DEF NodeInv

(* The open handle: its own nodes, those of the current version and those  *)
(* not allocated are different nodes, and the read-only ones are those of  *)
(* the current version.                                                    *)
LEMMA DraftFacts ==
  ASSUME PinInv, NodeInv, Opened
  PROVE  /\ wroot \in AnyRoot /\ prev \in AnyRoot /\ wroot # prev
         /\ nodeList[wroot] \subseteq Node /\ nodeList[prev] \subseteq Node
         /\ deleted \subseteq nodeList[wroot]
         /\ tree[wroot].nodes = (Cur \ nodeList[prev]) \cup (nodeList[wroot] \ deleted)
         /\ \A n \in Cur : n \in readOnly
         /\ \A n \in nodeList[wroot] : n \notin readOnly /\ n \notin Unallocated
         /\ \A n \in Unallocated : n \in Node /\ n \notin readOnly /\ n \notin Cur
<1>1. /\ wroot \in AnyRoot /\ prev \in AnyRoot /\ wroot # prev /\ wroot # NoRoot
      /\ nodeList[wroot] \subseteq Node /\ nodeList[prev] \subseteq Node
  BY OwnRoot, NodeFacts, ZenonT(60)
<1>2. Owner(wroot)
  BY <1>1, ZenonT(60) DEF Owner
<1>3. \A n \in nodeList[wroot] : nodeSeq[n] # 0
  BY <1>1, <1>2, ZenonT(60) DEF NodeInv, Allocated
<1>4. \A n \in readOnly : nodeSeq[n] # 0
  BY ZenonT(60) DEF NodeInv, Settled
<1>5. /\ deleted \subseteq nodeList[wroot]
      /\ tree[wroot].nodes = (Cur \ nodeList[prev]) \cup (nodeList[wroot] \ deleted)
      /\ \A n \in nodeList[wroot] : n \notin readOnly
  BY ZenonT(60) DEF NodeInv, Draft
<1>6. \A n \in Cur : n \in readOnly
  BY CurReadOnly, ZenonT(60)
<1> QED BY <1>1, <1>3, <1>4, <1>5, <1>6, ZenonT(60) DEF Unallocated

(* What copying a path does. *)
LEMMA CopyFacts ==
  ASSUME NEW path, NEW k, NEW grown
  PROVE  /\ CopyOnWrite(path, k, grown).copied = path \cap readOnly
         /\ CopyOnWrite(path, k, grown).fresh \subseteq Unallocated
         /\ CopyOnWrite(path, k, grown).nodes =
              (tree[wroot].nodes \ (path \cap readOnly))
              \cup CopyOnWrite(path, k, grown).fresh
<1>1. \A m : Fresh(m) \subseteq Unallocated
  BY ZenonT(60) DEF Fresh
<1> QED BY <1>1, ZenonT(60) DEF CopyOnWrite

(* A write to the open handle keeps the types. *)
LEMMA EditTypes ==
  ASSUME PinInv, NodeInv, Opened, NEW c, NEW f, c \subseteq Node, f \subseteq Node,
         nodeList' = [nodeList EXCEPT ![wroot] = @ \cup f, ![prev] = @ \cup c],
         NEW t, tree' = [tree EXCEPT ![wroot] = t], t.nodes \subseteq Node,
         nodeSeq' = [n \in Node |-> IF n \in f THEN sequence[wroot] ELSE nodeSeq[n]],
         deleted' \subseteq Node, readOnly' = readOnly, writes' \in Nat
  PROVE  /\ NodeTypes'
         /\ \A x \in AnyRoot \ {wroot} : tree'[x] = tree[x]
         /\ tree'[wroot] = t
         /\ \A x \in AnyRoot \ {wroot, prev} : nodeList'[x] = nodeList[x]
         /\ nodeList'[wroot] = nodeList[wroot] \cup f
         /\ nodeList'[prev] = nodeList[prev] \cup c
         /\ \A n \in Node : nodeSeq'[n] = IF n \in f THEN sequence[wroot] ELSE nodeSeq[n]
<1>1. /\ wroot \in AnyRoot /\ prev \in AnyRoot /\ wroot # prev
      /\ nodeList \in [AnyRoot -> SUBSET Node] /\ tree = [x \in AnyRoot |-> tree[x]]
      /\ nodeSeq \in [Node -> Nat] /\ sequence[wroot] \in Nat
  BY DraftFacts, NodeFacts, ZenonT(60)
<1>2. /\ nodeList' \in [AnyRoot -> SUBSET Node]
      /\ \A x \in AnyRoot \ {wroot, prev} : nodeList'[x] = nodeList[x]
      /\ nodeList'[wroot] = nodeList[wroot] \cup f
      /\ nodeList'[prev] = nodeList[prev] \cup c
  BY <1>1, ZenonT(60)
<1>3. /\ tree' = [x \in AnyRoot |-> tree'[x]] /\ tree'[wroot] = t
      /\ \A x \in AnyRoot \ {wroot} : tree'[x] = tree[x]
  BY <1>1, ZenonT(60)
<1>4. \A x \in AnyRoot : tree'[x].nodes \in SUBSET Node
  BY <1>3, NodeFacts, ZenonT(60)
<1>5. nodeSeq' \in [Node -> Nat]
  BY <1>1, ZenonT(60)
<1>6. readOnly \in SUBSET Node
  BY NodeFacts, ZenonT(60)
<1>7. NodeTypes'
  BY <1>2, <1>3, <1>4, <1>5, <1>6, ZenonT(60) DEF NodeTypes
<1> QED BY <1>1, <1>2, <1>3, <1>7, ZenonT(60)

(* put_pair. *)
LEMMA put_pairNode ==
  ASSUME PinInv, NodeInv, wpc = "open", NEW path \in Paths \cup {{}}, NEW k,
         NEW grown, put_pair(path, k, grown)
  PROVE  NodeInv'
<1>1. PICK f : f = CopyOnWrite(path, k, grown).fresh
  BY ZenonT(60)
<1>2. PICK c : c = path \cap readOnly
  BY ZenonT(60)
<1>3. PICK t : t = [top |-> CopyOnWrite(path, k, grown).top,
                    nodes |-> CopyOnWrite(path, k, grown).nodes]
  BY ZenonT(60)
<1>4. /\ CopyOnWrite(path, k, grown).copied = c /\ f \subseteq Unallocated
      /\ t.nodes = (tree[wroot].nodes \ c) \cup f
  <2>1. /\ CopyOnWrite(path, k, grown).copied = path \cap readOnly
        /\ CopyOnWrite(path, k, grown).fresh \subseteq Unallocated
        /\ CopyOnWrite(path, k, grown).nodes =
             (tree[wroot].nodes \ (path \cap readOnly)) \cup CopyOnWrite(path, k, grown).fresh
    BY CopyFacts, SMT
  <2> QED BY <1>1, <1>2, <1>3, <2>1, ZenonT(60)
<1>5. /\ tree' = [tree EXCEPT ![wroot] = t]
      /\ nodeList' = [nodeList EXCEPT ![wroot] = @ \cup f, ![prev] = @ \cup c]
      /\ nodeSeq' = [n \in Node |-> IF n \in f THEN sequence[wroot] ELSE nodeSeq[n]]
      /\ writes' = writes + 1
      /\ UNCHANGED <<rootPointer, sequence, refCount, chain, readOnly, deleted, wpc, wroot, prev>>
  BY <1>1, <1>3, <1>4, ZenonT(60) DEF put_pair
<1>6. Opened /\ Opened'
  BY <1>5, ZenonT(60) DEF Opened
<1>7. path \subseteq tree[wroot].nodes
  BY ZenonT(60) DEF Paths
<1>8. c \subseteq Cur /\ c \cap nodeList[wroot] = {}
  BY <1>2, <1>6, <1>7, DraftFacts, ZenonT(60)
<1>9. t.nodes = (Cur \ (nodeList[prev] \cup c)) \cup ((nodeList[wroot] \cup f) \ (deleted \cup {}))
  BY <1>4, <1>6, <1>8, DraftFacts, ZenonT(60)
<1>10. /\ c \subseteq Node /\ f \subseteq Node /\ t.nodes \subseteq Node /\ deleted' \subseteq Node
       /\ writes' \in Nat /\ writes' # 0
  <2>1. writes \in Nat
    BY ZenonT(60) DEF NodeInv, NodeTypes
  <2>2. c \subseteq Node /\ f \subseteq Node /\ deleted' \subseteq Node
    BY <1>4, <1>5, <1>6, <1>8, NodeFacts, ZenonT(60) DEF Unallocated
  <2>3. t.nodes \subseteq Node
    BY <1>6, <1>9, <2>2, NodeFacts, DraftFacts, ZenonT(60)
  <2> QED BY <1>5, <2>1, <2>2, <2>3
<1>11. /\ NodeTypes'
       /\ \A x \in AnyRoot \ {wroot} : tree'[x] = tree[x]
       /\ tree'[wroot] = t
       /\ \A x \in AnyRoot \ {wroot, prev} : nodeList'[x] = nodeList[x]
       /\ nodeList'[wroot] = nodeList[wroot] \cup f
       /\ nodeList'[prev] = nodeList[prev] \cup c
       /\ \A n \in Node : nodeSeq'[n] = IF n \in f THEN sequence[wroot] ELSE nodeSeq[n]
  BY <1>5, <1>6, <1>10, EditTypes, ZenonT(60)
<1>12. Edit(c, f, {})
  BY <1>4, <1>5, <1>8, <1>9, <1>10, <1>11, ZenonT(60) DEF Edit
<1> QED BY <1>6, <1>11, <1>12, EditInv, ZenonT(60)

(* remove_pair. *)
LEMMA remove_pairNode ==
  ASSUME PinInv, NodeInv, wpc = "open", NEW path \in Paths, NEW dropped, NEW top,
         dropped \in SUBSET CopyOnWrite(path, 0, FALSE).nodes, remove_pair(path, dropped, top)
  PROVE  NodeInv'
<1>1. PICK f : f = CopyOnWrite(path, 0, FALSE).fresh
  BY ZenonT(60)
<1>2. PICK d : d = path \cap readOnly
  BY ZenonT(60)
<1>3. PICK c : c = d \cup (dropped \cap readOnly)
  BY ZenonT(60)
<1>4. PICK g : g = dropped \ readOnly
  BY ZenonT(60)
<1>5. PICK t : t = [top |-> top, nodes |-> CopyOnWrite(path, 0, FALSE).nodes \ dropped]
  BY ZenonT(60)
<1>6. /\ CopyOnWrite(path, 0, FALSE).copied = d /\ f \subseteq Unallocated
      /\ CopyOnWrite(path, 0, FALSE).nodes = (tree[wroot].nodes \ d) \cup f
      /\ t.nodes = ((tree[wroot].nodes \ d) \cup f) \ dropped
  <2>1. /\ CopyOnWrite(path, 0, FALSE).copied = path \cap readOnly
        /\ CopyOnWrite(path, 0, FALSE).fresh \subseteq Unallocated
        /\ CopyOnWrite(path, 0, FALSE).nodes =
             (tree[wroot].nodes \ (path \cap readOnly)) \cup CopyOnWrite(path, 0, FALSE).fresh
    BY CopyFacts, ZenonT(60)
  <2> QED BY <1>1, <1>2, <1>5, <2>1, ZenonT(60)
<1>7. /\ tree' = [tree EXCEPT ![wroot] = t]
      /\ nodeList' = [nodeList EXCEPT ![wroot] = @ \cup f, ![prev] = @ \cup d \cup (dropped \cap readOnly)]
      /\ nodeSeq' = [n \in Node |-> IF n \in f THEN sequence[wroot] ELSE nodeSeq[n]]
      /\ writes' = writes + 1 /\ deleted' = deleted \cup g
      /\ UNCHANGED <<rootPointer, sequence, refCount, chain, readOnly, wpc, wroot, prev>>
  BY <1>1, <1>4, <1>5, <1>6, ZenonT(60) DEF remove_pair
<1>8. Opened /\ Opened'
  BY <1>7, ZenonT(60) DEF Opened
<1>9. nodeList' = [nodeList EXCEPT ![wroot] = @ \cup f, ![prev] = @ \cup c]
  <2>1. /\ nodeList \in [AnyRoot -> SUBSET Node] /\ wroot \in AnyRoot /\ prev \in AnyRoot
        /\ wroot # prev
    BY <1>8, NodeFacts, DraftFacts, ZenonT(60)
  <2>2. nodeList[prev] \cup d \cup (dropped \cap readOnly) = nodeList[prev] \cup c
    BY <1>3, ZenonT(60)
  <2> QED BY <1>7, <2>1, <2>2, ZenonT(60)
<1>10. path \subseteq tree[wroot].nodes
  BY ZenonT(60) DEF Paths
<1>11. c \subseteq Cur /\ g \subseteq nodeList[wroot] \cup f
  BY <1>2, <1>3, <1>4, <1>6, <1>8, <1>10, DraftFacts, ZenonT(60)
<1>12. t.nodes = (Cur \ (nodeList[prev] \cup c)) \cup ((nodeList[wroot] \cup f) \ (deleted \cup g))
  BY <1>2, <1>3, <1>4, <1>6, <1>8, <1>10, DraftFacts, ZenonT(60)
<1>13. /\ c \subseteq Node /\ f \subseteq Node /\ t.nodes \subseteq Node /\ deleted' \subseteq Node
       /\ writes' \in Nat /\ writes' # 0
  <2>1. writes \in Nat
    BY ZenonT(60) DEF NodeInv, NodeTypes
  <2>2. c \subseteq Node /\ f \subseteq Node
    BY <1>6, <1>8, <1>11, NodeFacts, ZenonT(60) DEF Unallocated
  <2>3. t.nodes \subseteq Node /\ deleted' \subseteq Node
    BY <1>7, <1>8, <1>11, <1>12, <2>2, NodeFacts, DraftFacts, ZenonT(60)
  <2> QED BY <1>7, <2>1, <2>2, <2>3
<1>14. /\ NodeTypes'
       /\ \A x \in AnyRoot \ {wroot} : tree'[x] = tree[x]
       /\ tree'[wroot] = t
       /\ \A x \in AnyRoot \ {wroot, prev} : nodeList'[x] = nodeList[x]
       /\ nodeList'[wroot] = nodeList[wroot] \cup f
       /\ nodeList'[prev] = nodeList[prev] \cup c
       /\ \A n \in Node : nodeSeq'[n] = IF n \in f THEN sequence[wroot] ELSE nodeSeq[n]
  BY <1>7, <1>8, <1>9, <1>13, EditTypes, ZenonT(60)
<1>15. Edit(c, f, g)
  BY <1>6, <1>7, <1>11, <1>12, <1>13, <1>14, ZenonT(60) DEF Edit
<1> QED BY <1>8, <1>14, <1>15, EditInv, ZenonT(60)

(* clear. *)
LEMMA clearNode ==
  ASSUME PinInv, NodeInv, clear
  PROVE  NodeInv'
<1>1. /\ wpc = "open" /\ writes = 0 /\ wpc' = "end"
      /\ tree' = [tree EXCEPT ![wroot] = NoTree]
      /\ nodeList' = [nodeList EXCEPT ![prev] = @ \cup tree[wroot].nodes]
      /\ UNCHANGED <<rootPointer, sequence, refCount, chain, nodeSeq, readOnly, deleted,
                     wroot, prev, writes>>
  BY ZenonT(60) DEF clear, allocVars
<1>2. Opened /\ Opened'
  BY <1>1, ZenonT(60) DEF Opened
<1>3. PICK c : c = tree[wroot].nodes
  BY ZenonT(60)
<1>4. nodeList[wroot] = {} /\ deleted = {}
  BY <1>1, <1>2, DraftFacts, ZenonT(60) DEF NodeInv, Draft
<1>5. c = Cur \ nodeList[prev] /\ NoTree.nodes = {}
  BY <1>2, <1>3, <1>4, DraftFacts, ZenonT(60) DEF NoTree
<1>6. PICK t : t = NoTree
  BY ZenonT(60)
<1>7. PICK f : f = {}
  BY ZenonT(60)
<1>8. nodeList' = [nodeList EXCEPT ![wroot] = @ \cup f, ![prev] = @ \cup c]
  <2>1. /\ nodeList \in [AnyRoot -> SUBSET Node] /\ wroot \in AnyRoot /\ prev \in AnyRoot
        /\ wroot # prev /\ nodeList[wroot] \cup f = nodeList[wroot]
    BY <1>2, <1>7, NodeFacts, DraftFacts, ZenonT(60)
  <2> QED BY <1>1, <1>3, <2>1, ZenonT(60)
<1>9. nodeSeq' = [n \in Node |-> IF n \in f THEN sequence[wroot] ELSE nodeSeq[n]]
  BY <1>1, <1>7, NodeFacts, ZenonT(60)
<1>10. /\ c \subseteq Node /\ f \subseteq Node /\ t.nodes \subseteq Node /\ deleted' \subseteq Node
       /\ writes' \in Nat /\ readOnly' = readOnly /\ tree' = [tree EXCEPT ![wroot] = t]
  BY <1>1, <1>4, <1>5, <1>6, <1>7, NodeFacts, ZenonT(60)
<1>11. /\ NodeTypes'
       /\ \A x \in AnyRoot \ {wroot} : tree'[x] = tree[x]
       /\ tree'[wroot] = t
       /\ \A x \in AnyRoot \ {wroot, prev} : nodeList'[x] = nodeList[x]
       /\ nodeList'[wroot] = nodeList[wroot] \cup f
       /\ nodeList'[prev] = nodeList[prev] \cup c
       /\ \A n \in Node : nodeSeq'[n] = IF n \in f THEN sequence[wroot] ELSE nodeSeq[n]
  BY <1>2, <1>8, <1>9, <1>10, EditTypes, ZenonT(60)
<1>12. Edit(c, f, f)
  BY <1>1, <1>4, <1>5, <1>6, <1>7, <1>11, ZenonT(60) DEF Edit
<1> QED BY <1>2, <1>11, <1>12, EditInv, ZenonT(60)

(* callback_done: the version is published, and its nodes become           *)
(* read-only.                                                              *)
LEMMA PublishNode ==
  ASSUME PinInv, NodeInv, publish
  PROVE  NodeInv'
<1>1. /\ Opened /\ rootPointer' = wroot /\ wpc' = "flip"
      /\ chain' = IF prev = Empty THEN <<wroot>> ELSE <<wroot>> \o chain
      /\ UNCHANGED <<sequence, refCount, tree, wroot, prev, writes>>
      /\ nodeList' = [nodeList EXCEPT ![wroot] = {}]
      /\ nodeSeq' = [n \in Node |-> IF n \in nodeList[wroot] \cap deleted THEN 0 ELSE nodeSeq[n]]
      /\ deleted' = deleted \ (nodeList[wroot] \cap deleted)
      /\ readOnly' = readOnly \cup (nodeList[wroot] \ (nodeList[wroot] \cap deleted))
  BY ZenonT(60) DEF publish, Opened
<1>2. PICK w \in AnyRoot : w = wroot
  BY <1>1, OwnRoot, ZenonT(60)
<1>3. /\ w # Empty /\ w # NoRoot /\ ~Contains(chain, w) /\ w # rootPointer
      /\ prev = rootPointer /\ rootPointer \in AnyRoot /\ Empty \in AnyRoot
      /\ sequence[w] > 0 /\ sequence[w] \in Nat
      /\ \A x : Contains(chain, x) => sequence[x] < sequence[w]
      /\ sequence[rootPointer] <= sequence[w]
  BY <1>1, <1>2, OwnRoot, NodeFacts, ZenonT(60)
<1>4. \A y : Contains(chain', y) <=> Contains(chain, y) \/ y = w
  BY <1>1, <1>2, PublishChain, ZenonT(60)
<1>5. PICK own : own = nodeList[wroot]
  BY ZenonT(60)
<1>6. /\ own \subseteq Node /\ own = nodeList[w]
      /\ deleted \subseteq own
      /\ tree[w].nodes = (Cur \ nodeList[rootPointer]) \cup (own \ deleted)
      /\ \A n \in own : n \notin readOnly
      /\ \A n \in own : nodeSeq[n] = sequence[w]
      /\ nodeList[rootPointer] \subseteq Cur
  <2>1. Draft
    BY ZenonT(60) DEF NodeInv
  <2>2. own \subseteq Node
    BY <1>1, <1>5, DraftFacts, ZenonT(60)
  <2> QED BY <1>1, <1>2, <1>3, <1>5, <2>1, <2>2, ZenonT(60) DEF Draft
<1>7. /\ deleted' = {} /\ readOnly' = readOnly \cup (own \ deleted)
      /\ \A n \in Node : nodeSeq'[n] = IF n \in deleted THEN 0 ELSE nodeSeq[n]
      /\ nodeList'[w] = {} /\ \A x \in AnyRoot : x # w => nodeList'[x] = nodeList[x]
      /\ nodeList' \in [AnyRoot -> SUBSET Node] /\ nodeSeq' \in [Node -> Nat]
  <2>1. nodeList[wroot] \cap deleted = deleted
    BY <1>5, <1>6, ZenonT(60)
  <2>2. nodeList \in [AnyRoot -> SUBSET Node] /\ nodeSeq \in [Node -> Nat]
    BY NodeFacts, ZenonT(60)
  <2> QED BY <1>1, <1>2, <1>5, <2>1, <2>2, ZenonT(60)
<1>8. Cur' = (Cur \ nodeList[rootPointer]) \cup (own \ deleted)
  BY <1>1, <1>2, <1>6, ZenonT(60) DEF Cur
<1>9. \A x \in AnyRoot : Owner(x)' <=> Owner(x)
  BY <1>1, <1>2, <1>3, <1>4, ZenonT(60) DEF Owner
<1>10. Owner(w) /\ Owner(rootPointer)
  BY <1>2, <1>3, Newest, ZenonT(60) DEF Owner
<1>11. /\ \A n \in Cur : n \in Node /\ nodeSeq[n] # 0 /\ n \notin own /\ n \notin deleted
       /\ \A x \in AnyRoot : \A n \in nodeList[x] : Owner(x) /\ x # w =>
            n \in Node /\ nodeSeq[n] # 0 /\ n \notin own /\ n \notin deleted
       /\ \A n \in readOnly : n \in Node /\ nodeSeq[n] # 0 /\ n \notin own /\ n \notin deleted
  <2>1. \A n \in Cur : n \in Node /\ nodeSeq[n] # 0 /\ n \notin own
    BY <1>3, <1>6, <1>10, NodeFacts, ZenonT(60) DEF NodeInv, Allocated, Apart
  <2>2. \A x \in AnyRoot : \A n \in nodeList[x] : Owner(x) /\ x # w =>
          n \in Node /\ nodeSeq[n] # 0 /\ n \notin own
    BY <1>6, <1>10, NodeFacts, ZenonT(60) DEF NodeInv, Allocated, Apart
  <2>3. \A n \in readOnly : n \in Node /\ nodeSeq[n] # 0 /\ n \notin own
    BY <1>6, NodeFacts, ZenonT(60) DEF NodeInv, Settled
  <2> QED BY <1>6, <2>1, <2>2, <2>3, ZenonT(60)
<1>12. NodeTypes'
  <2>1. readOnly' \in SUBSET Node /\ deleted' \in SUBSET Node
    BY <1>6, <1>7, NodeFacts, ZenonT(60)
  <2> QED BY <1>1, <1>7, <2>1, ZenonT(60) DEF NodeInv, NodeTypes
<1>13. Allocated'
  <2>1. ASSUME NEW n \in Node
        PROVE  nodeSeq'[n] # 0 <=> n \in Cur' \/ \E x \in AnyRoot : Owner(x) /\ n \in nodeList'[x]
    <3>1. nodeSeq'[n] # 0 <=> nodeSeq[n] # 0 /\ n \notin deleted
      BY <1>7, ZenonT(60)
    <3>2. nodeSeq[n] # 0 <=> n \in Cur \/ \E x \in AnyRoot : Owner(x) /\ n \in nodeList[x]
      BY ZenonT(60) DEF NodeInv, Allocated
    <3>3. ASSUME n \in Cur'
          PROVE  nodeSeq'[n] # 0
      <4>1. CASE n \in Cur
        BY <1>11, <3>1, <4>1, ZenonT(60)
      <4>2. CASE n \in own \ deleted
        BY <1>6, <1>10, <3>1, <3>2, <4>2, ZenonT(60)
      <4> QED BY <1>8, <3>3, <4>1, <4>2, ZenonT(60)
    <3>4. ASSUME NEW x \in AnyRoot, Owner(x), n \in nodeList'[x]
          PROVE  nodeSeq'[n] # 0
      BY <1>7, <1>11, <3>1, <3>4, ZenonT(60)
    <3>5. ASSUME nodeSeq[n] # 0, n \notin deleted, n \notin Cur'
          PROVE  \E x \in AnyRoot : Owner(x) /\ n \in nodeList'[x]
      <4>1. CASE n \in Cur
        <5>1. n \in nodeList[rootPointer]
          BY <1>8, <3>5, <4>1, ZenonT(60)
        <5> QED BY <1>3, <1>7, <1>10, <5>1, ZenonT(60)
      <4>2. ASSUME NEW x \in AnyRoot, Owner(x), n \in nodeList[x]
            PROVE  \E y \in AnyRoot : Owner(y) /\ n \in nodeList'[y]
        <5>1. x # w
          BY <1>6, <1>8, <3>5, <4>2, ZenonT(60)
        <5> QED BY <1>7, <4>2, <5>1, ZenonT(60)
      <4> QED BY <3>2, <3>5, <4>1, <4>2, ZenonT(60)
    <3> QED BY <3>1, <3>3, <3>4, <3>5, ZenonT(60)
  <2> QED BY <1>9, <2>1, ZenonT(60) DEF Allocated
<1>14. Apart'
  <2>1. ASSUME NEW x \in AnyRoot, NEW y \in AnyRoot, NEW n \in Node,
               Owner(x), Owner(y), n \in nodeList'[x], n \in nodeList'[y]
        PROVE  x = y
    <3>1. n \in nodeList[x] /\ n \in nodeList[y]
      BY <1>7, <2>1, ZenonT(60)
    <3> QED BY <2>1, <3>1, ZenonT(60) DEF NodeInv, Apart
  <2>2. ASSUME NEW x \in AnyRoot, NEW n \in Node, Owner(x), n \in Cur', n \in nodeList'[x]
        PROVE  x = w
    <3>1. SUFFICES ASSUME x # w PROVE FALSE
      BY ZenonT(60)
    <3>2. n \in nodeList[x] /\ n \notin own
      BY <1>7, <1>11, <2>2, <3>1, ZenonT(60)
    <3>3. n \in Cur /\ n \notin nodeList[rootPointer]
      BY <1>8, <2>2, <3>2, ZenonT(60)
    <3>4. x = rootPointer
      BY <2>2, <3>2, <3>3, ZenonT(60) DEF NodeInv, Apart
    <3> QED BY <3>2, <3>3, <3>4, ZenonT(60)
  <2> QED BY <1>1, <1>2, <1>9, <2>1, <2>2, ZenonT(60) DEF Apart
<1>15. ~Opened' /\ wpc' # "init"
  BY <1>1, ZenonT(60) DEF Opened
<1>16. Settled' /\ Draft'
  <2>1. \A n \in readOnly' : nodeSeq'[n] # 0
    <3>1. \A n \in own : n \in Node /\ (n \notin deleted => nodeSeq'[n] # 0)
      BY <1>3, <1>6, <1>7
    <3> QED BY <1>7, <1>11, <3>1, ZenonT(60)
  <2>2. tree'[Empty].nodes = {} /\ nodeList'[Empty] = {}
    BY <1>1, <1>3, <1>7, ZenonT(60) DEF NodeInv, Settled
  <2> QED BY <1>1, <1>2, <1>7, <1>15, <2>1, <2>2, ZenonT(60) DEF Settled, Draft
<1>17. ASSUME NEW x \in AnyRoot, Contains(chain, x), NEW n, Kept(n, x)
       PROVE  Kept(n, x)'
  <2>1. CASE n \in Cur
    <3>1. CASE n \in nodeList[rootPointer]
      <4>1. Contains(chain', rootPointer) /\ sequence'[x] <= sequence'[rootPointer]
        BY <1>1, <1>4, <1>17, Newest, ZenonT(60)
      <4>2. n \in nodeList'[rootPointer]
        BY <1>3, <1>7, <3>1, ZenonT(60)
      <4> QED BY <1>3, <4>1, <4>2, ZenonT(60) DEF Kept
    <3>2. CASE n \notin nodeList[rootPointer]
      BY <1>8, <2>1, <3>2, ZenonT(60) DEF Kept
    <3> QED BY <3>1, <3>2, ZenonT(60)
  <2>2. ASSUME NEW y \in AnyRoot, Contains(chain, y), sequence[x] <= sequence[y], n \in nodeList[y]
        PROVE  Kept(n, x)'
    <3>1. y # w
      BY <1>3, <2>2, ZenonT(60)
    <3>2. n \in nodeList'[y] /\ Contains(chain', y) /\ sequence'[x] <= sequence'[y]
      BY <1>1, <1>4, <1>7, <2>2, <3>1, ZenonT(60)
    <3> QED BY <3>2, ZenonT(60) DEF Kept
  <2> QED BY <1>17, <2>1, <2>2, ZenonT(60) DEF Kept
<1>18. Readable'
  <2>1. Intact(w)'
    <3>1. ASSUME NEW n \in Cur'
          PROVE  n \in readOnly' /\ nodeSeq'[n] \in 1 .. sequence[w]
      <4>1. CASE n \in Cur
        <5>1. n \in readOnly /\ nodeSeq[n] \in 1 .. sequence[rootPointer] /\ nodeSeq'[n] = nodeSeq[n]
          BY <1>7, <1>11, <4>1, CurReadOnly, ZenonT(60)
        <5>2. sequence[rootPointer] \in Nat
          BY <1>3, NodeFacts, ZenonT(60)
        <5> QED BY <1>3, <1>7, <5>1, <5>2
      <4>2. CASE n \in own \ deleted
        <5>1. nodeSeq'[n] = sequence[w] /\ n \in readOnly'
          BY <1>6, <1>7, <4>2, ZenonT(60)
        <5> QED BY <1>3, <5>1
      <4> QED BY <1>8, <3>1, <4>1, <4>2, ZenonT(60)
    <3>2. tree'[w].nodes = Cur'
      BY <1>1, <1>2, ZenonT(60) DEF Cur
    <3>3. \A n \in Cur' : Kept(n, w)'
      BY ZenonT(60) DEF Kept
    <3> QED BY <1>1, <3>1, <3>2, <3>3, ZenonT(60) DEF Intact
  <2>2. ASSUME NEW x \in AnyRoot, Contains(chain, x), Intact(x)
        PROVE  Intact(x)'
    <3>1. \A n \in tree[x].nodes : n \in readOnly' /\ nodeSeq'[n] = nodeSeq[n]
      BY <1>7, <1>11, <2>2, ZenonT(60) DEF Intact
    <3> QED BY <1>1, <1>17, <2>2, <3>1, ZenonT(60) DEF Intact
  <2>3. \A x \in AnyRoot : Contains(chain, x) /\ Open(x)' => Open(x)
    BY <1>1, <1>2, <1>3, ZenonT(60) DEF Open
  <2> QED BY <1>1, <1>4, <2>1, <2>2, <2>3, ZenonT(60) DEF NodeInv, Readable
<1>19. Complete'
  <2> SUFFICES ASSUME NEW x \in AnyRoot, NEW n \in Node, Contains(chain', x),
                      nodeSeq'[n] <= sequence[x], Kept(n, x)'
               PROVE  n \in tree[x].nodes
    BY <1>1, ZenonT(60) DEF Complete
  <2>1. n \in Cur' \/ \E y \in AnyRoot : /\ Contains(chain, y) /\ sequence[x] <= sequence[y]
                                         /\ n \in nodeList[y] /\ y # w
    BY <1>1, <1>4, <1>7, ZenonT(60) DEF Kept
  <2>2. CASE x = w
    <3>1. n \in Cur'
      <4> SUFFICES ASSUME NEW y \in AnyRoot, Contains(chain, y), sequence[w] <= sequence[y] PROVE FALSE
        BY <2>1, <2>2, ZenonT(60)
      <4>1. sequence[y] < sequence[w] /\ sequence[y] \in Nat
        BY <1>3, NodeFacts, ZenonT(60)
      <4> QED BY <1>3, <4>1
    <3> QED BY <1>1, <1>2, <2>2, <3>1, ZenonT(60) DEF Cur
  <2>3. CASE x # w
    <3>1. Contains(chain, x) /\ sequence[x] < sequence[w] /\ sequence[x] \in Nat
      BY <1>3, <1>4, <2>3, NodeFacts, ZenonT(60)
    <3>2. n \notin own
      <4> SUFFICES ASSUME n \in own PROVE FALSE
        BY ZenonT(60)
      <4>1. \A y \in AnyRoot : Contains(chain, y) /\ y # w => n \notin nodeList[y]
        BY <1>11, ZenonT(60) DEF Owner
      <4>2. n \in own \ deleted
        BY <1>8, <1>11, <2>1, <4>1, ZenonT(60)
      <4>3. nodeSeq'[n] = sequence[w]
        BY <1>6, <1>7, <4>2, ZenonT(60)
      <4> QED BY <1>3, <3>1, <4>3
    <3>3. nodeSeq'[n] = nodeSeq[n]
      BY <1>6, <1>7, <3>2, ZenonT(60)
    <3>4. Kept(n, x)
      BY <1>8, <2>1, <3>2, ZenonT(60) DEF Kept
    <3> QED BY <3>1, <3>3, <3>4, ZenonT(60) DEF NodeInv, Complete
  <2> QED BY <2>2, <2>3, ZenonT(60)
<1> QED BY <1>12, <1>13, <1>14, <1>16, <1>18, <1>19, ZenonT(60) DEF NodeInv

(* end() with an error: the nodes of the handle are released. *)
LEMMA DiscardNode ==
  ASSUME PinInv, NodeInv, discard
  PROVE  NodeInv'
<1>1. /\ Opened /\ wpc' = "none" /\ wroot' = NoRoot /\ writes' = 0
      /\ UNCHANGED <<rootPointer, sequence, refCount, tree, chain, readOnly>>
      /\ nodeList' = [nodeList EXCEPT ![wroot] = {}, ![prev] = {}]
      /\ nodeSeq' = [n \in Node |-> IF n \in nodeList[wroot] THEN 0 ELSE nodeSeq[n]]
      /\ deleted' = deleted \ nodeList[wroot]
  BY ZenonT(60) DEF discard, Opened, CloseHandle
<1>2. PICK w \in AnyRoot : w = wroot
  BY <1>1, OwnRoot, ZenonT(60)
<1>3. /\ w # Empty /\ w # NoRoot /\ ~Contains(chain, w) /\ w # rootPointer
      /\ prev = rootPointer /\ rootPointer \in AnyRoot /\ Empty \in AnyRoot /\ NoRoot \notin AnyRoot
  BY <1>1, <1>2, OwnRoot, NodeFacts, RootsAssumption, ZenonT(60) DEF AnyRoot
<1>4. PICK own : own = nodeList[wroot]
  BY ZenonT(60)
<1>5. /\ own \subseteq Node /\ own = nodeList[w]
      /\ deleted \subseteq own /\ nodeList[rootPointer] \subseteq Cur
      /\ \A n \in own : n \notin readOnly
  BY <1>1, <1>2, <1>3, <1>4, DraftFacts, ZenonT(60) DEF NodeInv, Draft
<1>6. /\ deleted' = {}
      /\ \A n \in Node : nodeSeq'[n] = IF n \in own THEN 0 ELSE nodeSeq[n]
      /\ nodeList'[w] = {} /\ nodeList'[rootPointer] = {}
      /\ \A x \in AnyRoot : x # w /\ x # rootPointer => nodeList'[x] = nodeList[x]
      /\ nodeList' \in [AnyRoot -> SUBSET Node] /\ nodeSeq' \in [Node -> Nat]
  BY <1>1, <1>2, <1>3, <1>4, <1>5, NodeFacts, ZenonT(60)
<1>7. Cur' = Cur
  BY <1>1, ZenonT(60) DEF Cur
<1>8. \A x \in AnyRoot : Owner(x)' <=> Owner(x) /\ x # w
  BY <1>1, <1>2, <1>3, ZenonT(60) DEF Owner
<1>9. Owner(w) /\ Owner(rootPointer)
  BY <1>2, <1>3, Newest, ZenonT(60) DEF Owner
<1>10. /\ \A n \in Cur : n \in Node /\ nodeSeq[n] # 0 /\ n \notin own
       /\ \A x \in AnyRoot : \A n \in nodeList[x] : Owner(x) /\ x # w =>
            n \in Node /\ nodeSeq[n] # 0 /\ n \notin own
  BY <1>3, <1>5, <1>9, NodeFacts, ZenonT(60) DEF NodeInv, Allocated, Apart
<1>11. \A x \in AnyRoot : \A n \in nodeList'[x] : n \in nodeList[x] /\ x # w /\ x # rootPointer
  BY <1>6, ZenonT(60)
<1>12. NodeTypes'
  BY <1>1, <1>6, ZenonT(60) DEF NodeInv, NodeTypes
<1>13. Allocated'
  <2>1. ASSUME NEW n \in Node
        PROVE  nodeSeq'[n] # 0 <=>
               n \in Cur \/ \E x \in AnyRoot : Owner(x) /\ x # w /\ n \in nodeList'[x]
    <3>1. nodeSeq[n] # 0 <=> n \in Cur \/ \E x \in AnyRoot : Owner(x) /\ n \in nodeList[x]
      BY ZenonT(60) DEF NodeInv, Allocated
    <3>2. nodeSeq'[n] # 0 <=> nodeSeq[n] # 0 /\ n \notin own
      BY <1>6, ZenonT(60)
    <3>3. ASSUME NEW x \in AnyRoot, Owner(x), n \in nodeList[x], n \notin own, n \notin Cur
          PROVE  x # w /\ n \in nodeList'[x]
      BY <1>5, <1>6, <3>3, ZenonT(60)
    <3> QED BY <1>10, <1>11, <3>1, <3>2, <3>3, ZenonT(60)
  <2> QED BY <1>7, <1>8, <2>1, ZenonT(60) DEF Allocated
<1>14. Apart'
  BY <1>1, <1>7, <1>8, <1>11, ZenonT(60) DEF NodeInv, Apart
<1>15. ~Opened' /\ wpc' # "init" /\ wpc' # "flip" /\ wpc # "flip"
  BY <1>1, ZenonT(60) DEF Opened
<1>16. Settled' /\ Draft'
  <2>1. \A n \in readOnly : nodeSeq'[n] # 0
    BY <1>5, <1>6, NodeFacts, ZenonT(60) DEF NodeInv, Settled
  <2>2. tree'[Empty].nodes = {} /\ nodeList'[Empty] = {}
    BY <1>1, <1>3, <1>6, ZenonT(60) DEF NodeInv, Settled
  <2> QED BY <1>1, <1>6, <1>15, <2>1, <2>2, ZenonT(60) DEF Settled, Draft
<1>17. \A n : \A x \in AnyRoot : Kept(n, x)' <=> Kept(n, x)
  <2>1. ASSUME NEW n, NEW y \in AnyRoot, Contains(chain, y)
        PROVE  n \in nodeList'[y] \/ n \in Cur <=> n \in nodeList[y] \/ n \in Cur
    BY <1>3, <1>5, <1>6, <2>1, ZenonT(60)
  <2> QED BY <1>1, <1>7, <2>1, ZenonT(60) DEF Kept
<1>18. Readable'
  <2>1. ASSUME NEW x \in AnyRoot, Contains(chain, x), Intact(x)
        PROVE  Intact(x)'
    <3>1. \A n \in tree[x].nodes : n \in readOnly /\ nodeSeq'[n] = nodeSeq[n]
      BY <1>5, <1>6, <2>1, NodeFacts, ZenonT(60) DEF Intact
    <3> QED BY <1>1, <1>17, <2>1, <3>1, ZenonT(60) DEF Intact
  <2>2. \A x : Open(x)' <=> Open(x)
    BY <1>1, <1>15, ZenonT(60) DEF Open
  <2> QED BY <1>1, <2>1, <2>2, ZenonT(60) DEF NodeInv, Readable
<1>19. Complete'
  <2>1. ASSUME NEW x \in AnyRoot, NEW n \in Node, Contains(chain, x), Kept(n, x)
        PROVE  nodeSeq'[n] = nodeSeq[n]
    <3>1. n \notin own
      BY <1>3, <1>10, <2>1, ZenonT(60) DEF Kept, Owner
    <3> QED BY <1>6, <3>1, ZenonT(60)
  <2> QED BY <1>1, <1>17, <2>1, ZenonT(60) DEF NodeInv, Complete
<1> QED BY <1>12, <1>13, <1>14, <1>16, <1>18, <1>19, ZenonT(60) DEF NodeInv

(* A nonempty set of natural numbers has a least member.  This is a fact   *)
(* of the library; it is cited at the end.                                 *)
Least == \A T \in SUBSET Nat : T # {} => \E i \in T : \A j \in T : i <= j

(* What SequenceInUse finds: the newest of the older versions that are     *)
(* pinned, or zero if there is none.                                       *)
LEMMA InUse ==
  ASSUME Least, PinInv, wpc = "recycle", proot # rootPointer
  PROVE  \/ /\ SequenceInUse(proot) = 0
            /\ \A x : Contains(chain, x) /\ x # proot /\ sequence[x] <= sequence[proot] =>
                 ~(refCount[x].cnt > 0)
         \/ \E i \in Place(proot) + 1 .. Len(chain) :
              /\ SequenceInUse(proot) = sequence[chain[i]] /\ refCount[chain[i]].cnt > 0
              /\ sequence[chain[i]] < sequence[proot] /\ sequence[chain[i]] > 0
              /\ \A x : /\ Contains(chain, x) /\ x # proot /\ sequence[x] <= sequence[proot]
                        /\ refCount[x].cnt > 0
                        => sequence[x] <= sequence[chain[i]]
<1>1. PICK k \in 2 .. Len(chain) : k = Place(proot) /\ chain[k] = proot
  BY RecyclePlace, ZenonT(60)
<1>2. /\ Len(chain) \in Nat /\ chain \in Seq(Root)
      /\ \A i \in 1 .. Len(chain) : Contains(chain, chain[i])
  BY DEF PinInv, RootTypes, Contains
<1>3. \A i \in 1 .. Len(chain) : sequence[chain[i]] \in Nat /\ sequence[chain[i]] > 0
  BY <1>2, Newest, ZenonT(60) DEF PinInv, Ordered
<1>4. \A i, j \in 1 .. Len(chain) : i < j => sequence[chain[j]] < sequence[chain[i]]
  BY ZenonT(60) DEF PinInv, Ordered
<1> DEFINE used == {i \in Place(proot) + 1 .. Len(chain) : refCount[chain[i]].cnt > 0}
<1>5. ASSUME NEW x, Contains(chain, x), x # proot, sequence[x] <= sequence[proot],
             refCount[x].cnt > 0
      PROVE  \E j \in used : chain[j] = x
  <2>1. PICK j \in 1 .. Len(chain) : chain[j] = x
    BY <1>5, ZenonT(60) DEF Contains
  <2>2. ~(j < k) /\ j # k
    BY <1>1, <1>2, <1>3, <1>4, <1>5, <2>1
  <2>3. j \in k + 1 .. Len(chain)
    BY <1>1, <1>2, <2>1, <2>2
  <2> QED BY <1>1, <1>5, <2>1, <2>3, ZenonT(60)
<1>6. SequenceInUse(proot) =
        IF used = {} THEN 0 ELSE sequence[chain[CHOOSE i \in used : \A j \in used : i <= j]]
  BY ZenonT(60) DEF SequenceInUse
<1>7. CASE used = {}
  <2> HIDE DEF used
  <2>1. SequenceInUse(proot) = 0
    BY <1>6, <1>7, ZenonT(60)
  <2>2. ~\E j \in used : TRUE
    BY <1>7, ZenonT(60)
  <2> QED BY <1>5, <2>1, <2>2, ZenonT(60)
<1>8. CASE used # {}
  <2> DEFINE m == CHOOSE i \in used : \A j \in used : i <= j
  <2>1. used \in SUBSET Nat
    BY <1>1, <1>2
  <2> HIDE DEF used
  <2>2. \E i \in used : \A j \in used : i <= j
    BY <1>8, <2>1, ZenonT(60) DEF Least
  <2>3. m \in used /\ \A j \in used : m <= j
    BY <2>2, ZenonT(60)
  <2>4. SequenceInUse(proot) = sequence[chain[m]]
    BY <1>6, <1>8, ZenonT(60)
  <2> HIDE DEF m
  <2> USE DEF used
  <2>5. m \in k + 1 .. Len(chain) /\ m \in 1 .. Len(chain) /\ k \in 1 .. Len(chain) /\ k < m
        /\ refCount[chain[m]].cnt > 0
    BY <1>1, <1>2, <2>3
  <2>6. sequence[chain[m]] < sequence[proot] /\ sequence[chain[m]] > 0
    BY <1>1, <1>3, <1>4, <2>5, ZenonT(60)
  <2>7. ASSUME NEW j \in used
        PROVE  sequence[chain[j]] <= sequence[chain[m]]
    <3>1. j \in 1 .. Len(chain) /\ (m = j \/ m < j)
      BY <1>1, <1>2, <2>3, <2>5, <2>7
    <3> QED BY <1>3, <1>4, <2>5, <3>1
  <2>8. ASSUME NEW x, Contains(chain, x), x # proot, sequence[x] <= sequence[proot],
               refCount[x].cnt > 0
        PROVE  sequence[x] <= sequence[chain[m]]
    BY <1>5, <2>7, <2>8, ZenonT(60)
  <2>9. m \in Place(proot) + 1 .. Len(chain)
    BY <1>1, <2>5, ZenonT(60)
  <2> QED BY <2>4, <2>5, <2>6, <2>8, <2>9, ZenonT(60)
<1> QED BY <1>7, <1>8, ZenonT(60)

(* Nothing that a reader has, or may yet pin, is released. *)
LEMMA ReleasedUnused ==
  ASSUME Least, PinInv, NodeInv, wpc = "recycle", proot # rootPointer, refCount[proot].cnt = 0,
         NEW x \in AnyRoot, Contains(chain, x), Open(x) \/ refCount[x].cnt > 0,
         NEW n, n \in tree[x].nodes
  PROVE  n \notin Released(proot, SequenceInUse(proot))
<1> SUFFICES ASSUME n \in Released(proot, SequenceInUse(proot)) PROVE FALSE
  BY ZenonT(60)
<1>1. /\ Contains(chain, proot) /\ proot \in AnyRoot /\ Owner(proot)
  BY RecyclePlace, ZenonT(60) DEF Owner
<1>2. /\ n \in nodeList[proot] /\ n \in Node
      /\ SequenceInUse(proot) = 0 \/ nodeSeq[n] > SequenceInUse(proot)
  BY <1>1, NodeFacts, ZenonT(60) DEF Released
<1>3. nodeSeq[n] \in 1 .. sequence[x] /\ Kept(n, x) /\ nodeSeq[n] \in Nat
  <2>1. Intact(x)
    BY ZenonT(60) DEF NodeInv, Readable
  <2> QED BY <1>2, <2>1, NodeFacts, ZenonT(60) DEF Intact
<1>4. n \notin Cur
  BY <1>1, <1>2, ZenonT(60) DEF NodeInv, Apart
<1>5. sequence[x] <= sequence[proot]
  <2>1. PICK y \in AnyRoot : Contains(chain, y) /\ sequence[x] <= sequence[y] /\ n \in nodeList[y]
    BY <1>3, <1>4, ZenonT(60) DEF Kept
  <2>2. y = proot
    BY <1>1, <1>2, <2>1, ZenonT(60) DEF NodeInv, Apart, Owner
  <2> QED BY <2>1, <2>2, ZenonT(60)
<1>6. x # rootPointer
  <2> SUFFICES ASSUME x = rootPointer PROVE FALSE
    BY ZenonT(60)
  <2>1. sequence[proot] <= sequence[x] /\ sequence[proot] \in Nat /\ sequence[x] \in Nat
    BY <1>1, Newest, ZenonT(60)
  <2>2. sequence[proot] = sequence[x]
    BY <1>5, <2>1
  <2>3. sequence[proot] > 0
    BY <1>1, ZenonT(60) DEF PinInv, Ordered
  <2>4. sequence[proot] = 0
    BY <1>1, <2>2, ZenonT(60) DEF PinInv, Ordered
  <2> QED BY <2>3, <2>4
<1>7. refCount[x].cnt > 0 /\ x # proot
  <2>1. ~(0 > 0)
    OBVIOUS
  <2>2. refCount[x].cnt > 0
    BY <1>6, ZenonT(60) DEF Open
  <2> QED BY <2>1, <2>2, ZenonT(60)
<1>8. /\ SequenceInUse(proot) \in Nat /\ SequenceInUse(proot) # 0
      /\ sequence[x] <= SequenceInUse(proot) /\ sequence[x] \in Nat
  <2>1. PICK i \in Place(proot) + 1 .. Len(chain) :
              /\ SequenceInUse(proot) = sequence[chain[i]]
              /\ sequence[chain[i]] > 0 /\ sequence[x] <= sequence[chain[i]]
    BY <1>5, <1>7, InUse, ZenonT(60)
  <2>2. i \in 1 .. Len(chain)
    BY <2>1, RecyclePlace
  <2>3. Contains(chain, chain[i])
    BY <2>2, ZenonT(60) DEF Contains
  <2>4. sequence[chain[i]] \in Nat /\ sequence[x] \in Nat
    BY <2>3, Newest, ZenonT(60)
  <2> QED BY <2>1, <2>4
<1> QED BY <1>2, <1>3, <1>8

(* What stays on the version is in one that a reader has. *)
LEMMA KeptUsed ==
  ASSUME Least, PinInv, NodeInv, wpc = "recycle", proot # rootPointer,
         NEW n \in nodeList[proot], n \notin Released(proot, SequenceInUse(proot))
  PROVE  \E i \in Place(proot) + 1 .. Len(chain) :
           refCount[chain[i]].cnt > 0 /\ n \in tree[chain[i]].nodes
<1>1. /\ Contains(chain, proot) /\ proot \in AnyRoot /\ proot # Empty
  BY RecyclePlace, ZenonT(60)
<1>2. n \in Node /\ nodeSeq[n] \in Nat /\ SequenceInUse(proot) # 0 /\ ~(nodeSeq[n] > SequenceInUse(proot))
  BY <1>1, NodeFacts, ZenonT(60) DEF Released
<1>3. PICK i \in Place(proot) + 1 .. Len(chain) :
         /\ SequenceInUse(proot) = sequence[chain[i]] /\ refCount[chain[i]].cnt > 0
         /\ sequence[chain[i]] < sequence[proot]
  BY <1>2, InUse, ZenonT(60)
<1>4. i \in 1 .. Len(chain)
  BY <1>3, RecyclePlace
<1>5. Contains(chain, chain[i])
  BY <1>4, ZenonT(60) DEF Contains
<1>6. chain[i] \in AnyRoot /\ sequence[chain[i]] \in Nat /\ sequence[proot] \in Nat
  BY <1>1, <1>5, Newest, ZenonT(60)
<1>7. nodeSeq[n] <= sequence[chain[i]] /\ sequence[chain[i]] <= sequence[proot]
  BY <1>2, <1>3, <1>6
<1>8. Kept(n, chain[i])
  BY <1>1, <1>7, ZenonT(60) DEF Kept
<1>9. n \in tree[chain[i]].nodes
  BY <1>2, <1>5, <1>6, <1>7, <1>8, ZenonT(60) DEF NodeInv, Complete
<1> QED BY <1>3, <1>9, ZenonT(60)

(* A round of the recycling loop. *)
LEMMA RecycleNode ==
  ASSUME Least, PinInv, NodeInv, recycle
  PROVE  NodeInv'
<1>1. /\ wpc = "recycle" /\ proot # rootPointer
      /\ UNCHANGED <<rootPointer, sequence, refCount, tree, deleted, wpc, wroot, prev, writes>>
  BY ZenonT(60) DEF recycle
<1>2. ~Opened /\ ~Opened' /\ wpc # "init" /\ wpc' # "init" /\ wpc' # "flip"
  BY <1>1, ZenonT(60) DEF Opened
<1>3. CASE refCount[proot].cnt # 0
  <2>1. UNCHANGED <<nodeSeq, readOnly, nodeList, chain>>
    BY <1>3, ZenonT(60) DEF recycle
  <2>2. \A x : (Open(x)' <=> Open(x)) /\ (Owner(x)' <=> Owner(x))
    BY <1>1, <2>1, ZenonT(60) DEF Open, Owner
  <2>3. writes \in Nat
    BY ZenonT(60) DEF NodeInv, NodeTypes
  <2>4. Resting
    BY <1>1, <1>2, <2>1, <2>2, <2>3, ZenonT(60) DEF Resting
  <2> QED BY <2>4, RestingInv, ZenonT(60)
<1>4. CASE refCount[proot].cnt = 0
  <2>1. PICK p \in AnyRoot : p = proot
    BY <1>1, RecyclePlace, ZenonT(60)
  <2>2. PICK gone : gone = Released(proot, SequenceInUse(proot))
    BY ZenonT(60)
  <2>3. /\ nodeSeq' = [n \in Node |-> IF n \in gone THEN 0 ELSE nodeSeq[n]]
        /\ readOnly' = readOnly \ gone
        /\ nodeList' = [nodeList EXCEPT ![proot] = nodeList[proot] \ gone]
        /\ \/ nodeList[proot] \ gone = {} /\ chain' = RemoveFirst(chain, proot)
                                          /\ freelist' = Append(freelist, proot)
           \/ chain' = chain
    BY <1>4, <2>2, ZenonT(60) DEF recycle
  <2>4. /\ Contains(chain, p) /\ p # Empty /\ p # rootPointer /\ wroot = rootPointer
        /\ rootPointer \in AnyRoot /\ Empty \in AnyRoot
    BY <1>1, <2>1, RecyclePlace, NodeFacts, ZenonT(60) DEF PinInv, Shape
  <2>5. /\ gone \subseteq nodeList[p] /\ gone \subseteq Node
        /\ nodeList'[p] = nodeList[p] \ gone
        /\ \A x \in AnyRoot : x # p => nodeList'[x] = nodeList[x]
        /\ nodeList' \in [AnyRoot -> SUBSET Node] /\ nodeSeq' \in [Node -> Nat]
        /\ \A n \in Node : nodeSeq'[n] = IF n \in gone THEN 0 ELSE nodeSeq[n]
    <3>1. gone \subseteq nodeList[p]
      BY <2>1, <2>2, ZenonT(60) DEF Released
    <3> QED BY <2>1, <2>3, <3>1, NodeFacts, ZenonT(60)
  <2>6. \A y : Contains(chain', y) =>
          Contains(chain, y)
    BY <1>1, <2>1, <2>3, RecycleChain, ZenonT(60)
  <2>7. \A y \in AnyRoot : Contains(chain, y) /\ nodeList'[y] # {} => Contains(chain', y)
    BY <1>1, <2>1, <2>3, <2>5, RecycleChain, ZenonT(60)
  <2>8. /\ \A x \in AnyRoot : Owner(x)' => Owner(x)
        /\ \A x \in AnyRoot : Owner(x) /\ nodeList'[x] # {} => Owner(x)'
    BY <1>1, <2>6, <2>7, ZenonT(60) DEF Owner
  <2>9. Cur' = Cur
    BY <1>1, ZenonT(60) DEF Cur
  <2>10. Owner(p)
    BY <2>4, ZenonT(60) DEF Owner
  <2>11. /\ \A n \in Cur : n \in Node /\ n \notin gone
         /\ \A x \in AnyRoot : \A n \in nodeList'[x] : Owner(x) => n \notin gone /\ n \in nodeList[x]
    <3>1. \A n \in Cur : n \in Node /\ n \notin gone
      BY <2>4, <2>5, <2>10, NodeFacts, ZenonT(60) DEF NodeInv, Apart
    <3>2. ASSUME NEW x \in AnyRoot, NEW n \in nodeList'[x], Owner(x)
          PROVE  n \notin gone /\ n \in nodeList[x]
      <4>1. CASE x = p
        BY <2>5, <3>2, <4>1, ZenonT(60)
      <4>2. CASE x # p
        <5>1. n \in nodeList[x] /\ n \in Node
          BY <2>5, <3>2, <4>2, ZenonT(60)
        <5>2. n \notin nodeList[p]
          BY <2>10, <3>2, <4>2, <5>1, ZenonT(60) DEF NodeInv, Apart
        <5> QED BY <2>5, <5>1, <5>2, ZenonT(60)
      <4> QED BY <4>1, <4>2, ZenonT(60)
    <3> QED BY <3>1, <3>2, ZenonT(60)
  <2>12. NodeTypes'
    BY <1>1, <2>3, <2>5, ZenonT(60) DEF NodeInv, NodeTypes
  <2>13. Allocated'
    <3>1. ASSUME NEW n \in Node
          PROVE  nodeSeq'[n] # 0 <=> n \in Cur \/ \E x \in AnyRoot : Owner(x)' /\ n \in nodeList'[x]
      <4>1. nodeSeq[n] # 0 <=> n \in Cur \/ \E x \in AnyRoot : Owner(x) /\ n \in nodeList[x]
        BY ZenonT(60) DEF NodeInv, Allocated
      <4>2. nodeSeq'[n] # 0 <=> nodeSeq[n] # 0 /\ n \notin gone
        BY <2>5, ZenonT(60)
      <4>3. ASSUME NEW x \in AnyRoot, Owner(x), n \in nodeList[x], n \notin gone
            PROVE  Owner(x)' /\ n \in nodeList'[x]
        <5>1. n \in nodeList'[x]
          BY <2>5, <4>3, ZenonT(60)
        <5>2. nodeList'[x] # {}
          BY <5>1, ZenonT(60)
        <5> QED BY <2>8, <4>3, <5>1, <5>2, ZenonT(60)
      <4>4. ASSUME NEW x \in AnyRoot, Owner(x)', n \in nodeList'[x]
            PROVE  Owner(x) /\ n \in nodeList[x] /\ n \notin gone
        BY <2>8, <2>11, <4>4, ZenonT(60)
      <4> QED BY <2>11, <4>1, <4>2, <4>3, <4>4, ZenonT(60)
    <3> QED BY <2>9, <3>1, ZenonT(60) DEF Allocated
  <2>14. Apart'
    BY <1>1, <2>8, <2>9, <2>11, ZenonT(60) DEF NodeInv, Apart
  <2>15. Settled' /\ Draft'
    <3>1. \A n \in readOnly' : nodeSeq'[n] # 0
      BY <2>3, <2>5, NodeFacts, ZenonT(60) DEF NodeInv, Settled
    <3>2. tree'[Empty].nodes = {} /\ nodeList'[Empty] = {} /\ nodeList'[rootPointer] = {} /\ deleted = {}
      BY <1>1, <1>2, <2>4, <2>5, ZenonT(60) DEF NodeInv, Settled
    <3> QED BY <1>1, <1>2, <3>1, <3>2, ZenonT(60) DEF Settled, Draft
  <2>16. \A n : \A x \in AnyRoot : Kept(n, x)' => Kept(n, x) /\ n \notin gone
    <3>1. \A n : \A y \in AnyRoot : Contains(chain', y) /\ n \in nodeList'[y] =>
            Contains(chain, y) /\ n \in nodeList[y] /\ n \notin gone
      BY <2>6, <2>11, ZenonT(60) DEF Owner
    <3> QED BY <1>1, <2>9, <2>11, <3>1, ZenonT(60) DEF Kept
  <2>17. \A n : \A x \in AnyRoot : Kept(n, x) /\ n \notin gone => Kept(n, x)'
    <3>1. ASSUME NEW n, NEW y \in AnyRoot, Contains(chain, y), n \in nodeList[y], n \notin gone
          PROVE  Contains(chain', y) /\ n \in nodeList'[y]
      <4>1. n \in nodeList'[y]
        BY <2>5, <3>1, ZenonT(60)
      <4>2. nodeList'[y] # {}
        BY <4>1, ZenonT(60)
      <4> QED BY <2>7, <3>1, <4>1, <4>2, ZenonT(60)
    <3> QED BY <1>1, <2>9, <3>1, ZenonT(60) DEF Kept
  <2>18. Readable'
    <3>1. ASSUME NEW x \in AnyRoot, Contains(chain', x), Open(x)' \/ refCount[x].cnt > 0
          PROVE  Intact(x)'
      <4>1. Contains(chain, x) /\ (Open(x) \/ refCount[x].cnt > 0)
        BY <1>1, <1>2, <2>6, <3>1, ZenonT(60) DEF Open
      <4>2. Intact(x)
        BY <4>1, ZenonT(60) DEF NodeInv, Readable
      <4>3. \A n \in tree[x].nodes : n \notin gone
        BY <1>1, <1>4, <2>2, <4>1, ReleasedUnused, ZenonT(60)
      <4>4. \A n \in tree[x].nodes : n \in readOnly' /\ nodeSeq'[n] = nodeSeq[n]
        BY <2>3, <2>5, <4>2, <4>3, NodeFacts, ZenonT(60) DEF Intact
      <4> QED BY <1>1, <2>17, <4>2, <4>3, <4>4, ZenonT(60) DEF Intact
    <3> QED BY <1>1, <3>1, ZenonT(60) DEF Readable
  <2>19. Complete'
    <3>1. \A n \in Node : n \notin gone => nodeSeq'[n] = nodeSeq[n]
      BY <2>5, ZenonT(60)
    <3> QED BY <1>1, <2>6, <2>16, <3>1, ZenonT(60) DEF NodeInv, Complete
  <2> QED BY <2>12, <2>13, <2>14, <2>15, <2>18, <2>19, ZenonT(60) DEF NodeInv
<1> QED BY <1>3, <1>4, ZenonT(60)

(* Every step keeps the invariant about nodes. *)
LEMMA NextNode ==
  ASSUME Least, PinInv, NodeInv, [Next]_vars
  PROVE  NodeInv'
<1>1. CASE get_write_handle
  BY <1>1, TakeNode, ZenonT(60)
<1>2. CASE InitRoot
  BY <1>2, InitRootNode, ZenonT(60)
<1>3. CASE Write
  <2>1. CASE clear
    BY <2>1, clearNode, ZenonT(60)
  <2>2. CASE rollback
    BY <2>2, WriterRests, ZenonT(60)
  <2>3. ASSUME wpc = "open", NEW path \in Paths \cup {{}}, NEW k \in 0 .. MaxTree,
               NEW grown \in BOOLEAN, put_pair(path, k, grown)
        PROVE  NodeInv'
    BY <2>3, put_pairNode, ZenonT(60)
  <2>4. ASSUME wpc = "open", NEW path \in Paths,
               NEW dropped \in SUBSET CopyOnWrite(path, 0, FALSE).nodes,
               NEW top \in CopyOnWrite(path, 0, FALSE).nodes \cup {0}, remove_pair(path, dropped, top)
        PROVE  NodeInv'
    BY <2>4, remove_pairNode, ZenonT(60)
  <2> QED BY <1>3, <2>1, <2>2, <2>3, <2>4, ZenonT(60) DEF Write
<1>4. CASE publish
  BY <1>4, PublishNode, ZenonT(60)
<1>5. CASE recycle
  BY <1>5, RecycleNode, ZenonT(60)
<1>6. CASE discard
  BY <1>6, DiscardNode, ZenonT(60)
<1>7. CASE flip \/ finish \/ UNCHANGED vars
  BY <1>7, WriterRests, ZenonT(60)
<1>8. ASSUME NEW r \in Reader, get_read_handle(r) \/ ClearHandle(r)
      PROVE  NodeInv'
  BY <1>8, ReaderNode, ZenonT(60)
<1> QED BY <1>1, <1>2, <1>3, <1>4, <1>5, <1>6, <1>7, <1>8, ZenonT(60)
           DEF Next, Finish

(* The nodes of a pinned version. *)
LEMMA VersionsIntact == PinInv /\ NodeInv => PinnedIntact
<1> SUFFICES ASSUME PinInv, NodeInv, ~stray, NEW d \in Reader, pc[d] = "held"
             PROVE  /\ h[d] \in Range(chain) \cup {Empty}
                    /\ \A n \in tree[h[d]].nodes :
                         n \in readOnly /\ nodeSeq[n] \in 1 .. sequence[h[d]]
  BY ZenonT(60) DEF PinnedIntact
<1>1. Contains(chain, h[d]) \/ h[d] = Empty
  BY ZenonT(60) DEF PinInv, Pinned
<1>2. h[d] \in Range(chain) \cup {Empty}
  BY <1>1, RangeIs, ZenonT(60) DEF PinInv
<1>3. CASE h[d] = Empty
  BY <1>2, <1>3, ZenonT(60) DEF NodeInv, Settled
<1>4. CASE Contains(chain, h[d])
  <2>1. h[d] \in AnyRoot /\ refCount[h[d]].cnt # 0
    BY HeldCounted, ZenonT(60)
  <2>2. refCount[h[d]].cnt = Cardinality(Holders(h[d])) /\ Holders(h[d]) \in SUBSET Reader
    BY <1>4, ZenonT(60) DEF PinInv, Counts, Holders
  <2>3. Cardinality(Holders(h[d])) \in Nat
    BY <2>2, ZenonT(60) DEF PinInv, Sizes
  <2>4. refCount[h[d]].cnt > 0
    BY <2>1, <2>2, <2>3
  <2>5. Intact(h[d])
    BY <1>4, <2>1, <2>4, ZenonT(60) DEF NodeInv, Readable
  <2> QED BY <1>2, <2>5, ZenonT(60) DEF Intact
<1> QED BY <1>1, <1>3, <1>4, ZenonT(60)

(* The places of the nodes. *)
LEMMA PlacesExact == PinInv /\ NodeInv => NodesAccounted
<1> SUFFICES ASSUME PinInv, NodeInv PROVE NodesAccounted
  BY ZenonT(60)
<1> DEFINE owners == (Range(chain) \cup {wroot, Empty}) \ {NoRoot}
           listed == UNION {nodeList[r] : r \in owners}
<1>1. \A x : x \in owners <=> x \in AnyRoot /\ Owner(x)
  <2>1. \A x : x \in Range(chain) <=> Contains(chain, x)
    BY RangeIs, ZenonT(60) DEF PinInv
  <2>2. wroot # NoRoot => wroot \in AnyRoot
    BY ZenonT(60) DEF PinInv, RootTypes, AnyRoot
  <2>3. NoRoot \notin AnyRoot /\ Empty \in AnyRoot
    BY RootsAssumption, ZenonT(60) DEF AnyRoot
  <2> QED BY <2>1, <2>2, <2>3, Newest, ZenonT(60) DEF Owner
<1>2. \A n : n \in listed <=> \E x \in AnyRoot : Owner(x) /\ n \in nodeList[x]
  <2>1. \A n : n \in listed <=> \E x \in owners : n \in nodeList[x]
    BY ZenonT(60)
  <2> HIDE DEF owners, listed
  <2> QED BY <1>1, <2>1, ZenonT(60)
<1> HIDE DEF owners, listed
<1>3. {n \in Node : nodeSeq[n] # 0} = Cur \cup listed
  <2>1. \A n \in listed : n \in Node
    BY <1>2, NodeFacts, ZenonT(60)
  <2>2. \A n \in Node : nodeSeq[n] # 0 <=> n \in Cur \/ n \in listed
    BY <1>2, ZenonT(60) DEF NodeInv, Allocated
  <2> QED BY <2>1, <2>2, NodeFacts, ZenonT(60)
<1>4. \A r, s \in owners : r # s => nodeList[r] \cap nodeList[s] = {}
  <2>1. ASSUME NEW r \in owners, NEW s \in owners, r # s, NEW n \in nodeList[r], n \in nodeList[s]
        PROVE  FALSE
    <3>1. r \in AnyRoot /\ s \in AnyRoot /\ Owner(r) /\ Owner(s) /\ n \in Node
      BY <1>1, <2>1, NodeFacts, ZenonT(60)
    <3> QED BY <2>1, <3>1, ZenonT(60) DEF NodeInv, Apart
  <2> QED BY <2>1, ZenonT(60)
<1>5. wpc \notin {"open", "end"} => Cur \cap listed = {}
  <2> SUFFICES ASSUME ~Opened, NEW n \in Cur, NEW x \in AnyRoot, Owner(x), n \in nodeList[x]
               PROVE  FALSE
    BY <1>2, ZenonT(60) DEF Opened
  <2>1. x = rootPointer
    BY NodeFacts, ZenonT(60) DEF NodeInv, Apart
  <2>2. nodeList[rootPointer] = {}
    BY ZenonT(60) DEF NodeInv, Settled
  <2> QED BY <2>1, <2>2, ZenonT(60)
<1>6. Cur = tree[rootPointer].nodes
  BY ZenonT(60) DEF Cur
<1> QED BY <1>3, <1>4, <1>5, <1>6, ZenonT(60) DEF NodesAccounted, owners, listed

(* A round of the recycling loop on a version that nobody has. *)
LEMMA RecycleStep ==
  ASSUME Least, PinInv, NodeInv, recycle, refCount[proot].cnt = 0
  PROVE  nodeList'[proot] =
           {n \in nodeList[proot] :
              \E i \in Place(proot) + 1 .. Len(chain) :
                /\ refCount[chain[i]].cnt > 0
                /\ n \in tree[chain[i]].nodes}
<1>1. wpc = "recycle" /\ proot # rootPointer
  BY ZenonT(60) DEF recycle
<1>2. PICK gone : gone = Released(proot, SequenceInUse(proot))
  BY ZenonT(60)
<1>3. nodeList' = [nodeList EXCEPT ![proot] = nodeList[proot] \ gone]
  BY <1>2, ZenonT(60) DEF recycle
<1>4. proot \in AnyRoot /\ nodeList \in [AnyRoot -> SUBSET Node]
  BY <1>1, RecyclePlace, NodeFacts, ZenonT(60)
<1>5. nodeList'[proot] = nodeList[proot] \ gone
  BY <1>3, <1>4, ZenonT(60)
<1>6. ASSUME NEW n \in nodeList[proot], n \notin gone
      PROVE  \E i \in Place(proot) + 1 .. Len(chain) :
               refCount[chain[i]].cnt > 0 /\ n \in tree[chain[i]].nodes
  BY <1>1, <1>2, <1>6, KeptUsed, ZenonT(60)
<1>7. ASSUME NEW i \in Place(proot) + 1 .. Len(chain), refCount[chain[i]].cnt > 0,
             NEW n \in tree[chain[i]].nodes
      PROVE  n \notin gone
  <2>1. i \in 1 .. Len(chain)
    BY <1>1, <1>7, RecyclePlace
  <2>2. Contains(chain, chain[i])
    BY <2>1, ZenonT(60) DEF Contains
  <2>3. PICK x \in AnyRoot : x = chain[i]
    BY <2>2, Newest, ZenonT(60)
  <2> QED BY <1>1, <1>2, <1>7, <2>2, <2>3, ReleasedUnused, ZenonT(60)
<1> QED BY <1>5, <1>6, <1>7, ZenonT(60)

-----------------------------------------------------------------------------
(* Pinning                                                                 *)

(* The members of the list of versions are root pointers after a step too. *)
LEMMA ChainRootsNext ==
  RootTypes' => (\A x : Contains(chain, x) => x \in AnyRoot)'
<1>1. RootTypes => \A x : Contains(chain, x) => x \in AnyRoot
  BY ChainRoots, ZenonT(60)
<1> QED BY <1>1, PTL

(* A tree without versions. *)
LEMMA InitPin == Sizes /\ Init => PinInv
<1> SUFFICES ASSUME Sizes, Init PROVE PinInv
  BY ZenonT(60)
<1>1. RootTypes
  BY DEF Init, RootTypes, AnyRoot, Counter, Tagged, WriterPlaces
<1>2. ReaderTypes
  BY DEF Init, ReaderTypes, Counter, Tagged, ReaderPlaces
<1>3. /\ \A x : ~Contains(chain, x) /\ ~Contains(freelist, x)
      /\ IsInjective(chain) /\ IsInjective(freelist)
  BY EmptyList, ZenonT(60) DEF Init
<1>4. Shape
  BY <1>3, RootsAssumption, ZenonT(60) DEF Init, Shape, Opened
<1>5. Tags
  BY DEF Init, Tags, Tagged, Opened
<1>6. Ordered
  BY <1>3 DEF Init, Ordered, Opened, AnyRoot
<1>7. Counts
  <2>1. Holders(Empty) = {}
    BY ZenonT(60) DEF Init, Holders
  <2> QED BY <1>3, <2>1, ZenonT(60) DEF Sizes, Init, Counts, Opened, Tagged, AnyRoot
<1>8. ASSUME NEW r \in Reader PROVE Knows(r) /\ Local(r) /\ Pinned(r)
  BY RootsAssumption DEF Init, Knows, Local, Pinned, Tagged, AnyRoot
<1> QED BY <1>1, <1>2, <1>4, <1>5, <1>6, <1>7, <1>8, ZenonT(60) DEF PinInv

(* What a step of the writer does as far as the readers are concerned:     *)
(* sequences are new, root_pointer_ moves on to a version that was not     *)
(* published before, and no version with a count leaves the list.          *)
Advance ==
  /\ UNCHANGED readerVars
  /\ prootSeq <= prootSeq'
  /\ \A x \in AnyRoot :
       /\ sequence'[x] = sequence[x] \/ sequence'[x] = 0 \/ sequence'[x] > prootSeq
       /\ Published(x) /\ sequence'[x] = sequence[x] /\ sequence[x] > 0 => Published(x)'
       /\ Published(x) /\ x = rootPointer' => x = rootPointer
       /\ Contains(chain, x) \/ x = Empty =>
            sequence'[x] = sequence[x] /\ refCount'[x].cnt = refCount[x].cnt
       /\ Contains(chain, x) /\ refCount[x].cnt # 0 => Contains(chain', x)
       /\ Contains(chain', x) =>
            \/ Contains(chain, x)
            \/ Opened /\ x = wroot /\ refCount'[x].cnt = refCount[x].cnt
  /\ rootPointer' = Empty => rootPointer = Empty
  /\ sequence[rootPointer] <= sequence'[rootPointer']
  /\ Opened' => \/ refCount'[wroot'].cnt = 0
                \/ Opened /\ wroot' = wroot /\ refCount' = refCount

(* What a reader knows stays true while the writer works. *)
LEMMA KnowsOn ==
  ASSUME PinInv, RootTypes', Advance, NEW r \in Reader
  PROVE  Knows(r)' /\ Local(r)'
<1>1. /\ pc' = pc /\ q' = q /\ old' = old /\ h' = h /\ asked' = asked
  BY ZenonT(60) DEF Advance, readerVars
<1>2. Knows(r) /\ Local(r)
  BY ZenonT(60) DEF PinInv
<1>3. /\ prootSeq \in Nat /\ prootSeq' \in Nat /\ old[r].tag \in Int
      /\ sequence \in [AnyRoot -> Nat] /\ sequence' \in [AnyRoot -> Nat]
      /\ rootPointer \in AnyRoot /\ rootPointer' \in AnyRoot
      /\ asked[r] \in Nat /\ q[r] \in AnyRoot \cup {NoRoot} 
  BY ZenonT(60) DEF PinInv, RootTypes, ReaderTypes, Counter
<1>4. \A x \in AnyRoot : sequence'[x] > 0 /\ sequence'[x] <= prootSeq =>
        /\ sequence'[x] = sequence[x]
        /\ Published(x) => Published(x)'
  BY <1>3 DEF Advance
<1>5. \A x \in AnyRoot : Published(x) /\ x # rootPointer => x # rootPointer'
  BY ZenonT(60) DEF Advance
<1>6. old[r].tag <= prootSeq /\ old[r].tag <= prootSeq'
  BY <1>2, <1>3 DEF Advance, Knows
<1>7. (pc[r] = "compare" /\ old[r].tag > 0 /\ old[r].tag = sequence[q[r]] =>
        Published(q[r]) /\ asked[r] <= old[r].tag)'
  <2> SUFFICES ASSUME pc[r] = "compare", old[r].tag > 0, old[r].tag = sequence'[q[r]]
               PROVE  Published(q[r])' /\ asked[r] <= old[r].tag
    BY <1>1, ZenonT(60)
  <2>1. q[r] \in AnyRoot
    BY <1>2, <1>3, ZenonT(60) DEF Local
  <2>2. sequence'[q[r]] = sequence[q[r]] /\ (Published(q[r]) => Published(q[r])')
    <3>1. PICK y \in AnyRoot : y = q[r]
      BY <2>1, ZenonT(60)
    <3>2. sequence'[y] = sequence[y] /\ (Published(y) => Published(y)')
      BY <1>4, <1>6, <3>1, ZenonT(60)
    <3>3. y = q'[r]
      BY <1>1, <3>1, ZenonT(60)
    <3> QED BY <3>1, <3>2, <3>3, ZenonT(60) DEF Published
  <2> QED BY <1>2, <2>2, ZenonT(60) DEF Knows
<1>8. ASSUME pc[r] \in {"same", "target", "cas"}
      PROVE  /\ old[r].tag >= 0
             /\ old[r].tag > 0 => asked[r] <= old[r].tag
  BY <1>2, <1>8, ZenonT(60) DEF Knows
<1>9. ASSUME pc[r] \in {"same", "target", "cas"}, old[r].tag > 0,
             NEW x \in AnyRoot, sequence'[x] = old[r].tag
      PROVE  /\ Published(x)'
             /\ pc[r] = "same" => x = q[r]
             /\ pc[r] = "target" => x = h[r] \/ (x # q[r] /\ x # rootPointer')
             /\ pc[r] = "cas" => x = h[r] \/ x # q[r]
  <2>1. sequence[x] = old[r].tag /\ (Published(x) => Published(x)')
    BY <1>3, <1>4, <1>6, <1>9, ZenonT(60)
  <2>2. /\ Published(x)
        /\ pc[r] = "same" => x = q[r]
        /\ pc[r] = "target" => x = h[r] \/ (x # q[r] /\ x # rootPointer)
        /\ pc[r] = "cas" => x = h[r] \/ x # q[r]
    BY <1>2, <1>9, <2>1, ZenonT(60) DEF Knows
  <2> QED BY <1>5, <2>1, <2>2, ZenonT(60)
<1>10. Knows(r)'
  BY <1>1, <1>6, <1>7, <1>8, <1>9, ZenonT(60) DEF Knows
<1>11. asked[r] <= sequence'[rootPointer']
  BY <1>2, <1>3 DEF Local, Advance
<1>12. rootPointer' = Empty => rootPointer = Empty
  BY ZenonT(60) DEF Advance
<1>13. Local(r)'
  BY <1>1, <1>2, <1>11, <1>12, ZenonT(60) DEF Local
<1> QED BY <1>10, <1>13, ZenonT(60)

(* Pinned versions stay on the list while the writer works. *)
LEMMA PinnedOn ==
  ASSUME PinInv, Advance, NEW r \in Reader
  PROVE  Pinned(r)'
<1>1. pc' = pc /\ h' = h /\ asked' = asked /\ stray' = stray
  BY ZenonT(60) DEF Advance, readerVars
<1> SUFFICES ASSUME ~stray, pc[r] = "held"
             PROVE  /\ Contains(chain', h[r]) \/ h[r] = Empty
                    /\ asked[r] <= sequence'[h[r]]
  BY <1>1, ZenonT(60) DEF Pinned
<1>2. /\ Contains(chain, h[r]) \/ h[r] = Empty
      /\ asked[r] <= sequence[h[r]]
  BY ZenonT(60) DEF PinInv, Pinned
<1>3. h[r] \in AnyRoot /\ refCount[h[r]].cnt # 0
  BY HeldCounted, ZenonT(60)
<1> QED BY <1>2, <1>3, ZenonT(60) DEF Advance

(* The counts stay exact while the writer works. *)
LEMMA CountsOn ==
  ASSUME PinInv, RootTypes', Advance
  PROVE  Counts'
<1>1. pc' = pc /\ h' = h /\ stray' = stray
  BY ZenonT(60) DEF Advance, readerVars
<1>2. \A x : Holders(x)' = Holders(x)
  BY <1>1, ZenonT(60) DEF Holders
<1> SUFFICES ASSUME ~stray
             PROVE  /\ \A x : Contains(chain', x) \/ x = Empty =>
                         refCount'[x].cnt = Cardinality(Holders(x))
                    /\ Opened' => refCount'[wroot'].cnt = 0
  BY <1>1, <1>2, ZenonT(60) DEF Counts
<1>3. /\ \A x : Contains(chain, x) \/ x = Empty =>
                  refCount[x].cnt = Cardinality(Holders(x))
      /\ Opened => refCount[wroot].cnt = 0
  BY ZenonT(60) DEF PinInv, Counts
<1>4. Opened' => refCount'[wroot'].cnt = 0
  BY <1>3, ZenonT(60) DEF Advance
<1>5. ASSUME NEW x, Contains(chain', x) \/ x = Empty
      PROVE  refCount'[x].cnt = Cardinality(Holders(x))
  <2>1. x \in AnyRoot
    <3>1. Empty \in AnyRoot
      BY ZenonT(60) DEF AnyRoot
    <3> QED BY <1>5, <3>1, ChainRootsNext, ZenonT(60)
  <2>2. CASE Contains(chain, x) \/ x = Empty
    BY <1>3, <2>1, <2>2, ZenonT(60) DEF Advance
  <2>3. CASE ~Contains(chain, x) /\ x # Empty
    <3>1. Opened /\ x = wroot /\ refCount'[x].cnt = refCount[x].cnt
      BY <1>5, <2>1, <2>3, ZenonT(60) DEF Advance
    <3>2. refCount'[x].cnt = 0
      BY <1>3, <3>1, ZenonT(60)
    <3>3. \A r \in Reader : pc[r] = "held" => h[r] # x
      BY <2>3, ZenonT(60) DEF PinInv, Pinned
    <3>4. Holders(x) = {}
      BY <3>3, ZenonT(60) DEF Holders
    <3> QED BY <3>2, <3>4, ZenonT(60) DEF PinInv, Sizes
  <2> QED BY <2>2, <2>3, ZenonT(60)
<1> QED BY <1>4, <1>5, ZenonT(60)

(* A step of the writer, as seen by the readers. *)
LEMMA AdvanceInv ==
  ASSUME PinInv, RootTypes', Shape', Tags', Ordered', Advance
  PROVE  PinInv'
<1>1. ReaderTypes'
  BY ZenonT(60) DEF PinInv, ReaderTypes, Advance, readerVars
<1>2. Sizes'
  BY ZenonT(60) DEF PinInv, Sizes
<1> QED BY <1>1, <1>2, KnowsOn, PinnedOn, CountsOn, ZenonT(60) DEF PinInv

-----------------------------------------------------------------------------
(* The steps of the writer                                                 *)

(* Taking a root pointer. *)
LEMMA TakePin ==
  ASSUME PinInv, get_write_handle
  PROVE  PinInv'
<1>1. PICK w \in Root :
           /\ wroot' = w /\ ~Contains(chain, w)
           /\ freelist' \in Seq(Root) /\ IsInjective(freelist')
           /\ \A y : Contains(freelist', y) <=> Contains(freelist, y) /\ y # w
           /\ \/ /\ Contains(freelist, w)
                 /\ sequence' = sequence /\ refCount' = refCount
              \/ /\ ~Contains(freelist, w)
                 /\ sequence' = [sequence EXCEPT ![w] = 0]
                 /\ refCount' = [refCount EXCEPT ![w] = Tagged(0, 0)]
  BY TakenRoot, ZenonT(60)
<1>2. /\ wpc = "none" /\ wpc' = "init"
      /\ UNCHANGED <<rootPointer, chain, prootSeq, prev, proot, readerVars>>
  BY ZenonT(60) DEF get_write_handle
<1>3. w \in AnyRoot /\ w # Empty /\ w # NoRoot
  BY RootsAssumption, ZenonT(60) DEF AnyRoot
<1>4. RootTypes /\ Shape /\ Tags /\ Ordered
  BY ZenonT(60) DEF PinInv
<1>5. /\ sequence' \in [AnyRoot -> Nat] /\ refCount' \in [AnyRoot -> Counter]
      /\ \A x \in AnyRoot : x # w => sequence'[x] = sequence[x] /\ refCount'[x] = refCount[x]
      /\ \/ Contains(freelist, w) /\ sequence'[w] = sequence[w] /\ refCount'[w] = refCount[w]
         \/ ~Contains(freelist, w) /\ sequence'[w] = 0 /\ refCount'[w].tag = 0
  <2>1. sequence \in [AnyRoot -> Nat] /\ refCount \in [AnyRoot -> Counter]
    BY <1>4, ZenonT(60) DEF RootTypes
  <2>2. Tagged(0, 0) \in Counter /\ Tagged(0, 0).tag = 0
    BY DEF Counter, Tagged
  <2>3. CASE Contains(freelist, w)
    BY <1>1, <2>1, <2>3, ZenonT(60)
  <2>4. CASE ~Contains(freelist, w)
    <3>1. /\ sequence' = [sequence EXCEPT ![w] = 0]
          /\ refCount' = [refCount EXCEPT ![w] = Tagged(0, 0)]
      BY <1>1, <2>4, ZenonT(60)
    <3> QED BY <1>3, <2>1, <2>2, <2>4, <3>1, ZenonT(60)
  <2> QED BY <2>3, <2>4, ZenonT(60)
<1>6. RootTypes'
  BY <1>1, <1>2, <1>4, <1>5, ZenonT(60) DEF RootTypes, WriterPlaces
<1>7. Shape'
  BY <1>1, <1>2, <1>3, <1>4, ZenonT(60) DEF Shape, Opened
<1>8. /\ \A x : Published(x)' <=> Published(x) \/ x = w
      /\ \A x : Open(x)' <=> Open(x)
      /\ ~Opened' /\ ~Opened
      /\ Contains(freelist, w) => Published(w)
      /\ w # rootPointer /\ ~Open(w)
  <2>1. \A x : Published(x)' <=> Published(x) \/ x = w
    BY <1>1, <1>2, ZenonT(60) DEF Published
  <2>2. w # rootPointer
    BY <1>1, <1>3, <1>4 DEF Shape, Contains, RootTypes
  <2>3. \A x : Open(x)' <=> Open(x)
    BY <1>2, ZenonT(60) DEF Open
  <2>4. ~Opened' /\ ~Opened /\ ~Open(w)
    BY <1>2, <2>2, ZenonT(60) DEF Opened, Open
  <2> QED BY <2>1, <2>2, <2>3, <2>4, ZenonT(60) DEF Published
<1>9. Tags'
  BY <1>4, <1>5, <1>8 DEF Tags
<1>10. /\ \A x : Contains(chain', x) <=> Contains(chain, x)
       /\ \A i \in 1 .. Len(chain) : chain[i] \in AnyRoot /\ chain[i] # w
  <2>1. \A x : Contains(chain', x) <=> Contains(chain, x)
    BY <1>2, ZenonT(60)
  <2>2. \A i \in 1 .. Len(chain) : Contains(chain, chain[i])
    BY ZenonT(60) DEF Contains
  <2> QED BY <1>1, <1>4, <2>1, <2>2, ChainRoots, ZenonT(60)
<1>11. \A x : Contains(chain, x) => x \in AnyRoot /\ x # w
  BY <1>1, <1>4, ChainRoots, ZenonT(60)
<1>12. Empty \in AnyRoot /\ prootSeq \in Nat
  BY <1>4, ZenonT(60) DEF AnyRoot, RootTypes
<1>13. Ordered'
  <2>1. \A x \in AnyRoot : sequence'[x] <= prootSeq'
    BY <1>2, <1>4, <1>5, <1>12, ZenonT(60) DEF Ordered
  <2>2. \A x, y \in AnyRoot : sequence'[x] = sequence'[y] => x = y \/ sequence'[x] = 0
    BY <1>4, <1>5 DEF Ordered
  <2>3. \A i, j \in 1 .. Len(chain') : i < j => sequence'[chain'[j]] < sequence'[chain'[i]]
    BY <1>2, <1>4, <1>5, <1>10, ZenonT(60) DEF Ordered
  <2>4. \A x : Contains(chain', x) => sequence'[x] > 0
    BY <1>4, <1>5, <1>10, <1>11, ZenonT(60) DEF Ordered
  <2>5. sequence'[Empty] = 0
    BY <1>3, <1>4, <1>5, <1>12, ZenonT(60) DEF Ordered
  <2> QED BY <1>8, <2>1, <2>2, <2>3, <2>4, <2>5, ZenonT(60) DEF Ordered
<1>14. Advance
  <2>1. prootSeq <= prootSeq' /\ sequence[rootPointer] <= sequence'[rootPointer']
    BY <1>2, <1>4, <1>5, <1>8, <1>12 DEF RootTypes
  <2>2. ASSUME NEW x \in AnyRoot
        PROVE  /\ sequence'[x] = sequence[x] \/ sequence'[x] = 0 \/ sequence'[x] > prootSeq
               /\ Published(x) /\ sequence'[x] = sequence[x] /\ sequence[x] > 0 => Published(x)'
               /\ Published(x) /\ x = rootPointer' => x = rootPointer
               /\ Contains(chain, x) \/ x = Empty =>
                    sequence'[x] = sequence[x] /\ refCount'[x].cnt = refCount[x].cnt
               /\ Contains(chain, x) /\ refCount[x].cnt # 0 => Contains(chain', x)
               /\ Contains(chain', x) => Contains(chain, x)
    BY <1>2, <1>3, <1>5, <1>8, <1>10, <1>11, ZenonT(60)
  <2> QED BY <1>2, <1>8, <2>1, <2>2, ZenonT(60) DEF Advance
<1> QED BY <1>6, <1>7, <1>9, <1>13, <1>14, AdvanceInv, ZenonT(60)

(* The new version gets its sequence. *)
LEMMA InitRootPin ==
  ASSUME PinInv, InitRoot
  PROVE  PinInv'
<1>1. /\ wpc = "init" /\ wpc' = "open" /\ prev' = rootPointer
      /\ prootSeq' = prootSeq + 1
      /\ UNCHANGED <<rootPointer, chain, freelist, wroot, proot, readerVars>>
  BY ZenonT(60) DEF InitRoot
<1>2. RootTypes /\ Shape /\ Tags /\ Ordered
  BY ZenonT(60) DEF PinInv
<1>3. PICK w \in Root : w = wroot
  BY <1>1, <1>2, ZenonT(60) DEF RootTypes, Shape
<1>4. /\ w \in AnyRoot /\ w # Empty /\ w # NoRoot /\ Empty \in AnyRoot
      /\ prootSeq \in Nat /\ rootPointer \in AnyRoot
  BY <1>2, RootsAssumption, ZenonT(60) DEF AnyRoot, RootTypes
<1>5. /\ sequence' = [sequence EXCEPT ![w] = prootSeq + 1]
      /\ refCount' = [refCount EXCEPT ![w] = Tagged(prootSeq + 1, 0)]
  BY <1>3, ZenonT(60) DEF InitRoot
<1>6. /\ sequence' \in [AnyRoot -> Nat] /\ refCount' \in [AnyRoot -> Counter]
      /\ \A x \in AnyRoot : x # w => sequence'[x] = sequence[x] /\ refCount'[x] = refCount[x]
      /\ sequence'[w] = prootSeq + 1
      /\ refCount'[w].tag = prootSeq + 1 /\ refCount'[w].cnt = 0
  <2>1. sequence \in [AnyRoot -> Nat] /\ refCount \in [AnyRoot -> Counter]
    BY <1>2, ZenonT(60) DEF RootTypes
  <2>2. prootSeq + 1 \in Nat
    BY <1>4
  <2>3. /\ Tagged(prootSeq + 1, 0) \in Counter
        /\ Tagged(prootSeq + 1, 0).tag = prootSeq + 1 /\ Tagged(prootSeq + 1, 0).cnt = 0
    BY <2>2 DEF Counter, Tagged
  <2> QED BY <1>4, <1>5, <2>1, <2>2, <2>3, ZenonT(60)
<1>7. RootTypes'
  BY <1>1, <1>2, <1>4, <1>6, ZenonT(60) DEF RootTypes, WriterPlaces
<1>8. Shape'
  BY <1>1, <1>2, <1>3, <1>4, ZenonT(60) DEF Shape, Opened
<1>9. /\ ~Contains(chain, w) /\ ~Contains(freelist, w) /\ w # rootPointer
  <2>1. ~Contains(chain, w) /\ ~Contains(freelist, w)
    BY <1>1, <1>2, <1>3, ZenonT(60) DEF Shape
  <2>2. w # rootPointer
    BY <1>2, <1>4, <2>1 DEF Shape, Contains, RootTypes
  <2> QED BY <2>1, <2>2, ZenonT(60)
<1>10. /\ \A x : Published(x)' <=> Published(x) /\ x # w
       /\ \A x : Open(x)' <=> Open(x)
       /\ ~Open(w) /\ Opened' /\ wroot' = w
  <2>1. \A x : Published(x)' <=> Published(x) /\ x # w
    BY <1>1, <1>3, <1>9, ZenonT(60) DEF Published
  <2>2. \A x : Open(x)' <=> Open(x)
    BY <1>1, ZenonT(60) DEF Open
  <2>3. ~Open(w) /\ Opened' /\ wroot' = w
    BY <1>1, <1>3, <1>9, ZenonT(60) DEF Open, Opened
  <2> QED BY <2>1, <2>2, <2>3, ZenonT(60)
<1>11. \A x \in AnyRoot : sequence[x] \in Nat /\ sequence[x] < prootSeq + 1
  BY <1>2, <1>4 DEF Ordered, RootTypes
<1>12. Tags'
  BY <1>2, <1>6, <1>10, ZenonT(60) DEF Tags
<1>13. /\ \A x : Contains(chain', x) <=> Contains(chain, x)
       /\ \A i \in 1 .. Len(chain) : chain[i] \in AnyRoot /\ chain[i] # w
  BY <1>1, <1>2, <1>9 DEF Contains, RootTypes, AnyRoot
<1>14. \A x : Contains(chain, x) => x \in AnyRoot /\ x # w
  BY <1>2, <1>9, ChainRoots, ZenonT(60)
<1>15. Ordered'
  <2>1. \A x \in AnyRoot : sequence'[x] <= prootSeq'
    BY <1>1, <1>4, <1>6, <1>11
  <2>2. \A x, y \in AnyRoot : sequence'[x] = sequence'[y] => x = y \/ sequence'[x] = 0
    BY <1>2, <1>6, <1>11 DEF Ordered
  <2>3. \A i, j \in 1 .. Len(chain') : i < j => sequence'[chain'[j]] < sequence'[chain'[i]]
    BY <1>1, <1>2, <1>6, <1>13, ZenonT(60) DEF Ordered
  <2>4. \A x : Contains(chain', x) => sequence'[x] > 0
    BY <1>2, <1>6, <1>13, <1>14, ZenonT(60) DEF Ordered
  <2>5. sequence'[Empty] = 0
    BY <1>2, <1>4, <1>6, ZenonT(60) DEF Ordered
  <2>6. sequence'[wroot'] = prootSeq' /\ prootSeq' > 0
    BY <1>1, <1>4, <1>6, <1>10
  <2> QED BY <2>1, <2>2, <2>3, <2>4, <2>5, <2>6, ZenonT(60) DEF Ordered
<1>16. Advance
  <2>1. prootSeq <= prootSeq' /\ sequence[rootPointer] <= sequence'[rootPointer']
    BY <1>1, <1>4, <1>6, <1>9, <1>11
  <2>2. sequence'[w] > prootSeq /\ sequence'[w] # sequence[w]
    BY <1>4, <1>6, <1>11
  <2>3. ASSUME NEW x \in AnyRoot
        PROVE  /\ sequence'[x] = sequence[x] \/ sequence'[x] = 0 \/ sequence'[x] > prootSeq
               /\ Published(x) /\ sequence'[x] = sequence[x] /\ sequence[x] > 0 => Published(x)'
               /\ Published(x) /\ x = rootPointer' => x = rootPointer
               /\ Contains(chain, x) \/ x = Empty =>
                    sequence'[x] = sequence[x] /\ refCount'[x].cnt = refCount[x].cnt
               /\ Contains(chain, x) /\ refCount[x].cnt # 0 => Contains(chain', x)
               /\ Contains(chain', x) => Contains(chain, x)
    BY <1>1, <1>4, <1>6, <1>10, <1>13, <1>14, <2>2, ZenonT(60)
  <2> QED BY <1>1, <1>6, <1>10, <2>1, <2>3, ZenonT(60) DEF Advance
<1> QED BY <1>7, <1>8, <1>12, <1>15, <1>16, AdvanceInv, ZenonT(60)

(* put_pair, remove_pair, clear and rollback leave the root pointers and   *)
(* the readers alone.                                                      *)
LEMMA WritePin ==
  ASSUME PinInv, Opened, wpc' \in {"open", "end"},
         UNCHANGED <<rootPointer, sequence, refCount, chain, freelist, prootSeq,
                     wroot, prev, proot, readerVars>>
  PROVE  PinInv'
<1>1. RootTypes /\ Shape /\ Tags /\ Ordered
  BY ZenonT(60) DEF PinInv
<1>2. wpc \in {"open", "end"} /\ wpc' \in {"open", "end"} /\ Opened'
  BY ZenonT(60) DEF Opened
<1>3. /\ wpc # "none" /\ wpc' # "none" /\ wpc # "init" /\ wpc' # "init"
      /\ wpc # "flip" /\ wpc' # "flip" /\ wpc # "recycle" /\ wpc' # "recycle"
  BY <1>2, ZenonT(60)
<1>4. RootTypes'
  BY <1>1, <1>2, ZenonT(60) DEF RootTypes, WriterPlaces
<1>5. Shape'
  BY <1>1, <1>2, <1>3, ZenonT(60) DEF Shape, Opened
<1>6. (\A x : Published(x)' <=> Published(x)) /\ (\A x : Open(x)' <=> Open(x))
  BY <1>3, ZenonT(60) DEF Published, Open
<1>7. Tags' /\ Ordered'
  BY <1>1, <1>2, <1>6, ZenonT(60) DEF Tags, Ordered
<1>8. Advance
  <2>1. prootSeq <= prootSeq' /\ sequence[rootPointer] <= sequence'[rootPointer']
    BY <1>1 DEF RootTypes
  <2> QED BY <1>2, <1>6, <2>1, ZenonT(60) DEF Advance
<1> QED BY <1>4, <1>5, <1>7, <1>8, AdvanceInv, ZenonT(60)

(* The end of a handle, which leaves the root pointers alone too. *)
LEMMA ClosePin ==
  ASSUME PinInv, Opened \/ wpc = "recycle", CloseHandle,
         UNCHANGED <<rootPointer, sequence, refCount, chain, freelist, prootSeq, readerVars>>
  PROVE  PinInv'
<1>1. RootTypes /\ Shape /\ Tags /\ Ordered
  BY ZenonT(60) DEF PinInv
<1>2. /\ wpc' = "none" /\ wroot' = NoRoot /\ prev' = NoRoot /\ proot' = NoRoot
      /\ wpc # "init" /\ wpc # "flip" /\ ~Opened'
  BY ZenonT(60) DEF CloseHandle, Opened
<1>3. RootTypes'
  BY <1>1, <1>2, ZenonT(60) DEF RootTypes, WriterPlaces
<1>4. ~Contains(freelist, NoRoot)
  BY <1>1, ChainRoots, RootsAssumption, ZenonT(60)
<1>5. Shape'
  <2>1. wpc' \notin {"init", "open", "end", "flip", "recycle"}
    BY <1>2, ZenonT(60)
  <2> QED BY <1>1, <1>2, <1>4, <2>1, ZenonT(60) DEF Shape, Opened
<1>6. (\A x : Published(x)' <=> Published(x)) /\ (\A x : Open(x)' <=> Open(x))
  <2>1. wpc' # "init" /\ wpc' # "flip"
    BY <1>2, ZenonT(60)
  <2> QED BY <1>2, <2>1, ZenonT(60) DEF Published, Open
<1>7. Tags' /\ Ordered'
  BY <1>1, <1>2, <1>6, ZenonT(60) DEF Tags, Ordered
<1>8. Advance
  <2>1. prootSeq <= prootSeq' /\ sequence[rootPointer] <= sequence'[rootPointer']
    BY <1>1 DEF RootTypes
  <2> QED BY <1>2, <1>6, <2>1, ZenonT(60) DEF Advance
<1> QED BY <1>3, <1>5, <1>7, <1>8, AdvanceInv, ZenonT(60)

(* Publishing a version. *)
LEMMA PublishPin ==
  ASSUME PinInv, publish
  PROVE  PinInv'
<1>1. /\ Opened /\ wpc' = "flip" /\ rootPointer' = wroot
      /\ chain' = IF prev = Empty THEN <<wroot>> ELSE <<wroot>> \o chain
      /\ UNCHANGED <<sequence, refCount, freelist, prootSeq, wroot, prev, proot, readerVars>>
  BY ZenonT(60) DEF publish, Opened
<1>2. RootTypes /\ Shape /\ Tags /\ Ordered
  BY ZenonT(60) DEF PinInv
<1>3. PICK w \in Root :
           /\ w = wroot /\ w # Empty /\ w # NoRoot
           /\ ~Contains(chain, w) /\ ~Contains(freelist, w)
           /\ prev = rootPointer /\ w # rootPointer
           /\ rootPointer = Empty => chain = <<>>
           /\ chain' \in Seq(Root) /\ IsInjective(chain')
           /\ Len(chain') = Len(chain) + 1 /\ chain'[1] = w
           /\ \A i \in 1 .. Len(chain) : chain'[i + 1] = chain[i]
           /\ \A y : Contains(chain', y) <=> Contains(chain, y) \/ y = w
  BY <1>1, PublishChain, ZenonT(60)
<1>4. /\ w \in AnyRoot /\ Empty \in AnyRoot /\ prootSeq \in Nat /\ rootPointer \in AnyRoot
      /\ sequence \in [AnyRoot -> Nat] /\ Len(chain) \in Nat
      /\ wpc \in {"open", "end"}
  BY <1>1, <1>2 DEF AnyRoot, RootTypes, Opened
<1>5. RootTypes'
  BY <1>1, <1>2, <1>3, <1>4, ZenonT(60) DEF RootTypes, WriterPlaces
<1>6. /\ wpc' # "none" /\ wpc' \notin {"init", "open", "end", "recycle"} /\ ~Opened'
      /\ wpc # "none" /\ wpc # "init" /\ wpc # "flip"
  BY <1>1, <1>4, ZenonT(60) DEF Opened
<1>7. rootPointer # Empty => Contains(chain, rootPointer)
  BY <1>2 DEF Shape, Contains, RootTypes
<1>8. Shape'
  <2>1. chain' # <<>>
    BY <1>3, <1>4
  <2>2. \A x : ~(Contains(chain', x) /\ Contains(freelist', x))
    BY <1>1, <1>2, <1>3, ZenonT(60) DEF Shape
  <2>3. prev' = Empty \/ Contains(chain', prev')
    BY <1>1, <1>3, <1>7, ZenonT(60)
  <2> QED BY <1>1, <1>2, <1>3, <1>6, <2>1, <2>2, <2>3, ZenonT(60) DEF Shape
<1>9. /\ \A x : Published(x)' <=> Published(x) \/ x = w
      /\ \A x : Open(x)' <=> Open(x) \/ x = w
      /\ Open(rootPointer)
  <2>1. \A x : Published(x)' <=> Published(x) \/ x = w
    BY <1>1, <1>3, <1>6, ZenonT(60) DEF Published
  <2>2. (\A x : Open(x)' <=> Open(x) \/ x = w) /\ Open(rootPointer)
    BY <1>1, <1>3, <1>6, ZenonT(60) DEF Open
  <2> QED BY <2>1, <2>2, ZenonT(60)
<1>10. /\ refCount[w].tag = sequence[w]
       /\ sequence[w] = prootSeq /\ prootSeq > 0
  BY <1>1, <1>2, <1>3, ZenonT(60) DEF Tags, Ordered
<1>11. Tags'
  BY <1>1, <1>2, <1>6, <1>9, <1>10, ZenonT(60) DEF Tags
<1>12. \A x \in AnyRoot : x # w => sequence[x] < sequence[w]
  BY <1>2, <1>4, <1>10 DEF Ordered
<1>13. \A i \in 1 .. Len(chain) : chain[i] \in AnyRoot /\ chain[i] # w
  <2>1. \A i \in 1 .. Len(chain) : Contains(chain, chain[i])
    BY ZenonT(60) DEF Contains
  <2> QED BY <1>2, <1>3, <2>1, ChainRoots, ZenonT(60)
<1>14. Ordered'
  <2>1. ASSUME NEW i \in 1 .. Len(chain'), NEW j \in 1 .. Len(chain'), i < j
        PROVE  sequence[chain'[j]] < sequence[chain'[i]]
    <3>1. PICK n \in 1 .. Len(chain) : n + 1 = j
      BY <1>3, <1>4, <2>1
    <3>2. chain'[j] = chain[n]
      BY <1>3, <3>1, ZenonT(60)
    <3>3. CASE i = 1
      BY <1>3, <1>12, <1>13, <3>2, <3>3, ZenonT(60)
    <3>4. CASE i # 1
      <4>1. PICK m \in 1 .. Len(chain) : m + 1 = i
        BY <1>3, <1>4, <3>4
      <4>2. m < n /\ chain'[i] = chain[m]
        BY <1>3, <2>1, <3>1, <4>1
      <4> QED BY <1>2, <3>2, <4>2, ZenonT(60) DEF Ordered
    <3> QED BY <3>3, <3>4, ZenonT(60)
  <2>2. \A x : Contains(chain', x) => sequence[x] > 0
    BY <1>2, <1>3, <1>10, ZenonT(60) DEF Ordered
  <2> QED BY <1>1, <1>2, <1>6, <2>1, <2>2, ZenonT(60) DEF Ordered
<1>15. Advance
  <2>1. prootSeq <= prootSeq' /\ sequence[rootPointer] <= sequence'[rootPointer']
    BY <1>1, <1>3, <1>4, <1>12
  <2>2. ~Published(w)
    BY <1>3, <1>6, ZenonT(60) DEF Published
  <2>3. ASSUME NEW x \in AnyRoot
        PROVE  /\ Published(x) => Published(x)'
               /\ Published(x) /\ x = rootPointer' => x = rootPointer
               /\ Contains(chain, x) => Contains(chain', x)
               /\ Contains(chain', x) => Contains(chain, x) \/ (Opened /\ x = wroot)
    BY <1>1, <1>3, <1>9, <2>2, ZenonT(60)
  <2>4. sequence' = sequence /\ refCount' = refCount /\ rootPointer' # Empty
    BY <1>1, <1>3, ZenonT(60)
  <2> QED BY <1>1, <1>6, <2>1, <2>3, <2>4, ZenonT(60) DEF Advance
<1> QED BY <1>5, <1>8, <1>11, <1>14, <1>15, AdvanceInv, ZenonT(60)

(* Complementing the tag of the version just replaced. *)
LEMMA FlipPin ==
  ASSUME PinInv, flip
  PROVE  PinInv'
<1>1. /\ wpc = "flip" /\ wpc' = "recycle" /\ proot' = chain[Len(chain)]
      /\ UNCHANGED <<rootPointer, sequence, chain, freelist, prootSeq, wroot, prev, readerVars>>
      /\ refCount' = [refCount EXCEPT ![prev].tag = -@ - 1]
  BY ZenonT(60) DEF flip, allocVars
<1>2. RootTypes /\ Shape /\ Tags /\ Ordered
  BY ZenonT(60) DEF PinInv
<1>3. /\ wroot = rootPointer /\ wroot # NoRoot /\ prev # rootPointer
      /\ prev = Empty \/ Contains(chain, prev)
  BY <1>1, <1>2, ZenonT(60) DEF Shape
<1>4. /\ prev \in AnyRoot /\ rootPointer # Empty /\ chain # <<>>
  <2>1. prev \in AnyRoot
    BY <1>2, <1>3, ChainRoots, ZenonT(60) DEF AnyRoot
  <2>2. rootPointer \in Root
    BY <1>2, <1>3, ZenonT(60) DEF RootTypes
  <2> QED BY <1>2, <2>1, <2>2, RootsAssumption, ZenonT(60) DEF Shape
<1>5. refCount[prev].tag = sequence[prev] /\ sequence[prev] \in Nat
  BY <1>1, <1>2, <1>4, ZenonT(60) DEF Tags, Open, RootTypes
<1>6. /\ refCount' \in [AnyRoot -> Counter]
      /\ \A x \in AnyRoot : x # prev => refCount'[x] = refCount[x]
      /\ refCount'[prev].tag < 0 /\ refCount'[prev].cnt = refCount[prev].cnt
  <2>1. refCount \in [AnyRoot -> Counter] /\ refCount[prev] \in Counter
    BY <1>2, <1>4, ZenonT(60) DEF RootTypes
  <2> QED BY <1>1, <1>4, <1>5, <2>1 DEF Counter
<1>7. Contains(chain, proot') /\ proot' \in AnyRoot
  <2>1. Len(chain) \in 1 .. Len(chain) /\ chain \in Seq(Root)
    BY <1>2, <1>4 DEF RootTypes
  <2> QED BY <1>1, <2>1 DEF Contains, AnyRoot
<1>8. RootTypes'
  BY <1>1, <1>2, <1>6, <1>7, ZenonT(60) DEF RootTypes, WriterPlaces
<1>9. wpc' \notin {"none", "init", "open", "end", "flip"} /\ ~Opened' /\ ~Opened /\ wpc # "init"
  BY <1>1, ZenonT(60) DEF Opened
<1>10. Shape'
  BY <1>1, <1>2, <1>3, <1>7, <1>9, ZenonT(60) DEF Shape
<1>11. /\ \A x : Published(x)' <=> Published(x)
       /\ \A x : Open(x)' <=> Open(x) /\ x # prev
  <2>1. \A x : Published(x)' <=> Published(x)
    BY <1>1, <1>9, ZenonT(60) DEF Published
  <2>2. \A x : Open(x)' <=> Open(x) /\ x # prev
    BY <1>1, <1>3, ZenonT(60) DEF Open
  <2> QED BY <2>1, <2>2, ZenonT(60)
<1>12. Tags'
  <2>1. ~(refCount'[prev].tag >= 0) /\ ~(refCount'[prev].tag > 0)
    <3>1. refCount'[prev].tag \in Int
      BY <1>4, <1>6, ZenonT(60) DEF Counter
    <3> QED BY <1>6, <3>1
  <2> QED BY <1>1, <1>2, <1>6, <1>9, <1>11, <2>1, ZenonT(60) DEF Tags
<1>13. Ordered'
  BY <1>1, <1>2, <1>9, ZenonT(60) DEF Ordered
<1>14. Advance
  <2>1. prootSeq <= prootSeq' /\ sequence[rootPointer] <= sequence'[rootPointer']
    BY <1>1, <1>2 DEF RootTypes
  <2>2. \A x \in AnyRoot : refCount'[x].cnt = refCount[x].cnt
    BY <1>6, ZenonT(60)
  <2> QED BY <1>1, <1>9, <1>11, <2>1, <2>2, ZenonT(60) DEF Advance
<1> QED BY <1>8, <1>10, <1>12, <1>13, <1>14, AdvanceInv, ZenonT(60)

(* A round of the recycling loop. *)
LEMMA RecyclePin ==
  ASSUME PinInv, recycle
  PROVE  PinInv'
<1>1. /\ wpc = "recycle" /\ proot # rootPointer /\ proot' = chain[Place(proot) - 1]
      /\ UNCHANGED <<rootPointer, sequence, refCount, prootSeq, wpc, wroot, prev, readerVars>>
  BY ZenonT(60) DEF recycle
<1>2. RootTypes /\ Shape /\ Tags /\ Ordered
  BY ZenonT(60) DEF PinInv
<1>3. /\ Contains(chain, proot) /\ proot \in AnyRoot
      /\ Contains(chain, proot') /\ proot' # proot
  BY <1>1, RecyclePlace, ZenonT(60)
<1>4. proot' \in AnyRoot
  BY <1>2, <1>3, ChainRoots, ZenonT(60)
<1>5. \/ chain' = chain /\ freelist' = freelist
      \/ /\ refCount[proot].cnt = 0
         /\ chain' = RemoveFirst(chain, proot) /\ freelist' = Append(freelist, proot)
  BY ZenonT(60) DEF recycle
<1>6. ~Opened /\ ~Opened' /\ wpc # "init" /\ wpc' # "init" /\ wpc # "flip" /\ wpc' # "flip"
  BY <1>1, ZenonT(60) DEF Opened
<1>7. \A x : Open(x)' <=> Open(x)
  BY <1>1, <1>6, ZenonT(60) DEF Open
<1>8. prootSeq <= prootSeq' /\ sequence[rootPointer] <= sequence'[rootPointer']
  BY <1>1, <1>2 DEF RootTypes
<1>9. CASE chain' = chain /\ freelist' = freelist
  <2>1. RootTypes' 
    BY <1>1, <1>2, <1>4, <1>9, ZenonT(60) DEF RootTypes
  <2>2. Shape'
    BY <1>1, <1>2, <1>3, <1>6, <1>9, ZenonT(60) DEF Shape, Opened
  <2>3. \A x : Published(x)' <=> Published(x)
    BY <1>1, <1>9, ZenonT(60) DEF Published
  <2>4. Tags' /\ Ordered'
    BY <1>1, <1>2, <1>6, <1>7, <1>9, <2>3, ZenonT(60) DEF Tags, Ordered
  <2>5. Advance
    BY <1>1, <1>6, <1>8, <1>9, <2>3, ZenonT(60) DEF Advance
  <2> QED BY <2>1, <2>2, <2>4, <2>5, AdvanceInv, ZenonT(60)
<1>10. CASE /\ refCount[proot].cnt = 0
            /\ chain' = RemoveFirst(chain, proot) /\ freelist' = Append(freelist, proot)
  <2>1. /\ chain' \in Seq(Root) /\ IsInjective(chain')
        /\ freelist' \in Seq(Root) /\ IsInjective(freelist')
        /\ \A y : Contains(chain', y) <=> Contains(chain, y) /\ y # proot
        /\ \A y : Contains(freelist', y) <=> Contains(freelist, y) \/ y = proot
        /\ chain' # <<>> /\ chain'[1] = chain[1] /\ chain # <<>>
        /\ Len(chain') = Len(chain) - 1
        /\ \A i \in 1 .. (Len(chain) - 1) :
             chain'[i] = IF i < Place(proot) THEN chain[i] ELSE chain[i + 1]
    BY <1>1, <1>10, RecycleChain, ZenonT(60)
  <2>2. RootTypes'
    BY <1>1, <1>2, <1>4, <2>1, ZenonT(60) DEF RootTypes
  <2>3. Shape'
    <3>1. \A x : ~(Contains(chain', x) /\ Contains(freelist', x))
      BY <1>2, <2>1, ZenonT(60) DEF Shape
    <3>2. Contains(chain', proot') /\ ~Contains(freelist', wroot')
      BY <1>1, <1>2, <1>3, <2>1, ZenonT(60) DEF Shape
    <3>3. wpc' # "none" /\ wpc' \notin {"init", "open", "end"} /\ wpc # "none"
      BY <1>1, ZenonT(60)
    <3> QED BY <1>1, <1>2, <1>6, <2>1, <3>1, <3>2, <3>3, ZenonT(60) DEF Shape
  <2>4. \A x : Published(x)' <=> Published(x)
    BY <1>1, <1>3, <2>1, ZenonT(60) DEF Published
  <2>5. Tags'
    BY <1>1, <1>2, <1>6, <1>7, <2>4, ZenonT(60) DEF Tags
  <2>6. Ordered'
    <3>1. ASSUME NEW i \in 1 .. Len(chain'), NEW j \in 1 .. Len(chain'), i < j
          PROVE  sequence[chain'[j]] < sequence[chain'[i]]
      <4>1. PICK k \in 2 .. Len(chain) : k = Place(proot)
        BY <1>1, RecyclePlace, ZenonT(60)
      <4>2. Len(chain) \in Nat
        BY <1>2 DEF RootTypes
      <4> DEFINE m == IF i < k THEN i ELSE i + 1
                 n == IF j < k THEN j ELSE j + 1
      <4>3. chain'[i] = chain[m] /\ chain'[j] = chain[n]
        BY <2>1, <4>1, ZenonT(60)
      <4>4. m \in 1 .. Len(chain) /\ n \in 1 .. Len(chain) /\ m < n
        BY <2>1, <3>1, <4>1, <4>2
      <4> HIDE DEF m, n
      <4> QED BY <1>2, <4>3, <4>4, ZenonT(60) DEF Ordered
    <3> QED BY <1>1, <1>2, <1>6, <2>1, <3>1, ZenonT(60) DEF Ordered
  <2>7. Advance
    BY <1>1, <1>6, <1>8, <1>10, <2>1, <2>4, ZenonT(60) DEF Advance
  <2> QED BY <2>2, <2>3, <2>5, <2>6, <2>7, AdvanceInv, ZenonT(60)
<1> QED BY <1>5, <1>9, <1>10, ZenonT(60)

(* What no step of a reader changes. *)
Still ==
  /\ UNCHANGED <<rootPointer, sequence, chain, freelist, prootSeq, wpc, wroot, prev, proot>>
  /\ refCount' \in [AnyRoot -> Counter]
  /\ \A x \in AnyRoot : refCount'[x].tag = refCount[x].tag

(* Only reader r moves. *)
Alone(r) ==
  \A d \in Reader \ {r} :
    /\ pc'[d] = pc[d] /\ q'[d] = q[d] /\ old'[d] = old[d] /\ h'[d] = h[d]
    /\ asked'[d] = asked[d]

(* A step of a reader leaves the lists of root pointers alone. *)
LEMMA StillRoots ==
  ASSUME PinInv, Still
  PROVE  /\ RootTypes' /\ Shape' /\ Tags' /\ Ordered'
         /\ \A x : (Published(x)' <=> Published(x)) /\ (Open(x)' <=> Open(x))
<1>1. RootTypes /\ Shape /\ Tags /\ Ordered
  BY ZenonT(60) DEF PinInv
<1>2. UNCHANGED <<rootPointer, sequence, chain, freelist, prootSeq, wpc, wroot, prev, proot>>
  BY ZenonT(60) DEF Still
<1>3. RootTypes'
  BY <1>1, <1>2, ZenonT(60) DEF RootTypes, Still
<1>4. Opened' <=> Opened
  BY <1>2, ZenonT(60) DEF Opened
<1>5. Shape'
  BY <1>1, <1>2, <1>4, ZenonT(60) DEF Shape
<1>6. \A x : (Published(x)' <=> Published(x)) /\ (Open(x)' <=> Open(x))
  BY <1>2, ZenonT(60) DEF Published, Open
<1>7. Ordered'
  BY <1>1, <1>2, <1>4, ZenonT(60) DEF Ordered
<1>8. Opened => wroot \in AnyRoot
  BY <1>1, ZenonT(60) DEF Opened, RootTypes, Shape, AnyRoot
<1>9. Tags'
  BY <1>1, <1>2, <1>4, <1>6, <1>8, ZenonT(60) DEF Tags, Still
<1> QED BY <1>3, <1>5, <1>6, <1>7, <1>9, ZenonT(60)

(* What the other readers know is not affected. *)
LEMMA OthersOn ==
  ASSUME PinInv, Still, NEW r \in Reader, Alone(r), ~stray' => ~stray,
         NEW d \in Reader, d # r
  PROVE  Knows(d)' /\ Local(d)' /\ Pinned(d)'
<1>1. UNCHANGED <<rootPointer, sequence, chain, freelist, prootSeq, wpc, wroot, prev, proot>>
  BY ZenonT(60) DEF Still
<1>2. \A x : Published(x)' <=> Published(x)
  BY StillRoots, ZenonT(60)
<1>3. /\ pc'[d] = pc[d] /\ q'[d] = q[d] /\ old'[d] = old[d] /\ h'[d] = h[d]
      /\ asked'[d] = asked[d]
  BY ZenonT(60) DEF Alone
<1>4. Knows(d) /\ Local(d) /\ Pinned(d)
  BY ZenonT(60) DEF PinInv
<1>5. Published(q[d])' <=> Published(q[d])
  BY <1>1, <1>3, ZenonT(60) DEF Published
<1>6. Knows(d)'
  BY <1>1, <1>2, <1>3, <1>4, <1>5, ZenonT(60) DEF Knows
<1>7. Local(d)'
  BY <1>1, <1>3, <1>4, ZenonT(60) DEF Local
<1>8. Pinned(d)'
  BY <1>1, <1>3, <1>4, ZenonT(60) DEF Pinned
<1> QED BY <1>6, <1>7, <1>8, ZenonT(60)

(* A step of a reader preserves the invariant if it does so for the reader *)
(* itself and for the counts.                                              *)
LEMMA ReaderInv ==
  ASSUME PinInv, Still, NEW r \in Reader, Alone(r), ~stray' => ~stray, ReaderTypes',
         Knows(r)', Local(r)', Pinned(r)', Counts'
  PROVE  PinInv'
<1>1. Sizes'
  BY ZenonT(60) DEF PinInv, Sizes
<1>2. \A d \in Reader : Knows(d)' /\ Local(d)' /\ Pinned(d)'
  BY OthersOn, ZenonT(60)
<1> QED BY <1>1, <1>2, StillRoots, ZenonT(60) DEF PinInv

(* A step that neither pins nor lets go. *)
LEMMA QuietInv ==
  ASSUME PinInv, NEW r \in Reader, ReaderUnchanged,
         ReaderTypes', Alone(r), pc[r] # "held", pc'[r] # "held", Knows(r)', Local(r)'
  PROVE  PinInv'
<1>1. /\ UNCHANGED <<rootPointer, sequence, refCount, chain, freelist, prootSeq,
                     wpc, wroot, prev, proot, stray>>
  BY ZenonT(60) DEF ReaderUnchanged, rootVars, allocVars, writerVars
<1>2. Still
  BY <1>1, ZenonT(60) DEF Still, PinInv, RootTypes
<1>3. \A d \in Reader : (pc'[d] = "held" <=> pc[d] = "held") /\ (pc[d] = "held" => h'[d] = h[d])
  BY ZenonT(60) DEF Alone
<1>4. \A x : Holders(x)' = Holders(x)
  BY <1>3, ZenonT(60) DEF Holders
<1>5. Opened' <=> Opened
  BY <1>1, ZenonT(60) DEF Opened
<1>6. Counts'
  BY <1>1, <1>4, <1>5, ZenonT(60) DEF Counts, PinInv
<1>7. Pinned(r)'
  BY ZenonT(60) DEF Pinned
<1> QED BY <1>1, <1>2, <1>6, <1>7, ReaderInv, ZenonT(60)

(* A round of get_read_handle that failed. *)
LEMMA AgainPin ==
  ASSUME PinInv, NEW r \in Reader, pc[r] # "held", Again(r), asked' = asked, ReaderUnchanged
  PROVE  PinInv'
<1>1. /\ pc' = [pc EXCEPT ![r] = "again"] /\ q' = [q EXCEPT ![r] = NoRoot]
      /\ old' = [old EXCEPT ![r] = Tagged(0, 0)] /\ h' = [h EXCEPT ![r] = NoRoot]
  BY ZenonT(60) DEF Again, Goto
<1>2. RootTypes /\ ReaderTypes /\ Local(r)
  BY ZenonT(60) DEF PinInv
<1>3. ReaderTypes' /\ Alone(r)
  BY <1>1, <1>2 DEF ReaderTypes, Alone, ReaderPlaces, Counter, Tagged
<1>4. /\ pc'[r] = "again" /\ q'[r] = NoRoot /\ h'[r] = NoRoot /\ asked'[r] = asked[r]
      /\ old'[r].tag = 0
  BY <1>1, <1>2, ZenonT(60) DEF ReaderTypes, Tagged
<1>5. UNCHANGED <<rootPointer, sequence, prootSeq>>
  BY ZenonT(60) DEF ReaderUnchanged, rootVars, allocVars
<1>6. prootSeq \in Nat /\ Empty # NoRoot
  BY <1>2, RootsAssumption, ZenonT(60) DEF RootTypes
<1>7. Knows(r)'
  BY <1>4, <1>5, <1>6 DEF Knows
<1>8. Local(r)'
  BY <1>2, <1>4, <1>5, <1>6, ZenonT(60) DEF Local
<1> QED BY <1>3, <1>4, <1>7, <1>8, QuietInv, ZenonT(60)

(* The call begins, or goes round again. *)
LEMMA LoadForCountPin ==
  ASSUME PinInv, NEW r \in Reader, LoadForCount(r)
  PROVE  PinInv'
<1>1. /\ pc[r] \in {"idle", "again"}
      /\ q' = [q EXCEPT ![r] = rootPointer] /\ pc' = [pc EXCEPT ![r] = "count"]
      /\ asked' = [asked EXCEPT ![r] = IF pc[r] = "idle" THEN sequence[rootPointer] ELSE @]
      /\ old' = old /\ h' = h /\ ReaderUnchanged
  BY ZenonT(60) DEF LoadForCount, Load, Goto
<1>2. UNCHANGED <<rootPointer, sequence, prootSeq>>
  BY <1>1, ZenonT(60) DEF ReaderUnchanged, rootVars, allocVars
<1>3. ReaderTypes' /\ Alone(r)
  BY <1>1, ReaderFacts, ZenonT(60) DEF ReaderTypes, Alone, ReaderPlaces
<1>4. /\ pc'[r] = "count" /\ q'[r] = rootPointer /\ h'[r] = NoRoot
      /\ asked'[r] \in {asked[r], sequence[rootPointer]}
  BY <1>1, ReaderFacts, ZenonT(60) DEF Local
<1>5. Knows(r)'
  BY <1>1, <1>2, <1>4, ReaderFacts, ZenonT(60) DEF Knows
<1>6. asked'[r] <= sequence[rootPointer] /\ (rootPointer = Empty => asked'[r] = 0)
  BY <1>4, ReaderFacts
<1>7. Local(r)'
  BY <1>2, <1>4, <1>6, ReaderFacts, ZenonT(60) DEF Local
<1> QED BY <1>1, <1>3, <1>4, <1>5, <1>7, QuietInv, ZenonT(60)

(* The reader reads ref_count_ of the root pointer it loaded. *)
LEMMA ReadCountPin ==
  ASSUME PinInv, NEW r \in Reader, ReadCount(r)
  PROVE  PinInv'
<1>1. /\ pc[r] = "count"
      /\ old' = [old EXCEPT ![r] = refCount[q[r]]] /\ pc' = [pc EXCEPT ![r] = "handle"]
      /\ q' = q /\ h' = h /\ asked' = asked /\ ReaderUnchanged
  BY ZenonT(60) DEF ReadCount, Goto
<1>2. UNCHANGED <<rootPointer, sequence, prootSeq>>
  BY <1>1, ZenonT(60) DEF ReaderUnchanged, rootVars, allocVars
<1>3. q[r] \in AnyRoot
  BY <1>1, ReaderFacts, ZenonT(60) DEF Local
<1>4. refCount[q[r]] \in Counter /\ refCount[q[r]].tag <= prootSeq
  <2>1. refCount[q[r]] \in Counter /\ refCount[q[r]].tag \in Int
    BY <1>3, ZenonT(60) DEF PinInv, RootTypes, Counter
  <2>2. refCount[q[r]].tag >= 0 => refCount[q[r]].tag = sequence[q[r]]
    BY <1>3, ZenonT(60) DEF PinInv, Tags
  <2>3. sequence[q[r]] <= prootSeq
    BY <1>3, ZenonT(60) DEF PinInv, Ordered
  <2> QED BY <2>1, <2>2, <2>3, ReaderFacts
<1>5. ReaderTypes' /\ Alone(r)
  BY <1>1, <1>4, ReaderFacts, ZenonT(60) DEF ReaderTypes, Alone, ReaderPlaces
<1>6. pc'[r] = "handle" /\ old'[r] = refCount[q[r]]
  BY <1>1, ReaderFacts, ZenonT(60)
<1>7. Knows(r)'
  BY <1>2, <1>4, <1>6, ZenonT(60) DEF Knows
<1>8. Local(r)'
  BY <1>1, <1>2, <1>6, ReaderFacts, ZenonT(60) DEF Local
<1> QED BY <1>1, <1>5, <1>6, <1>7, <1>8, QuietInv, ZenonT(60)

(* The root pointer goes into the handle. *)
LEMMA LoadHandlePin ==
  ASSUME PinInv, NEW r \in Reader, LoadHandle(r)
  PROVE  PinInv'
<1>1. /\ pc[r] = "handle"
      /\ q' = [q EXCEPT ![r] = rootPointer] \/ q' = q
      /\ h' = [h EXCEPT ![r] = q'[r]] /\ pc' = [pc EXCEPT ![r] = "tag"]
      /\ old' = old /\ asked' = asked /\ ReaderUnchanged
  BY ZenonT(60) DEF LoadHandle, LoadOrReuse, Load, Goto
<1>2. UNCHANGED <<rootPointer, sequence, prootSeq>>
  BY <1>1, ZenonT(60) DEF ReaderUnchanged, rootVars, allocVars
<1>3. q[r] \in AnyRoot /\ q'[r] \in {q[r], rootPointer}
  BY <1>1, ReaderFacts, ZenonT(60) DEF Local
<1>4. q' \in [Reader -> AnyRoot \cup {NoRoot}] /\ \A d \in Reader \ {r} : q'[d] = q[d]
  BY <1>1, ReaderFacts, ZenonT(60)
<1>5. ReaderTypes' /\ Alone(r)
  BY <1>1, <1>4, ReaderFacts, ZenonT(60) DEF ReaderTypes, Alone, ReaderPlaces
<1>6. pc'[r] = "tag" /\ h'[r] = q'[r] /\ q'[r] # NoRoot
  BY <1>1, <1>3, ReaderFacts, ZenonT(60)
<1>7. Knows(r)'
  BY <1>1, <1>2, <1>6, ReaderFacts, ZenonT(60) DEF Knows
<1>8. /\ rootPointer = Empty => q'[r] = Empty
      /\ q'[r] = Empty => asked[r] = 0
  BY <1>3, ReaderFacts, ZenonT(60) DEF Local
<1>9. Local(r)'
  BY <1>1, <1>2, <1>6, <1>8, ReaderFacts, ZenonT(60) DEF Local
<1> QED BY <1>1, <1>5, <1>6, <1>7, <1>9, QuietInv, ZenonT(60)

(* root_pointer_ is loaded again for its sequence. *)
LEMMA LoadForTagPin ==
  ASSUME PinInv, NEW r \in Reader, LoadForTag(r)
  PROVE  PinInv'
<1>1. /\ pc[r] = "tag"
      /\ q' = [q EXCEPT ![r] = rootPointer] /\ pc' = [pc EXCEPT ![r] = "compare"]
      /\ old' = old /\ h' = h /\ asked' = asked /\ ReaderUnchanged
  BY ZenonT(60) DEF LoadForTag, Load, Goto
<1>2. UNCHANGED <<rootPointer, sequence, prootSeq, chain, freelist, wpc, wroot>>
  BY <1>1, ZenonT(60) DEF ReaderUnchanged, rootVars, allocVars, writerVars
<1>3. ReaderTypes' /\ Alone(r)
  BY <1>1, ReaderFacts, ZenonT(60) DEF ReaderTypes, Alone, ReaderPlaces
<1>4. pc'[r] = "compare" /\ q'[r] = rootPointer
  BY <1>1, ReaderFacts, ZenonT(60)
<1>5. sequence[rootPointer] > 0 => Contains(chain, rootPointer)
  <2>1. rootPointer # Empty => Contains(chain, rootPointer)
    <3>1. chain \in Seq(Root) /\ rootPointer = IF chain = <<>> THEN Empty ELSE chain[1]
      BY ZenonT(60) DEF PinInv, RootTypes, Shape
    <3>2. chain # <<>> => 1 \in 1 .. Len(chain)
      BY <3>1
    <3> QED BY <3>1, <3>2, ZenonT(60) DEF Contains
  <2> QED BY <2>1, ReaderFacts
<1>6. Contains(chain', q'[r]) => Published(q[r])'
  BY ZenonT(60) DEF Published
<1>7. Knows(r)'
  BY <1>1, <1>2, <1>4, <1>5, <1>6, ReaderFacts, ZenonT(60) DEF Knows
<1>8. /\ rootPointer = Empty => h[r] \in {NoRoot, Empty} /\ asked[r] = 0
      /\ h[r] # NoRoot
  BY <1>1, ReaderFacts, ZenonT(60) DEF Local
<1>9. Local(r)'
  BY <1>1, <1>2, <1>4, <1>8, ReaderFacts, ZenonT(60) DEF Local
<1> QED BY <1>1, <1>3, <1>4, <1>7, <1>9, QuietInv, ZenonT(60)

(* The tag read at first is compared with the sequence. *)
LEMMA CompareTagPin ==
  ASSUME PinInv, NEW r \in Reader, CompareTag(r)
  PROVE  PinInv'
<1>1. /\ pc[r] = "compare" /\ asked' = asked /\ ReaderUnchanged
      /\ IF old[r].tag = sequence[q[r]]
         THEN pc' = [pc EXCEPT ![r] = "same"] /\ q' = q /\ old' = old /\ h' = h
         ELSE Again(r)
  BY ZenonT(60) DEF CompareTag, Goto
<1>2. CASE old[r].tag # sequence[q[r]]
  BY <1>1, <1>2, AgainPin, ZenonT(60)
<1>3. CASE old[r].tag = sequence[q[r]]
  <2>1. pc' = [pc EXCEPT ![r] = "same"] /\ q' = q /\ old' = old /\ h' = h
    BY <1>1, <1>3, ZenonT(60)
  <2>2. UNCHANGED <<rootPointer, sequence, prootSeq, chain, freelist, wpc, wroot>>
    BY <1>1, ZenonT(60) DEF ReaderUnchanged, rootVars, allocVars, writerVars
  <2>3. ReaderTypes' /\ Alone(r)
    BY <1>1, <2>1, ReaderFacts, ZenonT(60) DEF ReaderTypes, Alone, ReaderPlaces
  <2>4. pc'[r] = "same"
    BY <2>1, ReaderFacts, ZenonT(60)
  <2>5. q[r] \in AnyRoot /\ sequence[q[r]] \in Nat
    BY <1>1, ReaderFacts DEF Local
  <2>6. \A x \in AnyRoot : sequence[x] = sequence[q[r]] => x = q[r] \/ sequence[x] = 0
    BY <2>5, ZenonT(60) DEF PinInv, Ordered
  <2>7. \A x : Published(x)' <=> Published(x)
    BY <2>2, ZenonT(60) DEF Published
  <2>8. old[r].tag > 0 => Published(q[r]) /\ asked[r] <= old[r].tag
    BY <1>1, <1>3, ReaderFacts, ZenonT(60) DEF Knows
  <2>9. ASSUME old[r].tag > 0, NEW x \in AnyRoot, sequence[x] = old[r].tag
        PROVE  Published(x)' /\ x = q[r]
    <3>1. x = q[r]
      BY <1>3, <2>6, <2>9, ReaderFacts
    <3>2. Published(x)
      BY <2>8, <2>9, <3>1, ZenonT(60)
    <3> QED BY <2>7, <3>1, <3>2, ZenonT(60)
  <2>10. Knows(r)'
    <3>1. old[r].tag >= 0
      BY <1>3, <2>5
    <3>2. pc'[r] # "compare" /\ pc'[r] # "target" /\ pc'[r] # "cas"
      BY <2>4, ZenonT(60)
    <3>3. old[r].tag <= prootSeq
      BY ReaderFacts, ZenonT(60)
    <3> QED BY <1>1, <2>1, <2>2, <2>4, <2>8, <2>9, <3>1, <3>2, <3>3, ZenonT(60)
               DEF Knows
  <2>11. Local(r)'
    BY <1>1, <2>1, <2>2, <2>4, ReaderFacts, ZenonT(60) DEF Local
  <2> QED BY <1>1, <2>3, <2>4, <2>10, <2>11, QuietInv, ZenonT(60)
<1> QED BY <1>2, <1>3, ZenonT(60)

(* The root pointer of the handle is compared with root_pointer_. *)
LEMMA CompareRootPin ==
  ASSUME PinInv, NEW r \in Reader, CompareRoot(r)
  PROVE  PinInv'
<1>1. /\ pc[r] = "same" /\ asked' = asked /\ ReaderUnchanged
      /\ \/ /\ q' = [q EXCEPT ![r] = rootPointer] \/ q' = q
            /\ h[r] = q'[r] /\ pc' = [pc EXCEPT ![r] = "target"] /\ old' = old /\ h' = h
         \/ Again(r)
  BY ZenonT(60) DEF CompareRoot, LoadOrReuse, Load, Goto
<1>2. CASE Again(r)
  BY <1>1, <1>2, AgainPin, ZenonT(60)
<1>3. CASE /\ q' = [q EXCEPT ![r] = rootPointer] \/ q' = q
           /\ h[r] = q'[r] /\ pc' = [pc EXCEPT ![r] = "target"] /\ old' = old /\ h' = h
  <2>1. UNCHANGED <<rootPointer, sequence, prootSeq, chain, freelist, wpc, wroot>>
    BY <1>1, ZenonT(60) DEF ReaderUnchanged, rootVars, allocVars, writerVars
  <2>2. q[r] \in AnyRoot /\ q'[r] \in {q[r], rootPointer} /\ q'[r] # NoRoot
    BY <1>1, <1>3, ReaderFacts, ZenonT(60) DEF Local
  <2>3. q' \in [Reader -> AnyRoot \cup {NoRoot}] /\ \A d \in Reader \ {r} : q'[d] = q[d]
    BY <1>3, ReaderFacts, ZenonT(60)
  <2>4. ReaderTypes' /\ Alone(r)
    BY <1>1, <1>3, <2>3, ReaderFacts, ZenonT(60)
       DEF ReaderTypes, Alone, ReaderPlaces
  <2>5. pc'[r] = "target"
    BY <1>3, ReaderFacts, ZenonT(60)
  <2>6. \A x : Published(x)' <=> Published(x)
    BY <2>1, ZenonT(60) DEF Published
  <2>7. /\ old[r].tag >= 0
        /\ old[r].tag > 0 => asked[r] <= old[r].tag
        /\ old[r].tag > 0 => \A x \in AnyRoot : sequence[x] = old[r].tag =>
             Published(x) /\ x = q[r]
    BY <1>1, ReaderFacts, ZenonT(60) DEF Knows
  <2>8. ASSUME old[r].tag > 0, NEW x \in AnyRoot, sequence[x] = old[r].tag
        PROVE  Published(x)' /\ (x = h[r] \/ (x # q'[r] /\ x # rootPointer))
    <3>1. Published(x) /\ x = q[r]
      BY <2>7, <2>8, ZenonT(60)
    <3>2. x = h[r] \/ (x # q'[r] /\ x # rootPointer)
      BY <1>3, <2>2, <3>1, ZenonT(60)
    <3> QED BY <2>6, <3>1, <3>2, ZenonT(60)
  <2>9. Knows(r)'
    <3>1. pc'[r] # "compare" /\ pc'[r] # "same" /\ pc'[r] # "cas"
      BY <2>5, ZenonT(60)
    <3>2. old[r].tag <= prootSeq
      BY ReaderFacts, ZenonT(60)
    <3> QED BY <1>1, <1>3, <2>1, <2>5, <2>7, <2>8, <3>1, <3>2, ZenonT(60) DEF Knows
  <2>10. /\ rootPointer = Empty => q'[r] = Empty
         /\ q'[r] = Empty => asked[r] = 0
    BY <2>2, ReaderFacts, ZenonT(60) DEF Local
  <2>11. Local(r)'
    BY <1>1, <1>3, <2>1, <2>2, <2>5, <2>10, ReaderFacts, ZenonT(60) DEF Local
  <2> QED BY <1>1, <2>4, <2>5, <2>9, <2>11, QuietInv, ZenonT(60)
<1> QED BY <1>1, <1>2, <1>3, ZenonT(60)

(* root_pointer_ is loaded for refcas. *)
LEMMA LoadTargetPin ==
  ASSUME PinInv, NEW r \in Reader, LoadTarget(r)
  PROVE  PinInv'
<1>1. /\ pc[r] = "target" /\ asked' = asked /\ ReaderUnchanged
      /\ q' = [q EXCEPT ![r] = rootPointer] \/ q' = q
      /\ pc' = [pc EXCEPT ![r] = "cas"] /\ old' = old /\ h' = h
  BY ZenonT(60) DEF LoadTarget, LoadOrReuse, Load, Goto
<1>2. UNCHANGED <<rootPointer, sequence, prootSeq, chain, freelist, wpc, wroot>>
  BY <1>1, ZenonT(60) DEF ReaderUnchanged, rootVars, allocVars, writerVars
<1>3. q[r] \in AnyRoot /\ q'[r] \in {q[r], rootPointer} /\ q'[r] # NoRoot
  BY <1>1, ReaderFacts, ZenonT(60) DEF Local
<1>4. q' \in [Reader -> AnyRoot \cup {NoRoot}] /\ \A d \in Reader \ {r} : q'[d] = q[d]
  BY <1>1, ReaderFacts, ZenonT(60)
<1>5. ReaderTypes' /\ Alone(r)
  BY <1>1, <1>4, ReaderFacts, ZenonT(60) DEF ReaderTypes, Alone, ReaderPlaces
<1>6. pc'[r] = "cas"
  BY <1>1, ReaderFacts, ZenonT(60)
<1>7. \A x : Published(x)' <=> Published(x)
  BY <1>2, ZenonT(60) DEF Published
<1>8. /\ old[r].tag >= 0
      /\ old[r].tag > 0 => asked[r] <= old[r].tag
      /\ old[r].tag > 0 => \A x \in AnyRoot : sequence[x] = old[r].tag =>
           Published(x) /\ (x = h[r] \/ (x # q[r] /\ x # rootPointer))
  BY <1>1, ReaderFacts, ZenonT(60) DEF Knows
<1>9. ASSUME old[r].tag > 0, NEW x \in AnyRoot, sequence[x] = old[r].tag
      PROVE  Published(x)' /\ (x = h[r] \/ x # q'[r])
  <2>1. Published(x) /\ (x = h[r] \/ (x # q[r] /\ x # rootPointer))
    BY <1>8, <1>9, ZenonT(60)
  <2>2. x = h[r] \/ x # q'[r]
    BY <1>3, <2>1, ZenonT(60)
  <2> QED BY <1>7, <2>1, <2>2, ZenonT(60)
<1>10. Knows(r)'
  <2>1. pc'[r] # "compare" /\ pc'[r] # "same" /\ pc'[r] # "target"
    BY <1>6, ZenonT(60)
  <2>2. old[r].tag <= prootSeq
    BY ReaderFacts, ZenonT(60)
  <2> QED BY <1>1, <1>2, <1>6, <1>8, <1>9, <2>1, <2>2, ZenonT(60) DEF Knows
<1>11. /\ rootPointer = Empty => q'[r] = Empty /\ h[r] \in {NoRoot, Empty}
       /\ q'[r] = Empty => asked[r] = 0 /\ h[r] \in {NoRoot, Empty}
  BY <1>3, ReaderFacts, ZenonT(60) DEF Local
<1>12. Local(r)'
  BY <1>1, <1>2, <1>3, <1>6, <1>11, ReaderFacts, ZenonT(60) DEF Local
<1> QED BY <1>1, <1>5, <1>6, <1>10, <1>12, QuietInv, ZenonT(60)

(* refcas. *)
LEMMA refcasPin ==
  ASSUME PinInv, NEW r \in Reader, refcas(r)
  PROVE  PinInv'
<1>1. pc[r] = "cas" /\ asked' = asked
  BY ZenonT(60) DEF refcas
<1>2. CASE refCount[q[r]] # old[r]
  <2>1. Again(r) /\ ReaderUnchanged
    BY <1>2, ZenonT(60) DEF refcas, ReaderUnchanged, rootVars
  <2> QED BY <1>1, <2>1, AgainPin, ZenonT(60)
<1>3. CASE refCount[q[r]] = old[r]
  <2>1. /\ refCount' = [refCount EXCEPT ![q[r]].cnt = @ + 1]
        /\ pc' = [pc EXCEPT ![r] = "held"] /\ q' = [q EXCEPT ![r] = NoRoot]
        /\ old' = [old EXCEPT ![r] = Tagged(0, 0)] /\ h' = h
    BY <1>3, ZenonT(60) DEF refcas, Goto
  <2>2. ~stray' => ~stray /\ (q[r] = Empty \/ old[r].tag # 0)
    BY <1>3, ZenonT(60) DEF refcas
  <2>3. UNCHANGED <<rootPointer, sequence, chain, freelist, prootSeq, wpc, wroot, prev, proot>>
    BY ZenonT(60) DEF refcas, allocVars, writerVars
  <2>4. q[r] \in AnyRoot /\ h[r] # NoRoot
    BY <1>1, ReaderFacts, ZenonT(60) DEF Local
  <2>5. PICK x \in AnyRoot : x = q[r]
    BY <2>4, ZenonT(60)
  <2>6. refCount \in [AnyRoot -> Counter]
    BY ZenonT(60) DEF PinInv, RootTypes
  <2>7. /\ Still
        /\ refCount'[x].cnt = refCount[x].cnt + 1
        /\ \A y \in AnyRoot : y # x => refCount'[y] = refCount[y]
    BY <2>1, <2>3, <2>5, <2>6 DEF Still, Counter
  <2>8. ReaderTypes' /\ Alone(r)
    BY <1>1, <2>1, ReaderFacts DEF ReaderTypes, Alone, ReaderPlaces, Counter, Tagged
  <2>9. pc'[r] = "held" /\ q'[r] = NoRoot /\ old'[r].tag = 0 /\ h'[r] = h[r] /\ asked'[r] = asked[r]
    BY <1>1, <2>1, ReaderFacts, ZenonT(60) DEF Tagged
  <2>10. Knows(r)'
    <3>1. \A m \in Nat : 0 <= m
      OBVIOUS
    <3>2. 0 <= prootSeq'
      BY <2>3, <3>1, ReaderFacts, ZenonT(60)
    <3> QED BY <2>9, <3>2, ZenonT(60) DEF Knows
  <2>11. Local(r)'
    BY <2>3, <2>4, <2>9, ReaderFacts, ZenonT(60) DEF Local
  <2>12. ~stray' => /\ ~stray /\ h[r] = x /\ asked[r] <= sequence[x]
                    /\ x = Empty \/ Contains(chain, x)
    BY <1>1, <1>3, <2>2, <2>5, PinTarget, ZenonT(60)
  <2>13. Pinned(r)'
    BY <2>3, <2>9, <2>12, ZenonT(60) DEF Pinned
  <2>14. Counts'
    <3> SUFFICES ASSUME ~stray'
                 PROVE  /\ \A y : Contains(chain, y) \/ y = Empty =>
                             refCount'[y].cnt = Cardinality(Holders(y)')
                        /\ Opened' => refCount'[wroot].cnt = 0
      BY <2>3, ZenonT(60) DEF Counts
    <3>1. ~stray /\ h[r] = x /\ (x = Empty \/ Contains(chain, x))
      BY <2>12, ZenonT(60)
    <3>2. Counts
      BY ZenonT(60) DEF PinInv
    <3>3. \A y : Contains(chain, y) \/ y = Empty => y \in AnyRoot
      BY ChainRoots, ReaderFacts, ZenonT(60) DEF PinInv
    <3>4. ASSUME NEW y, Contains(chain, y) \/ y = Empty, y # x
          PROVE  refCount'[y].cnt = Cardinality(Holders(y)')
      <4>1. Holders(y)' = Holders(y)
        BY <1>1, <2>1, <2>8, <2>9, <3>1, <3>4, ZenonT(60) DEF Holders, Alone
      <4>2. refCount'[y] = refCount[y]
        BY <2>7, <3>3, <3>4, ZenonT(60)
      <4> QED BY <3>1, <3>2, <3>4, <4>1, <4>2, ZenonT(60) DEF Counts
    <3>5. refCount'[x].cnt = Cardinality(Holders(x)')
      <4>1. Holders(x)' = Holders(x) \cup {r} /\ r \notin Holders(x)
        BY <1>1, <2>1, <2>8, <2>9, <3>1, ZenonT(60) DEF Holders, Alone
      <4>2. Holders(x) \in SUBSET Reader
        BY ZenonT(60) DEF Holders
      <4>3. Cardinality(Holders(x) \cup {r}) = Cardinality(Holders(x)) + 1
        BY <4>1, <4>2, ZenonT(60) DEF PinInv, Sizes
      <4>4. refCount[x].cnt = Cardinality(Holders(x))
        BY <3>1, <3>2, ZenonT(60) DEF Counts
      <4> QED BY <2>7, <4>1, <4>3, <4>4, ZenonT(60)
    <3>6. Opened' => refCount'[wroot].cnt = 0
      <4> SUFFICES ASSUME Opened PROVE refCount'[wroot].cnt = 0
        BY <2>3, ZenonT(60) DEF Opened
      <4>1. wroot \in Root /\ ~Contains(chain, wroot)
        BY ZenonT(60) DEF PinInv, Shape, RootTypes, Opened
      <4>2. wroot # x /\ wroot \in AnyRoot
        BY <3>1, <4>1, RootsAssumption, ZenonT(60) DEF AnyRoot
      <4>3. refCount[wroot].cnt = 0
        BY <3>1, <3>2, ZenonT(60) DEF Counts
      <4> QED BY <2>7, <4>2, <4>3, ZenonT(60)
    <3> QED BY <3>4, <3>5, <3>6, ZenonT(60)
  <2> QED BY <2>2, <2>7, <2>8, <2>10, <2>11, <2>13, <2>14, ReaderInv, ZenonT(60)
<1> QED BY <1>2, <1>3, ZenonT(60)

(* BtreeBaseHandle::clear. *)
LEMMA ClearHandlePin ==
  ASSUME PinInv, NEW r \in Reader, ClearHandle(r)
  PROVE  PinInv'
<1>1. /\ pc[r] = "held" /\ refCount' = [refCount EXCEPT ![h[r]].cnt = @ - 1]
      /\ pc' = [pc EXCEPT ![r] = "idle"] /\ h' = [h EXCEPT ![r] = NoRoot]
      /\ asked' = [asked EXCEPT ![r] = 0] /\ q' = q /\ old' = old /\ stray' = stray
  BY ZenonT(60) DEF ClearHandle, Goto
<1>2. UNCHANGED <<rootPointer, sequence, chain, freelist, prootSeq, wpc, wroot, prev, proot>>
  BY ZenonT(60) DEF ClearHandle, allocVars, writerVars
<1>3. h[r] \in AnyRoot /\ q[r] = NoRoot
  BY <1>1, ReaderFacts, ZenonT(60) DEF Local
<1>4. PICK x \in AnyRoot : x = h[r]
  BY <1>3, ZenonT(60)
<1>5. refCount \in [AnyRoot -> Counter]
  BY ZenonT(60) DEF PinInv, RootTypes
<1>6. /\ Still
      /\ refCount'[x].cnt = refCount[x].cnt - 1
      /\ \A y \in AnyRoot : y # x => refCount'[y] = refCount[y]
  BY <1>1, <1>2, <1>4, <1>5 DEF Still, Counter
<1>7. ReaderTypes' /\ Alone(r)
  BY <1>1, ReaderFacts, ZenonT(60) DEF ReaderTypes, Alone, ReaderPlaces
<1>8. pc'[r] = "idle" /\ q'[r] = NoRoot /\ old'[r] = old[r] /\ h'[r] = NoRoot /\ asked'[r] = 0
  BY <1>1, <1>3, ReaderFacts, ZenonT(60)
<1>9. Knows(r)'
  BY <1>2, <1>8, ReaderFacts, ZenonT(60) DEF Knows
<1>10. Local(r)'
  BY <1>2, <1>8, ReaderFacts DEF Local
<1>11. Pinned(r)'
  BY <1>8, ZenonT(60) DEF Pinned
<1>12. Counts'
  <2> SUFFICES ASSUME ~stray
               PROVE  /\ \A y : Contains(chain, y) \/ y = Empty =>
                           refCount'[y].cnt = Cardinality(Holders(y)')
                      /\ Opened' => refCount'[wroot].cnt = 0
    BY <1>1, <1>2, ZenonT(60) DEF Counts
  <2>1. x = Empty \/ Contains(chain, x)
    BY <1>1, <1>4, ZenonT(60) DEF PinInv, Pinned
  <2>2. Counts
    BY ZenonT(60) DEF PinInv
  <2>3. \A y : Contains(chain, y) \/ y = Empty => y \in AnyRoot
    BY ChainRoots, ReaderFacts, ZenonT(60) DEF PinInv
  <2>4. ASSUME NEW y, Contains(chain, y) \/ y = Empty, y # x
        PROVE  refCount'[y].cnt = Cardinality(Holders(y)')
    <3>1. Holders(y)' = Holders(y)
      BY <1>1, <1>4, <1>7, <1>8, <2>4, ZenonT(60) DEF Holders, Alone
    <3>2. refCount'[y] = refCount[y]
      BY <1>6, <2>3, <2>4, ZenonT(60)
    <3> QED BY <2>2, <2>4, <3>1, <3>2, ZenonT(60) DEF Counts
  <2>5. refCount'[x].cnt = Cardinality(Holders(x)')
    <3>1. Holders(x)' = Holders(x) \ {r} /\ r \in Holders(x)
      BY <1>1, <1>4, <1>7, <1>8, ZenonT(60) DEF Holders, Alone
    <3>2. Holders(x) \in SUBSET Reader
      BY ZenonT(60) DEF Holders
    <3>3. Cardinality(Holders(x) \ {r}) = Cardinality(Holders(x)) - 1
      BY <3>1, <3>2, ZenonT(60) DEF PinInv, Sizes
    <3>4. refCount[x].cnt = Cardinality(Holders(x))
      BY <2>1, <2>2, ZenonT(60) DEF Counts
    <3> QED BY <1>6, <3>1, <3>3, <3>4, ZenonT(60)
  <2>6. Opened' => refCount'[wroot].cnt = 0
    <3> SUFFICES ASSUME Opened PROVE refCount'[wroot].cnt = 0
      BY <1>2, ZenonT(60) DEF Opened
    <3>1. wroot \in Root /\ ~Contains(chain, wroot)
      BY ZenonT(60) DEF PinInv, Shape, RootTypes, Opened
    <3>2. wroot # x /\ wroot \in AnyRoot
      BY <2>1, <3>1, RootsAssumption, ZenonT(60) DEF AnyRoot
    <3>3. refCount[wroot].cnt = 0
      BY <2>2, ZenonT(60) DEF Counts
    <3> QED BY <1>6, <3>2, <3>3, ZenonT(60)
  <2> QED BY <2>4, <2>5, <2>6, ZenonT(60)
<1> QED BY <1>1, <1>6, <1>7, <1>9, <1>10, <1>11, <1>12, ReaderInv, ZenonT(60)

(* A step that changes nothing. *)
LEMMA StutterPin ==
  ASSUME PinInv, UNCHANGED vars
  PROVE  PinInv'
<1>1. /\ UNCHANGED <<rootPointer, sequence, refCount, chain, freelist, prootSeq,
                     wpc, wroot, prev, proot>>
      /\ UNCHANGED readerVars
  BY ZenonT(60) DEF vars, rootVars, allocVars, writerVars
<1>2. Still
  BY <1>1, ZenonT(60) DEF Still, PinInv, RootTypes
<1>3. RootTypes' /\ Shape' /\ Tags' /\ Ordered' /\ \A x : Published(x)' <=> Published(x)
  BY <1>2, StillRoots, ZenonT(60)
<1>4. prootSeq <= prootSeq /\ sequence[rootPointer] <= sequence[rootPointer]
  BY DEF PinInv, RootTypes
<1>5. Opened' <=> Opened
  BY <1>1, ZenonT(60) DEF Opened
<1>6. Advance
  BY <1>1, <1>3, <1>4, <1>5, ZenonT(60) DEF Advance
<1> QED BY <1>3, <1>6, AdvanceInv, ZenonT(60)

(* Every step keeps the invariant about pinning. *)
LEMMA NextPin ==
  ASSUME PinInv, [Next]_vars
  PROVE  PinInv'
<1>1. CASE get_write_handle
  BY <1>1, TakePin, ZenonT(60)
<1>2. CASE InitRoot
  BY <1>2, InitRootPin, ZenonT(60)
<1>3. CASE Write
  <2>1. /\ Opened /\ wpc' \in {"open", "end"}
        /\ UNCHANGED <<rootPointer, sequence, refCount, chain, freelist, prootSeq,
                       wroot, prev, proot, readerVars>>
    <3>1. ASSUME wpc = "open", NEW path, NEW k, NEW grown, put_pair(path, k, grown)
          PROVE  /\ Opened /\ wpc' \in {"open", "end"}
                 /\ UNCHANGED <<rootPointer, sequence, refCount, chain, freelist, prootSeq,
                                wroot, prev, proot, readerVars>>
      BY <3>1, ZenonT(60) DEF put_pair, Opened
    <3>2. ASSUME wpc = "open", NEW path, NEW dropped, NEW top, remove_pair(path, dropped, top)
          PROVE  /\ Opened /\ wpc' \in {"open", "end"}
                 /\ UNCHANGED <<rootPointer, sequence, refCount, chain, freelist, prootSeq,
                                wroot, prev, proot, readerVars>>
      BY <3>2, ZenonT(60) DEF remove_pair, Opened
    <3>3. CASE clear
      BY <3>3, ZenonT(60) DEF clear, Opened, allocVars
    <3>4. CASE rollback
      BY <3>4, ZenonT(60) DEF rollback, Opened, allocVars, rootVars
    <3> QED BY <1>3, <3>1, <3>2, <3>3, <3>4, ZenonT(60) DEF Write
  <2> QED BY <2>1, WritePin, ZenonT(60)
<1>4. CASE publish
  BY <1>4, PublishPin, ZenonT(60)
<1>5. CASE flip
  BY <1>5, FlipPin, ZenonT(60)
<1>6. CASE recycle
  BY <1>6, RecyclePin, ZenonT(60)
<1>7. CASE finish
  <2>1. /\ wpc = "recycle" /\ CloseHandle
        /\ UNCHANGED <<rootPointer, sequence, refCount, chain, freelist, prootSeq, readerVars>>
    BY <1>7, ZenonT(60) DEF finish, rootVars, allocVars
  <2> QED BY <2>1, ClosePin, ZenonT(60)
<1>8. CASE discard
  <2>1. /\ Opened /\ CloseHandle
        /\ UNCHANGED <<rootPointer, sequence, refCount, chain, freelist, prootSeq, readerVars>>
    BY <1>8, ZenonT(60) DEF discard, Opened
  <2> QED BY <2>1, ClosePin, ZenonT(60)
<1>9. ASSUME NEW r \in Reader, get_read_handle(r) \/ ClearHandle(r)
      PROVE  PinInv'
  BY <1>9, LoadForCountPin, ReadCountPin, LoadHandlePin, LoadForTagPin,
     CompareTagPin,
     CompareRootPin, LoadTargetPin, refcasPin, ClearHandlePin, ZenonT(60)
     DEF get_read_handle
<1>10. CASE UNCHANGED vars
  BY <1>10, StutterPin, ZenonT(60)
<1> QED BY <1>1, <1>2, <1>3, <1>4, <1>5, <1>6, <1>7, <1>8, <1>9, <1>10, ZenonT(60)
       DEF Next, Finish

(* The number of handles on each version. *)
LEMMA PinCounts == PinInv => CountExact
<1> SUFFICES ASSUME PinInv PROVE CountExact
  BY ZenonT(60)
<1>1. \A x : x \in Range(chain) <=> Contains(chain, x)
  BY RangeIs, ZenonT(60) DEF PinInv
<1> QED BY <1>1, ZenonT(60) DEF PinInv, Counts, CountExact

(* The version of each handle. *)
LEMMA PinVersions == PinInv => PinRecent
<1> SUFFICES ASSUME PinInv, ~stray, NEW d \in Reader, pc[d] = "held"
             PROVE  sequence[h[d]] \in asked[d] .. sequence[rootPointer]
  BY ZenonT(60) DEF PinRecent
<1>1. /\ Contains(chain, h[d]) \/ h[d] = Empty
      /\ asked[d] <= sequence[h[d]]
  BY ZenonT(60) DEF PinInv, Pinned
<1>2. sequence[h[d]] <= sequence[rootPointer]
  <2>1. CASE h[d] = Empty
    BY <2>1, ReaderFacts
  <2>2. CASE Contains(chain, h[d])
    <3>1. PICK i \in 1 .. Len(chain) : chain[i] = h[d]
      BY <2>2, ZenonT(60) DEF Contains
    <3>2. chain \in Seq(Root) /\ chain # <<>> /\ rootPointer = chain[1] /\ Len(chain) \in Nat
      BY <3>1 DEF PinInv, RootTypes, Shape
    <3>3. 1 \in 1 .. Len(chain) /\ (i = 1 \/ 1 < i)
      BY <3>1, <3>2
    <3>4. 1 < i => sequence[chain[i]] < sequence[chain[1]]
      BY <3>1, <3>3, ZenonT(60) DEF PinInv, Ordered
    <3>5. sequence[h[d]] \in Nat
      BY <2>2, ChainRoots, ZenonT(60) DEF PinInv, RootTypes
    <3> QED BY <3>1, <3>2, <3>3, <3>4, <3>5, ReaderFacts
  <2> QED BY <1>1, <2>1, <2>2, ZenonT(60)
<1>3. sequence[h[d]] \in Nat
  BY <1>1, ChainRoots, ReaderFacts, ZenonT(60) DEF PinInv, RootTypes
<1> QED BY <1>1, <1>2, <1>3, ReaderFacts

-----------------------------------------------------------------------------
(* What the library says of finite sets and of natural numbers             *)

Fin == INSTANCE FiniteSetTheorems

(* The library's notions of a finite set and of its size are the model's.  *)
LEMMA SameSizes ==
  ASSUME NEW S
  PROVE  /\ IsFiniteSet(S) = Fin!IsFiniteSet(S)
         /\ Cardinality(S) = Fin!Cardinality(S)
<1>1. IsFiniteSet(S) = Fin!IsFiniteSet(S)
  BY Zenon DEF IsFiniteSet, Fin!IsFiniteSet
<1>2. Cardinality(S) = Fin!Cardinality(S)
  BY Zenon DEF Cardinality, Fin!Cardinality
<1> QED BY <1>1, <1>2, ZenonT(60)

(* Sets of readers can be counted.                                         *)
LEMMA ReadersCounted == Sizes
<1>1. Cardinality({}) = 0
  BY SameSizes, Fin!FS_EmptySet, ZenonT(60)
<1>2. ASSUME NEW S \in SUBSET Reader
      PROVE  Fin!IsFiniteSet(S) /\ Fin!Cardinality(S) \in Nat /\ (Fin!Cardinality(S) = 0 <=> S = {})
  <2>1. Fin!IsFiniteSet(S)
    BY ReaderAssumption, SameSizes, Fin!FS_Subset, ZenonT(60)
  <2>2. Fin!Cardinality(S) \in Nat
    BY <2>1, Fin!FS_CardinalityType, ZenonT(60)
  <2> QED BY <2>1, <2>2, Fin!FS_EmptySet, ZenonT(60)
<1>3. ASSUME NEW S \in SUBSET Reader, NEW d \in Reader
      PROVE  /\ d \notin S => Fin!Cardinality(S \cup {d}) = Fin!Cardinality(S) + 1
             /\ d \in S => Fin!Cardinality(S \ {d}) = Fin!Cardinality(S) - 1
  BY <1>2, Fin!FS_AddElement, Fin!FS_RemoveElement, ZenonT(60)
<1>4. ASSUME NEW S \in SUBSET Reader
      PROVE  Cardinality(S) \in Nat /\ (Cardinality(S) = 0 <=> S = {})
  BY <1>2, SameSizes, ZenonT(60)
<1>5. ASSUME NEW S \in SUBSET Reader, NEW d \in Reader
      PROVE  /\ d \notin S => Cardinality(S \cup {d}) = Cardinality(S) + 1
             /\ d \in S => Cardinality(S \ {d}) = Cardinality(S) - 1
  BY <1>3, SameSizes, ZenonT(60)
<1> QED BY <1>1, <1>4, <1>5, ZenonT(60) DEF Sizes

(* The least member of a set of natural numbers.                           *)
LEMMA LeastMember == Least
<1> SUFFICES ASSUME NEW T \in SUBSET Nat, T # {}
             PROVE  \E i \in T : \A j \in T : i <= j
  BY ZenonT(60) DEF Least
<1>1. PICK i \in T : \A j \in T : ~(<<j, i>> \in Fin!OpToRel(<, Nat))
  BY Fin!NatLessThanWellFounded, Fin!WFMin, ZenonT(60)
<1>2. \A j \in T : ~(j < i)
  BY <1>1, ZenonT(60) DEF Fin!OpToRel
<1>3. \A j \in T : i <= j
  BY <1>2
<1> QED BY <1>3, ZenonT(60)

-----------------------------------------------------------------------------
(* The theorems                                                            *)

(* The invariant holds in every reachable state of the tree and its        *)
(* readers.                                                                *)
THEOREM Invariance == Spec => []IInv
<1>1. Init => IInv
  BY InitPin, InitNode, ReadersCounted, ZenonT(60) DEF IInv
<1>2. IInv /\ [Next]_vars => IInv'
  BY NextPin, NextNode, LeastMember, ZenonT(60) DEF IInv
<1> QED BY <1>1, <1>2, PTL DEF Spec

(* The count of every root pointer in the list is the number of handles on *)
(* it: the compare-and-swaps of the readers and the writer's flip of the   *)
(* tag lose none.                                                          *)
THEOREM CountsAreExact == Spec => []CountExact
<1>1. IInv => CountExact
  BY PinCounts, ZenonT(60) DEF IInv
<1> QED BY <1>1, Invariance, PTL

(* get_read_handle answers with a version that was current at some time    *)
(* during the call.                                                        *)
THEOREM PinsAreRecent == Spec => []PinRecent
<1>1. IInv => PinRecent
  BY PinVersions, ZenonT(60) DEF IInv
<1> QED BY <1>1, Invariance, PTL

(* While a reader has a version pinned, the version stays in the list and  *)
(* none of its nodes is released or given to another version.              *)
THEOREM PinnedStayIntact == Spec => []PinnedIntact
<1>1. IInv => PinnedIntact
  BY VersionsIntact, ZenonT(60) DEF IInv
<1> QED BY <1>1, Invariance, PTL

(* Every allocated node is in the current version or waits in the          *)
(* node_list_ of exactly one version: none is lost and none is released    *)
(* twice.                                                                  *)
THEOREM NodesAreAccounted == Spec => []NodesAccounted
<1>1. IInv => NodesAccounted
  BY PlacesExact, ZenonT(60) DEF IInv
<1> QED BY <1>1, Invariance, PTL

(* A round of the recycling loop of publish on a version nobody has pinned *)
(* releases exactly the nodes that no older pinned version contains.       *)
THEOREM RecycleReleasesTheRest == Spec => RecycleExact
<1>1. IInv /\ [Next]_vars =>
      [recycle /\ refCount[proot].cnt = 0 =>
         nodeList'[proot] =
           {n \in nodeList[proot] :
              \E i \in Place(proot) + 1 .. Len(chain) :
                /\ refCount[chain[i]].cnt > 0
                /\ n \in tree[chain[i]].nodes}]_vars
  BY RecycleStep, LeastMember, ZenonT(60) DEF IInv
<1> QED BY <1>1, Invariance, PTL DEF Spec, RecycleExact

(* The history variable follows the tree and its readers, so what holds of *)
(* them holds with it.                                                     *)
LEMMA RoundsFollow == RoundsSpec => Spec
<1>1. RoundsInit => Init
  BY ZenonT(60) DEF RoundsInit
<1>2. [RoundsNext]_roundVars => [Next]_vars
  BY ZenonT(60) DEF RoundsNext, roundVars
<1> QED BY <1>1, <1>2, PTL DEF RoundsSpec, Spec

(* In a round of get_read_handle that nobody disturbs the reader has what  *)
(* it would load now.                                                      *)
THEOREM RoundsInvariance == RoundsSpec => []RoundsInv
<1>1. RoundsInit => \A r \in Reader : Undisturbed(r)
  BY ZenonT(60) DEF RoundsInit, Undisturbed
<1>2. IInv /\ (\A r \in Reader : Undisturbed(r)) /\ [RoundsNext]_roundVars =>
        (\A r \in Reader : Undisturbed(r))'
  <2> SUFFICES ASSUME IInv, [RoundsNext]_roundVars, NEW r \in Reader, Undisturbed(r)
               PROVE  Undisturbed(r)'
    BY ZenonT(60)
  <2>1. PinInv
    BY ZenonT(60) DEF IInv
  <2>2. CASE UNCHANGED roundVars
    BY <2>2, ZenonT(60) DEF roundVars, vars, readerVars, rootVars, Undisturbed
  <2>3. CASE RoundsNext
    <3>1. r \in calm' => \/ pc[r] \in {"idle", "again"} /\ pc'[r] = "count"
                         \/ r \in calm /\ Quiet
      BY <2>3, ZenonT(60) DEF RoundsNext
    <3>2. [Next]_vars
      BY <2>3, ZenonT(60) DEF RoundsNext
    <3> QED BY <2>1, <3>1, <3>2, UndisturbedOn, ZenonT(60)
  <2> QED BY <2>2, <2>3, ZenonT(60)
<1> QED BY <1>1, <1>2, RoundsFollow, Invariance, PTL DEF RoundsSpec, RoundsInv

(* A round of get_read_handle fails only if, since the reader began it, a  *)
(* version has been published or another reader has counted itself in or   *)
(* out of the current one.                                                 *)
THEOREM RoundsAreLockFree == RoundsSpec => LockFree
<1>1. RoundsInv /\ [RoundsNext]_roundVars =>
      [\A r \in Reader : pc[r] # "again" /\ pc'[r] = "again" => r \notin calm]_roundVars
  <2> SUFFICES ASSUME RoundsInv, RoundsNext, NEW r \in Reader,
                      pc[r] # "again", pc'[r] = "again"
               PROVE  r \notin calm
    BY ZenonT(60)
  <2>1. PinInv /\ Undisturbed(r) /\ [Next]_vars
    BY ZenonT(60) DEF RoundsInv, IInv, RoundsNext
  <2> QED BY <2>1, CalmSucceeds, ZenonT(60)
<1> QED BY <1>1, RoundsInvariance, PTL DEF RoundsSpec, LockFree
=============================================================================
