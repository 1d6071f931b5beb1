------------------------- MODULE LevelSkipListProofs -------------------------
(***************************************************************************)
(* Proofs about LevelSkipList, for any set of keys, any height and any     *)
(* number of readers.                                                      *)
(*                                                                         *)
(* The properties of the levels are nearly inductive: each link leads to   *)
(* the least greater node of its level, so one new node changes what two   *)
(* links must be and no more.  What has to be added is where a search may  *)
(* stand (SearchInv) and that prev[i] is the node before the new key on    *)
(* level i when the writer gets there (InsertInv).                         *)
(***************************************************************************)
EXTENDS LevelSkipList, TLAPS

(* A search stands before its target on a node of its level; what it saw   *)
(* in the list when it began is still there.  An iterator is on the list.  *)
SearchInv ==
  /\ \A p \in Proc : op[p] # "idle" =>
       /\ x[p] \in InLevel(level[p]) \cup {Head}
       /\ x[p] < target[p]
       /\ before[p] \subseteq Contents
       /\ op[p] = "last" => target[p] = Null
  /\ \A r \in Reader : iter[r] \in Contents \cup {Null}

(* n is the node before k on level l. *)
IsPrev(n, l, k) ==
  /\ n \in InLevel(l) \cup {Head}
  /\ n < k
  /\ k < next[l][n]

(* The writer's local variables at each point of Insert. *)
InsertInv ==
  /\ op[Writer] # "idle" <=> pc = "search"
  /\ op[Writer] \in {"idle", "ge"}
  /\ \A l \in Level : l >= maxHeight => InLevel(l) = {}
  /\ pc # "idle" => target[Writer] \in Key
  /\ pc = "search" =>
       /\ target[Writer] \notin Contents
       /\ level[Writer] < maxHeight
       /\ \A l \in Level : l > level[Writer] /\ l < maxHeight =>
            IsPrev(prev[l], l, target[Writer])
  /\ pc \in {"store", "publish"} =>
       /\ i < height /\ height <= maxHeight
       /\ \A l \in Level : l < i => target[Writer] \in InLevel(l)
       /\ \A l \in Level : l >= i => target[Writer] \notin InLevel(l)
       /\ \A l \in Level : l >= i /\ l < height =>
            IsPrev(prev[l], l, target[Writer])
  /\ pc = "publish" =>
       next[i][target[Writer]] = next[i][prev[i]]

(* LevelsNested, for levels any distance apart. *)
Nested ==
  \A l, m \in Level : m <= l => InLevel(l) \subseteq InLevel(m)

(* Only nodes of a level have a link on it, and the one being inserted. *)
Unlinked ==
  \A l \in Level, n \in Key :
     \/ n \in InLevel(l)
     \/ next[l][n] = Unset
     \/ pc = "publish" /\ l = i /\ n = target[Writer]

IInv ==
  /\ TypeOK /\ LevelsSorted /\ Nested /\ Unlinked
  /\ SearchInv /\ InsertInv

(* An action that stores no link leaves the levels as they are. *)
LEMMA LevelsKept ==
  ASSUME UNCHANGED next
  PROVE  /\ \A l : InLevel(l)' = InLevel(l)
         /\ Contents' = Contents
         /\ LevelsSorted => LevelsSorted'
         /\ Nested => Nested'
<1>1. \A l : InLevel(l)' = InLevel(l)
  BY DEF InLevel
<1> HIDE DEF InLevel
<1> QED
  BY <1>1 DEF Contents, LevelsSorted, Nested

(* Numbers: what the assumptions on the constants say of keys and links. *)
LEMMA Numbers ==
  ASSUME ConstAssumption
  PROVE  /\ Level \subseteq Nat /\ 0 \in Level
         /\ Key \subseteq Nat /\ Node \subseteq Nat /\ Link \subseteq Nat
         /\ Null \in Nat /\ 0 < Null
         /\ \A k \in Key : 0 < k /\ k < Null
         /\ \A k \in Node : k < Null
         /\ Null \notin Node
BY DEF ConstAssumption, Level, Node, Link, Head

(* What a search finds where it stands: a node of its level or NULL. *)
LEMMA LoadedFacts ==
  ASSUME ConstAssumption, IInv, NEW p \in Proc, op[p] # "idle"
  PROVE  /\ level[p] \in Level /\ x[p] \in Node
         /\ Loaded(p) \in InLevel(level[p]) \cup {Null}
         /\ x[p] < Loaded(p)
         /\ \A m \in InLevel(level[p]) : ~(x[p] < m /\ m < Loaded(p))
         /\ target[p] \in Nat /\ target[p] <= Null /\ Loaded(p) \in Nat
<1>1. level[p] \in Level /\ x[p] \in Node /\ target[p] \in Key \cup {Null}
  BY DEF IInv, TypeOK
<1>2. x[p] \in InLevel(level[p]) \cup {Head}
  BY DEF IInv, SearchInv
<1>3. /\ Loaded(p) \in InLevel(level[p]) \cup {Null}
      /\ x[p] < Loaded(p)
      /\ \A m \in InLevel(level[p]) : ~(x[p] < m /\ m < Loaded(p))
  BY <1>1, <1>2 DEF IInv, LevelsSorted, Loaded
<1>4. InLevel(level[p]) \subseteq Key
  BY DEF InLevel
<1>5. target[p] \in Nat /\ target[p] <= Null /\ Loaded(p) \in Nat
  <2>1. Loaded(p) \in Key \cup {Null}
    BY <1>3, <1>4
  <2>2. \A k \in Key : k \in Nat /\ k < Null
    BY Zenon DEF ConstAssumption
  <2>3. Null \in Nat
    BY DEF ConstAssumption
  <2>4. Loaded(p) \in Nat
    BY Zenon, <2>1, <2>2, <2>3
  <2>5. CASE target[p] \in Key
    <3>1. \A m, n \in Nat : m < n => m <= n
      OBVIOUS
    <3> QED
      BY Zenon, <2>2, <2>3, <2>4, <2>5, <3>1
  <2>6. CASE target[p] = Null
    BY <2>3, <2>4, <2>6
  <2> QED
    BY <1>1, <2>5, <2>6
<1> QED
  BY <1>1, <1>3, <1>5

(* An empty list has the invariant. *)
LEMMA InitInv == ConstAssumption /\ Init => IInv
<1> SUFFICES ASSUME ConstAssumption, Init PROVE IInv
  OBVIOUS
<1>1. \A l \in Level, n \in Node : next[l][n] = IF n = Head THEN Null ELSE Unset
  BY DEF Init
<1>2. Unset \notin Key /\ Null \notin Key /\ Head \in Node
  BY Numbers DEF Unset, Node
<1>3. \A l \in Level : InLevel(l) = {}
  BY <1>1, <1>2 DEF InLevel
<1>4. LevelsSorted /\ Nested
  BY <1>1, <1>2, <1>3, Numbers DEF LevelsSorted, Nested, Head
<1>5. Unlinked
  BY <1>1, Numbers DEF Unlinked, Node, Head
<1>6. TypeOK
  <2>1. next \in [Level -> [Node -> Link \cup {Unset}]]
    BY DEF Init, Link
  <2>2. maxHeight \in 1 .. kMaxHeight /\ height \in 1 .. kMaxHeight /\ i \in 0 .. kMaxHeight
    BY DEF Init, ConstAssumption
  <2>3. op \in [Proc -> {"idle", "ge", "lt", "last"}]
    BY DEF Init
  <2>4. target \in [Proc -> Key \cup {Null}] /\ x \in [Proc -> Node]
    BY DEF Init, Node
  <2>5. level \in [Proc -> Level] /\ prev \in [Level -> Node]
    BY Numbers DEF Init, Node
  <2>6. before \in [Proc -> SUBSET Key]
    BY DEF Init
  <2>7. iter \in [Reader -> Key \cup {Null}]
    BY DEF Init
  <2> QED
    BY <2>1, <2>2, <2>3, <2>4, <2>5, <2>6, <2>7 DEF Init, TypeOK
<1>7. SearchInv
  BY DEF Init, SearchInv
<1>8. InsertInv
  BY <1>3 DEF Init, InsertInv, Proc
<1> QED
  BY <1>4, <1>5, <1>6, <1>7, <1>8 DEF IInv

(* The shared part of the steps that store no link and leave the writer    *)
(* where it is: a reader's steps.                                          *)
LEMMA ReaderStep ==
  ASSUME ConstAssumption, IInv, TypeOK',
         UNCHANGED <<next, maxHeight, insertVars>>,
         op'[Writer] = op[Writer], target'[Writer] = target[Writer],
         level'[Writer] = level[Writer]
  PROVE  LevelsSorted' /\ Nested' /\ Unlinked' /\ InsertInv'
<1>1. LevelsSorted' /\ Nested' /\ Contents' = Contents
  BY LevelsKept DEF IInv
<1>2. \A l : InLevel(l)' = InLevel(l)
  BY LevelsKept
<1> HIDE DEF InLevel, Contents
<1>3. Unlinked'
  BY Zenon, <1>2 DEF IInv, Unlinked, insertVars
<1>4. InsertInv'
  BY <1>1, <1>2, ZenonT(60) DEF IInv, InsertInv, IsPrev, insertVars
<1> QED
  BY <1>1, <1>3, <1>4

(* A search begins: it stands on head_, on the level max_height_ names. *)
LEMMA BeginSearch ==
  ASSUME ConstAssumption, IInv, NEW p \in Proc, NEW o \in {"ge", "lt", "last"},
         NEW k \in Key \cup {Null}, o = "last" => k = Null,
         Begin(p, o, k), UNCHANGED <<next, maxHeight, iter>>
  PROVE  /\ SearchInv'
         /\ op' \in [Proc -> {"idle", "ge", "lt", "last"}]
         /\ target' \in [Proc -> Key \cup {Null}]
         /\ x' \in [Proc -> Node]
         /\ level' \in [Proc -> Level]
         /\ before' \in [Proc -> SUBSET Key]
<1>1. \A l : InLevel(l)' = InLevel(l)
  BY LevelsKept
<1>2. Contents \subseteq Key /\ Contents' = Contents
  BY <1>1 DEF Contents, InLevel
<1> HIDE DEF InLevel, Contents
<1>3. 0 < k
  BY Numbers
<1>4. maxHeight - 1 \in Level
  BY DEF IInv, TypeOK, Level, ConstAssumption
<1>5. Head \in Node /\ Head = 0
  BY ZenonT(60) DEF Node, Head
<1>6. SearchInv'
  BY <1>1, <1>2, <1>3, <1>4, <1>5 DEF Begin, IInv, TypeOK, SearchInv
<1> QED
  BY <1>2, <1>4, <1>5, <1>6 DEF Begin, IInv, TypeOK

(* Seek, Prev and SeekToLast of a reader's iterator. *)
LEMMA ReaderBeginInv ==
  ASSUME ConstAssumption, IInv, NEW r \in Reader,
         Prev(r) \/ SeekToLast(r) \/ \E k \in Key : Seek(r, k)
  PROVE  IInv'
<1>1. iter[r] \in Key \cup {Null} /\ r \in Proc /\ r # Writer
  BY DEF IInv, TypeOK, Proc, ConstAssumption
<1>2. PICK o \in {"ge", "lt", "last"}, k \in Key \cup {Null} :
        /\ o = "last" => k = Null
        /\ Begin(r, o, k)
        /\ UNCHANGED <<next, maxHeight, iter, insertVars>>
  BY <1>1 DEF Seek, Prev, SeekToLast
<1>3. /\ SearchInv'
      /\ op' \in [Proc -> {"idle", "ge", "lt", "last"}]
      /\ target' \in [Proc -> Key \cup {Null}]
      /\ x' \in [Proc -> Node]
      /\ level' \in [Proc -> Level]
      /\ before' \in [Proc -> SUBSET Key]
  BY <1>1, <1>2, BeginSearch, ZenonT(60)
<1>4. TypeOK'
  BY <1>2, <1>3, ZenonT(60) DEF IInv, TypeOK, insertVars
<1>5. /\ op'[Writer] = op[Writer] /\ target'[Writer] = target[Writer]
      /\ level'[Writer] = level[Writer]
  BY <1>1, <1>2, ZenonT(60) DEF Begin, IInv, TypeOK, Proc
<1>6. LevelsSorted' /\ Nested' /\ Unlinked' /\ InsertInv'
  BY <1>2, <1>4, <1>5, ReaderStep
<1> QED
  BY <1>3, <1>4, <1>6 DEF IInv

(* A reader goes on along a level. *)
LEMMA AdvanceInv ==
  ASSUME ConstAssumption, IInv, NEW p \in Proc, Advance(p)
  PROVE  IInv'
<1>1. /\ op[p] # "idle" /\ Loaded(p) < target[p]
      /\ x' = [x EXCEPT ![p] = Loaded(p)]
      /\ UNCHANGED <<next, maxHeight, op, target, level, before, iter, insertVars>>
  BY ZenonT(60) DEF Advance, KeyIsAfterNode
<1>2. Loaded(p) \in InLevel(level[p])
  <2>1. /\ Loaded(p) \in InLevel(level[p]) \cup {Null} /\ Loaded(p) \in Nat
        /\ target[p] \in Nat /\ target[p] <= Null /\ Null \in Nat
    BY <1>1, LoadedFacts, Numbers, ZenonT(60)
  <2>2. Loaded(p) # Null
    BY <1>1, <2>1
  <2> QED BY <2>1, <2>2, ZenonT(60)
<1>3. Loaded(p) \in Node
  BY <1>2, ZenonT(60) DEF InLevel, Node
<1>4. TypeOK'
  BY <1>1, <1>3 DEF IInv, TypeOK, insertVars
<1>5. LevelsSorted' /\ Nested' /\ Unlinked' /\ InsertInv'
  BY <1>1, <1>4, ReaderStep
<1>6. (\A l : InLevel(l)' = InLevel(l)) /\ Contents' = Contents
  BY <1>1, LevelsKept, ZenonT(60)
<1> HIDE DEF InLevel, Contents, Loaded
<1>7. SearchInv'
  BY <1>1, <1>2, <1>6 DEF IInv, TypeOK, SearchInv
<1> QED
  BY <1>4, <1>5, <1>7 DEF IInv

(* A search that drops a level stays on a node of the new level.  For the  *)
(* writer it has found the node before the new key on the level it leaves. *)
LEMMA DropInv ==
  ASSUME ConstAssumption, IInv, NEW p \in Proc, Drop(p)
  PROVE  IInv'
<1>1. /\ op[p] # "idle" /\ ~(Loaded(p) < target[p]) /\ level[p] > 0
      /\ level' = [level EXCEPT ![p] = level[p] - 1]
      /\ prev' = IF p = Writer THEN [prev EXCEPT ![level[p]] = x[p]] ELSE prev
      /\ UNCHANGED <<next, maxHeight, op, target, x, before, iter, pc, height, i>>
  BY DEF Drop, AtEnd, KeyIsAfterNode
<1>2. level[p] \in Level /\ x[p] \in Node
  BY ZenonT(60) DEF IInv, TypeOK
<1>3. level[p] - 1 \in Level /\ level[p] \in Nat /\ level[p] - 1 <= level[p]
  BY <1>1, <1>2 DEF Level, ConstAssumption
<1>4. TypeOK'
  BY <1>1, <1>2, <1>3, ZenonT(60) DEF IInv, TypeOK
<1>5. /\ \A l : InLevel(l)' = InLevel(l)
      /\ Contents' = Contents
      /\ LevelsSorted' /\ Nested'
  BY <1>1, LevelsKept, ZenonT(60) DEF IInv
<1>6. InLevel(level[p]) \subseteq InLevel(level[p] - 1)
  BY <1>2, <1>3 DEF IInv, Nested
<1>7. InLevel(level[p]) \subseteq Contents
  BY <1>2, Numbers DEF IInv, Nested, Contents, Level
<1> HIDE DEF InLevel, Contents, Loaded
<1>8. SearchInv'
  BY <1>1, <1>2, <1>5, <1>6, ZenonT(60) DEF IInv, TypeOK, SearchInv
<1>9. Unlinked'
  BY <1>1, <1>5 DEF IInv, Unlinked
<1>10. InsertInv'
  <2>1. CASE p # Writer
    <3>1. level'[Writer] = level[Writer] /\ prev' = prev
      BY <1>1, <2>1, ZenonT(60) DEF IInv, TypeOK, Proc
    <3> QED
      BY <1>1, <1>5, <3>1 DEF IInv, InsertInv, IsPrev
  <2>2. CASE p = Writer
    <3>1. pc = "search" /\ target[Writer] \in Key /\ target[Writer] \notin Contents
      BY <1>1, <2>2, ZenonT(60) DEF IInv, InsertInv
    <3>2. target[Writer] # Loaded(p)
      BY <1>7, <2>2, <3>1, LoadedFacts, <1>1, Numbers, ZenonT(60)
    <3>3. target[Writer] < Loaded(p)
      <4>1. target[p] \in Nat /\ Loaded(p) \in Nat
        BY <1>1, LoadedFacts, ZenonT(60)
      <4>2. ~(Loaded(p) < target[p]) /\ p = Writer
        BY <1>1, <2>2, ZenonT(60)
      <4> QED
        BY <3>2, <4>1, <4>2
    <3>4. IsPrev(x[p], level[p], target[Writer])
      BY <1>1, <2>2, <3>3, ZenonT(60) DEF IsPrev, Loaded, IInv, SearchInv
    <3>5. level'[Writer] = level[p] - 1 /\ prev' = [prev EXCEPT ![level[p]] = x[p]]
      BY <1>1, <2>2 DEF IInv, TypeOK, Proc
    <3>6. \A l \in Level : l > level[p] - 1 => l > level[p] \/ l = level[p]
      BY <1>3 DEF Level
    <3>7. \A l \in Level : l > level'[Writer] /\ l < maxHeight =>
            IsPrev(prev'[l], l, target[Writer])
      BY <1>2, <2>2, <3>1, <3>4, <3>5, <3>6, ZenonT(60) DEF IInv, InsertInv, TypeOK
    <3>8. level'[Writer] < maxHeight
      BY <1>3, <2>2, <3>1, <3>5 DEF IInv, InsertInv, TypeOK
    <3> QED
      BY <1>1, <1>5, <3>1, <3>7, <3>8, ZenonT(60) DEF IInv, InsertInv, IsPrev
  <2> QED
    BY <2>1, <2>2, ZenonT(60)
<1> QED
  BY <1>4, <1>5, <1>8, <1>9, <1>10, ZenonT(60) DEF IInv

(* A search returns, or the iterator follows a link of level 0. *)
LEMMA IterInv ==
  ASSUME ConstAssumption, IInv, NEW r \in Reader,
         Return(r) \/ SeekToFirst(r) \/ IterNext(r)
  PROVE  IInv'
<1>1. r \in Proc /\ r # Writer
  BY ZenonT(60) DEF Proc, ConstAssumption
<1>2. Contents \subseteq Key
  BY DEF Contents, InLevel
<1>3. \A n \in Contents \cup {Head} : next[0][n] \in Contents \cup {Null}
  BY Zenon, Numbers DEF IInv, LevelsSorted, Contents
<1>4. iter[r] \in Contents \cup {Null}
  BY ZenonT(60) DEF IInv, SearchInv
<1>5. Return(r) => Found(r) \in Contents \cup {Null}
  <2> SUFFICES ASSUME Return(r) PROVE Found(r) \in Contents \cup {Null}
    BY ZenonT(60)
  <2>1. op[r] # "idle" /\ level[r] = 0
    BY ZenonT(60) DEF Return, AtEnd
  <2>2. x[r] \in Contents \cup {Head}
    BY <1>1, <2>1 DEF IInv, SearchInv, Contents
  <2>3. Loaded(r) \in Contents \cup {Null}
    BY <1>3, <2>1, <2>2, ZenonT(60) DEF Loaded
  <2> QED
    BY <2>2, <2>3 DEF Found
<1>6. PICK n \in Contents \cup {Null} :
        /\ iter' = [iter EXCEPT ![r] = n]
        /\ op' = op \/ op' = [op EXCEPT ![r] = "idle"]
        /\ UNCHANGED <<next, maxHeight, target, x, level, before, insertVars>>
  BY <1>3, <1>4, <1>5 DEF Return, SeekToFirst, IterNext
<1> HIDE DEF Contents
<1>7. TypeOK'
  BY Zenon, <1>2, <1>6 DEF IInv, TypeOK, insertVars
<1>8. op'[Writer] = op[Writer]
  BY <1>1, <1>6, ZenonT(60) DEF IInv, TypeOK, Proc
<1>9. LevelsSorted' /\ Nested' /\ Unlinked' /\ InsertInv'
  BY <1>6, <1>7, <1>8, ReaderStep, ZenonT(60)
<1>10. (\A l : InLevel(l)' = InLevel(l)) /\ Contents' = Contents
  BY <1>6, LevelsKept, ZenonT(60)
<1> HIDE DEF InLevel
<1>11. SearchInv'
  BY <1>1, <1>6, <1>10, ZenonT(60) DEF IInv, TypeOK, SearchInv
<1> QED
  BY <1>7, <1>9, <1>11, ZenonT(60) DEF IInv

(* Insert begins with a search for a key that is not in the list. *)
LEMMA InsertBeginInv ==
  ASSUME ConstAssumption, IInv, NEW k \in Key, InsertBegin(k)
  PROVE  IInv'
<1>1. /\ pc = "idle" /\ k \notin Contents
      /\ Begin(Writer, "ge", k)
      /\ pc' = "search"
      /\ UNCHANGED <<next, maxHeight, iter, prev, height, i>>
  BY DEF InsertBegin
<1>2. Writer \in Proc
  BY ZenonT(60) DEF Proc
<1>3. /\ SearchInv'
      /\ op' \in [Proc -> {"idle", "ge", "lt", "last"}]
      /\ target' \in [Proc -> Key \cup {Null}]
      /\ x' \in [Proc -> Node]
      /\ level' \in [Proc -> Level]
      /\ before' \in [Proc -> SUBSET Key]
  BY <1>1, <1>2, BeginSearch, ZenonT(60)
<1>4. TypeOK'
  BY <1>1, <1>3, ZenonT(60) DEF IInv, TypeOK
<1>5. /\ \A l : InLevel(l)' = InLevel(l)
      /\ Contents' = Contents
      /\ LevelsSorted' /\ Nested'
  BY <1>1, LevelsKept DEF IInv
<1> HIDE DEF InLevel, Contents
<1>6. Unlinked'
  BY Zenon, <1>1, <1>5 DEF IInv, Unlinked
<1>7. /\ op'[Writer] = "ge" /\ target'[Writer] = k
      /\ level'[Writer] = maxHeight - 1
  BY <1>1, <1>2, ZenonT(60) DEF Begin, IInv, TypeOK
<1>8. maxHeight \in Nat /\ Level \subseteq Nat
  BY Numbers DEF IInv, TypeOK
<1>9. \A l \in Level : ~(l > maxHeight - 1 /\ l < maxHeight)
  BY <1>8
<1>10. maxHeight - 1 < maxHeight
  BY <1>8
<1>11. InsertInv'
  BY <1>1, <1>5, <1>7, <1>9, <1>10 DEF IInv, InsertInv
<1> QED
  BY <1>3, <1>4, <1>5, <1>6, <1>11 DEF IInv

(* The search is complete on all levels, and levels above max_height_ have *)
(* nothing but head_: prev[] is right on all levels of the new node.       *)
LEMMA InsertHeightInv ==
  ASSUME ConstAssumption, IInv, NEW h \in RandomHeight, InsertHeight(h)
  PROVE  IInv'
<1> DEFINE k == target[Writer]
<1>1. /\ pc = "search" /\ AtEnd(Writer) /\ level[Writer] = 0
      /\ op' = [op EXCEPT ![Writer] = "idle"]
      /\ prev' = [l \in Level |-> IF l = 0 THEN x[Writer]
                                  ELSE IF l \in maxHeight .. h - 1 THEN Head
                                  ELSE prev[l]]
      /\ maxHeight' = IF h > maxHeight THEN h ELSE maxHeight
      /\ height' = h /\ i' = 0 /\ pc' = "store"
      /\ UNCHANGED <<next, target, x, level, before, iter>>
  BY DEF InsertHeight
<1>2. Writer \in Proc /\ Head \in Node
  BY ZenonT(60) DEF Proc, Node
<1>3. /\ h \in 1 .. kMaxHeight /\ maxHeight \in 1 .. kMaxHeight
      /\ maxHeight' \in 1 .. kMaxHeight
      /\ h <= maxHeight' /\ maxHeight <= maxHeight'
  BY <1>1 DEF IInv, TypeOK, RandomHeight, ConstAssumption
<1>4. TypeOK'
  <2>1. prev' \in [Level -> Node]
    BY <1>1, <1>2 DEF IInv, TypeOK
  <2>2. op' \in [Proc -> {"idle", "ge", "lt", "last"}]
    BY Zenon, <1>1 DEF IInv, TypeOK
  <2>3. i' \in 0 .. kMaxHeight
    BY <1>1 DEF ConstAssumption
  <2> QED
    BY <1>1, <1>3, <2>1, <2>2, <2>3, ZenonT(60) DEF IInv, TypeOK
<1>5. /\ \A l : InLevel(l)' = InLevel(l)
      /\ Contents' = Contents
      /\ LevelsSorted' /\ Nested'
  BY <1>1, LevelsKept, ZenonT(60) DEF IInv
<1>6. k \in Key /\ k \notin Contents
  BY <1>1 DEF IInv, InsertInv
<1>7. \A l \in Level : k \notin InLevel(l)
  BY <1>6, Numbers DEF IInv, Nested, Contents
<1>8. IsPrev(x[Writer], 0, k)
  <2>1. op[Writer] # "idle" /\ ~(Loaded(Writer) < k)
    BY <1>1, ZenonT(60) DEF AtEnd, KeyIsAfterNode
  <2>2. Loaded(Writer) # k
    BY <1>1, <1>2, <1>6, <2>1, LoadedFacts, Numbers, ZenonT(60) DEF Contents
  <2>3. k < Loaded(Writer)
    BY <1>2, <2>1, <2>2, LoadedFacts
  <2> QED
    BY <1>1, <1>2, <2>1, <2>3, ZenonT(60) DEF IsPrev, Loaded, IInv, SearchInv
<1>9. \A l \in Level : l >= maxHeight => IsPrev(Head, l, k)
  <2> SUFFICES ASSUME NEW l \in Level, l >= maxHeight PROVE IsPrev(Head, l, k)
    BY ZenonT(60)
  <2>1. InLevel(l) = {}
    BY ZenonT(60) DEF IInv, InsertInv
  <2>2. next[l][Head] = Null
    BY <2>1, ZenonT(60) DEF IInv, LevelsSorted
  <2> QED
    BY <1>6, <2>2, Numbers DEF IsPrev, Head
<1>10. \A l \in Level : l > 0 /\ l < maxHeight => IsPrev(prev[l], l, k)
  BY <1>1, ZenonT(60) DEF IInv, InsertInv
<1>11. \A l \in Level : l < h => IsPrev(prev'[l], l, k)
  <2> SUFFICES ASSUME NEW l \in Level, l < h PROVE IsPrev(prev'[l], l, k)
    OBVIOUS
  <2>1. l \in Nat
    BY Numbers, ZenonT(60)
  <2>2. CASE l = 0
    BY <1>1, <1>8, <2>2, ZenonT(60)
  <2>3. CASE l >= maxHeight
    BY <1>1, <1>3, <1>9, <2>1, <2>3
  <2>4. CASE l > 0 /\ l < maxHeight
    BY <1>1, <1>3, <1>10, <2>1, <2>4
  <2> QED
    BY <1>3, <2>1, <2>2, <2>3, <2>4
<1>12. \A l \in Level : IsPrev(prev'[l], l, k) => IsPrev(prev[l], l, target[Writer])'
  BY <1>1, <1>5, ZenonT(60) DEF IsPrev
<1> HIDE DEF InLevel, Contents
<1>13. SearchInv'
  BY <1>1, <1>5 DEF IInv, TypeOK, SearchInv
<1>14. Unlinked'
  BY Zenon, <1>1, <1>5 DEF IInv, Unlinked
<1>15. op'[Writer] = "idle"
  BY <1>1, <1>2, ZenonT(60) DEF IInv, TypeOK
<1>16. \A l \in Level : l >= maxHeight' => InLevel(l)' = {}
  BY <1>3, <1>5, Numbers DEF IInv, InsertInv
<1>17. /\ i' < height' /\ height' <= maxHeight'
       /\ \A l \in Level : ~(l < i')
       /\ \A l \in Level : target'[Writer] \notin InLevel(l)'
       /\ \A l \in Level : l < height' => IsPrev(prev[l], l, target[Writer])'
  BY <1>1, <1>3, <1>5, <1>7, <1>11, <1>12, Numbers
<1>18. InsertInv'
  BY <1>1, <1>6, <1>15, <1>16, <1>17, ZenonT(60) DEF InsertInv
<1> QED
  BY <1>4, <1>5, <1>13, <1>14, <1>18, ZenonT(60) DEF IInv

(* Where the writer stores: its level, its node and the one before it. *)
LEMMA StoreFacts ==
  ASSUME ConstAssumption, IInv, pc \in {"store", "publish"}
  PROVE  /\ i \in Level /\ i + 1 \in Nat
         /\ target[Writer] \in Key /\ target[Writer] \in Node
         /\ target[Writer] # Head /\ Head \in Node
         /\ prev[i] \in Node /\ prev[i] # target[Writer]
         /\ IsPrev(prev[i], i, target[Writer])
         /\ target[Writer] \notin InLevel(i)
<1>1. i < height /\ height \in 1 .. kMaxHeight /\ i \in 0 .. kMaxHeight
  BY DEF IInv, InsertInv, TypeOK
<1>2. i \in Level /\ i >= i /\ i + 1 \in Nat
  BY <1>1 DEF Level, ConstAssumption
<1>3. target[Writer] \in Key
  BY ZenonT(60) DEF IInv, InsertInv
<1>4. target[Writer] # Head /\ target[Writer] \in Node /\ Head \in Node
  BY <1>3, Numbers, ZenonT(60) DEF Node, Head
<1>5. IsPrev(prev[i], i, target[Writer]) /\ target[Writer] \notin InLevel(i)
  BY <1>1, <1>2, ZenonT(60) DEF IInv, InsertInv
<1>6. prev[i] \in Node
  BY <1>2, ZenonT(60) DEF IInv, TypeOK
<1>7. prev[i] # target[Writer]
  BY <1>4, <1>5 DEF IsPrev
<1> QED
  BY <1>2, <1>3, <1>4, <1>5, <1>6, <1>7, ZenonT(60)

(* x->NoBarrier_SetNext: the link of a node that nothing leads to on this  *)
(* level changes nothing that a reader can see.                            *)
LEMMA InsertStoreInv ==
  ASSUME ConstAssumption, IInv, InsertStore
  PROVE  IInv'
<1> DEFINE k == target[Writer]
           s == next[i][prev[i]]
<1>1. /\ pc = "store" /\ pc' = "publish"
      /\ next' = [next EXCEPT ![i][k] = s]
      /\ UNCHANGED <<maxHeight, searchVars, prev, height, i>>
  BY ZenonT(60) DEF InsertStore, LevelOf
<1>2. /\ i \in Level /\ k \in Key /\ k \in Node /\ k # Head /\ Head \in Node
      /\ prev[i] \in Node /\ prev[i] # k
      /\ IsPrev(prev[i], i, k) /\ k \notin InLevel(i)
  BY <1>1, StoreFacts, ZenonT(60)
<1>3. next \in [Level -> [Node -> Link \cup {Unset}]]
  BY ZenonT(60) DEF IInv, TypeOK
<1>4. \A l \in Level, n \in Node :
        next'[l][n] = IF l = i /\ n = k THEN s ELSE next[l][n]
  BY <1>1, <1>2, <1>3, ZenonT(60)
<1>5. next[i][k] = Unset /\ Unset \notin Key
  BY <1>1, <1>2, Numbers DEF IInv, Unlinked, Unset
<1>6. \A l \in Level : InLevel(l)' = InLevel(l)
  <2> SUFFICES ASSUME NEW l \in Level PROVE InLevel(l)' = InLevel(l)
    BY ZenonT(60)
  <2>1. \A m \in Key, n \in Node : next[l][n] = m => next'[l][n] = m
    BY <1>4, <1>5, ZenonT(60)
  <2>2. \A m \in Key, n \in Node :
          next'[l][n] = m => next[l][n] = m \/ next[l][prev[i]] = m
    BY <1>4
  <2>3. \A m \in Key : (\E n \in Node : next'[l][n] = m)
                     <=> (\E n \in Node : next[l][n] = m)
    BY Zenon, <1>2, <2>1, <2>2
  <2> QED
    BY Zenon, <2>3 DEF InLevel
<1>7. Contents' = Contents
  BY <1>6, Numbers, ZenonT(60) DEF Contents
<1>8. \A l \in Level : \A n \in InLevel(l) \cup {Head} :
        n \in Node /\ next'[l][n] = next[l][n]
  <2>1. \A l \in Level : InLevel(l) \subseteq Node
    BY ZenonT(60) DEF InLevel, Node
  <2> QED
    BY <1>2, <1>4, <2>1, ZenonT(60)
<1>9. s \in Link \cup {Unset}
  BY <1>2, <1>3, ZenonT(60)
<1> HIDE DEF InLevel, Contents, s
<1>10. TypeOK'
  <2>1. next' \in [Level -> [Node -> Link \cup {Unset}]]
    BY <1>1, <1>2, <1>3, <1>9, ZenonT(60)
  <2> QED
    BY <1>1, <2>1 DEF IInv, TypeOK, searchVars
<1>11. LevelsSorted' /\ Nested'
  BY <1>6, <1>8 DEF IInv, LevelsSorted, Nested
<1>12. SearchInv'
  <2>1. \A p \in Proc : level[p] \in Level
    BY ZenonT(60) DEF IInv, TypeOK
  <2> QED
    BY <1>1, <1>6, <1>7, <2>1, ZenonT(60) DEF IInv, SearchInv, searchVars
<1>13. Unlinked'
  <2>1. \A n \in Key : n \in Node
    BY DEF Node
  <2> QED
    BY <1>1, <1>4, <1>6, <2>1 DEF IInv, Unlinked, searchVars
<1>14. \A l \in Level : \A n : IsPrev(n, l, k) => IsPrev(n, l, k)'
  BY <1>1, <1>6, <1>8, ZenonT(60) DEF IsPrev, searchVars
<1>15. next'[i][k] = next'[i][prev[i]]
  BY <1>2, <1>4, ZenonT(60) DEF s
<1>16. InsertInv'
  <2>1. /\ op' = op /\ target' = target /\ level' = level /\ prev' = prev
        /\ height' = height /\ i' = i /\ maxHeight' = maxHeight
    BY <1>1, ZenonT(60) DEF searchVars
  <2> QED
    BY <1>1, <1>6, <1>7, <1>14, <1>15, <2>1 DEF IInv, InsertInv
<1> QED
  BY <1>10, <1>11, <1>12, <1>13, <1>16, ZenonT(60) DEF IInv

(* prev[i]->SetNext: the level gains the new node, in its place, and loses *)
(* nothing.                                                                *)
LEMMA PublishFacts ==
  ASSUME ConstAssumption, IInv, InsertPublish
  PROVE  /\ \A l \in Level, n \in Node :
              next'[l][n] = IF l = i /\ n = prev[i] THEN target[Writer]
                            ELSE next[l][n]
         /\ \A l \in Level :
              InLevel(l)' = IF l = i THEN InLevel(l) \cup {target[Writer]}
                            ELSE InLevel(l)
         /\ Contents \subseteq Contents'
<1> DEFINE k == target[Writer]
<1>1. pc = "publish" /\ next' = [next EXCEPT ![i][prev[i]] = k]
  BY ZenonT(60) DEF InsertPublish, LevelOf
<1>2. /\ i \in Level /\ k \in Key /\ k \in Node
      /\ prev[i] \in Node /\ prev[i] # k
  BY <1>1, StoreFacts, ZenonT(60)
<1>3. next \in [Level -> [Node -> Link \cup {Unset}]]
  BY DEF IInv, TypeOK
<1>4. \A l \in Level, n \in Node :
        next'[l][n] = IF l = i /\ n = prev[i] THEN k ELSE next[l][n]
  BY <1>1, <1>2, <1>3, ZenonT(60)
<1>5. next[i][k] = next[i][prev[i]]
  BY <1>1, ZenonT(60) DEF IInv, InsertInv
<1>6. \A l \in Level : l # i => InLevel(l)' = InLevel(l)
  BY <1>4 DEF InLevel
<1>7. \A l \in Level : l = i => InLevel(l)' = InLevel(l) \cup {k}
  <2> SUFFICES ASSUME NEW l \in Level, l = i
               PROVE  InLevel(l)' = InLevel(l) \cup {k}
    BY ZenonT(60)
  <2>1. \A m \in Key, n \in Node :
          next[l][n] = m => next'[l][n] = m \/ next'[l][k] = m
    BY <1>2, <1>4, <1>5, ZenonT(60)
  <2>2. next'[l][prev[i]] = k
    BY <1>2, <1>4, ZenonT(60)
  <2>3. \A m \in Key, n \in Node : next'[l][n] = m => next[l][n] = m \/ m = k
    BY <1>4
  <2>4. \A m \in Key : (\E n \in Node : next'[l][n] = m)
                     <=> (\E n \in Node : next[l][n] = m) \/ m = k
    BY Zenon, <1>2, <2>1, <2>2, <2>3
  <2>5. \A m : m \in InLevel(l)' <=> m \in InLevel(l) \/ m = k
    BY Zenon, <1>2, <2>4 DEF InLevel
  <2> QED
    BY <2>5
<1>8. Contents \subseteq Contents'
  BY <1>6, <1>7, Numbers, ZenonT(60) DEF Contents
<1> QED
  BY <1>4, <1>6, <1>7, <1>8, ZenonT(60)

(* prev[i]->SetNext(i, x): two links change what they skip, no others. *)
LEMMA InsertPublishInv ==
  ASSUME ConstAssumption, IInv, InsertPublish
  PROVE  IInv'
<1> DEFINE k == target[Writer]
           q == prev[i]
           s == next[i][q]
<1>1. /\ pc = "publish" /\ i' = i + 1
      /\ next' = [next EXCEPT ![i][q] = k]
      /\ pc' = IF i + 1 < height THEN "store" ELSE "idle"
      /\ UNCHANGED <<maxHeight, searchVars, prev, height>>
  BY ZenonT(60) DEF InsertPublish, LevelOf
<1>2. /\ i \in Level /\ i \in Nat /\ k \in Key /\ k \in Node /\ k # Head
      /\ Head \in Node /\ q \in Node /\ q # k
      /\ IsPrev(q, i, k) /\ k \notin InLevel(i)
  BY <1>1, StoreFacts, Numbers, ZenonT(60)
<1>3. /\ \A l \in Level, n \in Node :
           next'[l][n] = IF l = i /\ n = q THEN k ELSE next[l][n]
      /\ \A l \in Level :
           InLevel(l)' = IF l = i THEN InLevel(l) \cup {k} ELSE InLevel(l)
      /\ Contents \subseteq Contents'
  BY PublishFacts, ZenonT(60)
<1>4. /\ next[i][k] = s /\ i < height /\ height <= maxHeight
      /\ height \in 1 .. kMaxHeight
      /\ \A l \in Level : l < i => k \in InLevel(l)
      /\ \A l \in Level : l >= i => k \notin InLevel(l)
      /\ \A l \in Level : l >= i /\ l < height => IsPrev(prev[l], l, k)
  BY <1>1 DEF IInv, InsertInv, TypeOK
<1>5. \A l \in Level : InLevel(l) \subseteq Key
  BY DEF InLevel
<1>6. \A n \in Key \cup {Head} : n \in Node /\ n \in Nat
  BY Numbers, ZenonT(60) DEF Node, Head
<1> HIDE DEF InLevel
<1>7. TypeOK'
  <2>1. next' \in [Level -> [Node -> Link \cup {Unset}]]
    BY <1>1, <1>2, ZenonT(60) DEF IInv, TypeOK, Link
  <2>2. i' \in 0 .. kMaxHeight
    BY <1>1, <1>2, <1>4 DEF ConstAssumption
  <2>3. pc' \in {"idle", "search", "store", "publish"}
    BY <1>1, ZenonT(60)
  <2> QED
    BY <1>1, <2>1, <2>2, <2>3, ZenonT(60) DEF IInv, TypeOK, searchVars
<1>8. LevelsSorted'
  <2> SUFFICES ASSUME NEW l \in Level, NEW n \in InLevel(l)' \cup {Head}
               PROVE  /\ next'[l][n] \in InLevel(l)' \cup {Null}
                      /\ n < next'[l][n]
                      /\ \A m \in InLevel(l)' : ~(n < m /\ m < next'[l][n])
    BY ZenonT(60) DEF LevelsSorted
  <2>1. CASE l # i
    <3>1. InLevel(l)' = InLevel(l) /\ n \in InLevel(l) \cup {Head} /\ n \in Node
      BY Zenon, <1>3, <1>5, <1>6, <2>1
    <3>2. next'[l][n] = next[l][n]
      BY <1>3, <2>1, <3>1, ZenonT(60)
    <3> QED
      BY <3>1, <3>2 DEF IInv, LevelsSorted
  <2>2. CASE l = i
    <3> DEFINE L == InLevel(l)
    <3>1. InLevel(l)' = L \cup {k} /\ L \subseteq Key /\ k \notin L
      BY <1>2, <1>3, <1>5, <2>2, ZenonT(60)
    <3>2. /\ q \in L \cup {Head} /\ q < k /\ k < s
          /\ s \in L \cup {Null} /\ q < s
          /\ \A m \in L : ~(q < m /\ m < s)
      BY <1>2, <2>2 DEF IsPrev, IInv, LevelsSorted
    <3>3. /\ k \in Nat /\ q \in Nat /\ s \in Nat
          /\ \A m \in L : m \in Nat /\ 0 < m
      BY Zenon, <1>2, <1>6, <3>1, <3>2, Numbers
    <3>4. CASE n = q
      <4>1. next'[l][n] = k
        BY <1>2, <1>3, <2>2, <3>4, ZenonT(60)
      <4>2. \A m \in L : ~(n < m /\ m < k)
        BY <3>2, <3>3, <3>4
      <4>3. ~(k < k)
        BY <3>3
      <4> QED
        BY <3>1, <3>2, <3>4, <4>1, <4>2, <4>3, ZenonT(60)
    <3>5. CASE n = k
      <4>1. next'[l][n] = s
        BY <1>2, <1>3, <1>4, <2>2, <3>5, ZenonT(60)
      <4>2. \A m \in L : ~(k < m /\ m < s)
        BY <3>2, <3>3
      <4>3. ~(k < k)
        BY <3>3
      <4> QED
        BY <3>1, <3>2, <3>5, <4>1, <4>2, <4>3, ZenonT(60)
    <3>6. CASE n # q /\ n # k
      <4>1. n \in L \cup {Head} /\ n \in Node /\ n \in Nat
        BY Zenon, <1>6, <3>1, <3>6
      <4>2. next'[l][n] = next[l][n]
        BY <1>3, <3>6, <4>1, ZenonT(60)
      <4> DEFINE z == next[l][n]
      <4>3. /\ z \in L \cup {Null} /\ n < z
            /\ \A m \in L : ~(n < m /\ m < z)
        BY <4>1, ZenonT(60) DEF IInv, LevelsSorted
      <4>4. z \in Nat
        BY <3>3, <4>3, Numbers, ZenonT(60)
      <4>5. ~(n < k /\ k < z)
        <5> SUFFICES ASSUME n < k, k < z PROVE FALSE
          BY ZenonT(60)
        <5>1. CASE n < q
          <6>1. q \in L
            BY <3>2, <4>1, <5>1 DEF Head
          <6>2. q < z
            BY <3>2, <3>3, <4>4
          <6> QED
            BY <4>3, <5>1, <6>1, <6>2, ZenonT(60)
        <5>2. CASE q < n
          <6>1. n \in L
            BY <3>3, <4>1, <5>2 DEF Head
          <6>2. n < s
            BY <3>2, <3>3, <4>1
          <6> QED
            BY <3>2, <5>2, <6>1, <6>2, ZenonT(60)
        <5> QED
          BY <3>3, <3>6, <4>1, <5>1, <5>2
      <4> HIDE DEF L, z
      <4> QED
        BY <3>1, <4>2, <4>3, <4>5, ZenonT(60) DEF z
    <3> QED
      BY <3>4, <3>5, <3>6, ZenonT(60)
  <2> QED
    BY <2>1, <2>2
<1>9. Nested'
  <2> SUFFICES ASSUME NEW l \in Level, NEW m \in Level, m <= l
               PROVE  InLevel(l)' \subseteq InLevel(m)'
    BY DEF Nested
  <2>1. InLevel(l) \subseteq InLevel(m)
    BY ZenonT(60) DEF IInv, Nested
  <2>2. InLevel(m) \subseteq InLevel(m)'
    BY <1>3
  <2>3. CASE l # i
    BY <1>3, <2>1, <2>2, <2>3, ZenonT(60)
  <2>4. CASE l = i
    <3>1. m = i \/ m < i
      BY <1>2, <2>4, Numbers
    <3>2. k \in InLevel(m)'
      BY <1>3, <1>4, <3>1, ZenonT(60)
    <3> QED
      BY <1>3, <2>1, <2>2, <2>4, <3>2
  <2> QED
    BY <2>3, <2>4
<1>10. Unlinked'
  <2> SUFFICES ASSUME NEW l \in Level, NEW n \in Key
               PROVE  n \in InLevel(l)' \/ next'[l][n] = Unset
    BY ZenonT(60) DEF Unlinked
  <2>1. n \in InLevel(l) \/ next[l][n] = Unset \/ (l = i /\ n = k)
    BY DEF IInv, Unlinked
  <2>2. n \in InLevel(l) \/ (l = i /\ n = k) => n \in InLevel(l)'
    BY <1>3, ZenonT(60)
  <2>3. CASE n \notin InLevel(l) /\ next[l][n] = Unset
    <3>1. ~(l = i /\ n = q)
      BY <1>2, <2>3, Numbers, ZenonT(60) DEF IsPrev, Head
    <3> QED
      BY <1>3, <1>6, <2>3, <3>1, ZenonT(60)
  <2> QED
    BY <2>1, <2>2, <2>3
<1>11. SearchInv'
  <2>1. \A p \in Proc : level[p] \in Level
    BY ZenonT(60) DEF IInv, TypeOK
  <2>2. \A l \in Level : InLevel(l) \subseteq InLevel(l)'
    BY <1>3, ZenonT(60)
  <2>3. /\ op' = op /\ target' = target /\ level' = level /\ x' = x
        /\ before' = before /\ iter' = iter
    BY <1>1, ZenonT(60) DEF searchVars
  <2> QED
    BY <1>3, <2>1, <2>2, <2>3, ZenonT(60) DEF IInv, SearchInv
<1>12. \A l \in Level : \A n : l # i /\ IsPrev(n, l, k) => IsPrev(n, l, k)'
  <2>1. target' = target
    BY <1>1, ZenonT(60) DEF searchVars
  <2> SUFFICES ASSUME NEW l \in Level, NEW n, l # i, IsPrev(n, l, k)
               PROVE  IsPrev(n, l, k)'
    OBVIOUS
  <2>2. n \in Node /\ InLevel(l)' = InLevel(l)
    BY Zenon, <1>3, <1>5, <1>6 DEF IsPrev
  <2>3. next'[l][n] = next[l][n]
    BY <1>3, <2>2, ZenonT(60)
  <2> QED
    BY <2>1, <2>2, <2>3 DEF IsPrev
<1>13. InsertInv'
  <2>1. /\ op' = op /\ target' = target /\ prev' = prev
        /\ height' = height /\ maxHeight' = maxHeight
    BY <1>1, ZenonT(60) DEF searchVars
  <2>2. op[Writer] = "idle"
    BY <1>1, ZenonT(60) DEF IInv, InsertInv
  <2>3. \A l \in Level : l >= maxHeight => InLevel(l)' = {}
    <3>1. \A l \in Level : l >= maxHeight => l # i
      BY <1>2, <1>4, Numbers DEF IInv, TypeOK
    <3> QED
      BY <1>3, <3>1, ZenonT(60) DEF IInv, InsertInv
  <2>4. \A l \in Level : l < i + 1 => k \in InLevel(l)'
    <3>1. \A l \in Level : l < i + 1 => l < i \/ l = i
      BY <1>2, Numbers
    <3> QED
      BY <1>3, <1>4, <3>1, ZenonT(60)
  <2>5. \A l \in Level : l >= i + 1 => l >= i /\ l # i
    BY <1>2, Numbers
  <2>6. \A l \in Level : l >= i + 1 => k \notin InLevel(l)'
    BY <1>3, <1>4, <2>5, ZenonT(60)
  <2>7. \A l \in Level : l >= i + 1 /\ l < height => IsPrev(prev[l], l, target[Writer])'
    <3> SUFFICES ASSUME NEW l \in Level, l >= i + 1, l < height
                 PROVE  IsPrev(prev[l], l, target[Writer])'
      BY ZenonT(60)
    <3>1. IsPrev(prev[l], l, k)
      BY <1>4, <2>5
    <3>2. PICK n : n = prev[l]
      BY ZenonT(60)
    <3>3. IsPrev(n, l, k)'
      BY <1>12, <2>5, <3>1, <3>2
    <3> QED
      BY <2>1, <3>2, <3>3
  <2> QED
    BY <1>1, <1>2, <1>4, <2>1, <2>2, <2>3, <2>4, <2>6, <2>7 DEF InsertInv
<1> QED
  BY <1>7, <1>8, <1>9, <1>10, <1>11, <1>13 DEF IInv

(* Every step of the writer and of the readers preserves the invariant. *)
LEMMA NextInv ==
  ASSUME ConstAssumption, IInv, [Next]_vars
  PROVE  IInv'
<1>1. CASE Next
  <2>1. CASE Insert
    <3>1. Writer \in Proc
      BY ZenonT(60) DEF Proc
    <3> QED
      BY <2>1, <3>1, AdvanceInv, DropInv, InsertBeginInv, InsertHeightInv,
         InsertStoreInv, InsertPublishInv DEF Insert, Search
  <2>2. CASE \E r \in Reader : Read(r)
    <3> PICK r \in Reader : Read(r)
      BY <2>2
    <3>1. r \in Proc
      BY DEF Proc
    <3> QED
      BY <3>1, AdvanceInv, DropInv, ReaderBeginInv, IterInv DEF Read, Search
  <2> QED
    BY <1>1, <2>1, <2>2, ZenonT(60) DEF Next
<1>2. CASE UNCHANGED vars
  <2>1. /\ UNCHANGED <<next, maxHeight, op, target, x, level, before, iter>>
        /\ UNCHANGED <<pc, prev, height, i>>
    BY <1>2, ZenonT(60) DEF vars, searchVars, insertVars
  <2>2. /\ \A l : InLevel(l)' = InLevel(l)
        /\ Contents' = Contents /\ LevelsSorted' /\ Nested'
    BY <2>1, LevelsKept, ZenonT(60) DEF IInv
  <2>3. TypeOK'
    BY <2>1 DEF IInv, TypeOK
  <2>4. Unlinked'
    BY Zenon, <2>1, <2>2 DEF IInv, Unlinked
  <2>5. SearchInv'
    BY <2>1, <2>2, ZenonT(60) DEF IInv, SearchInv
  <2>6. InsertInv'
    BY <2>1, <2>2 DEF IInv, InsertInv, IsPrev
  <2> QED
    BY <2>2, <2>3, <2>4, <2>5, <2>6, ZenonT(60) DEF IInv
<1> QED
  BY <1>1, <1>2

-----------------------------------------------------------------------------
(* Theorems                                                                *)

(* The inductive invariant holds in every state of the skip list. *)
THEOREM Invariance == Spec => []IInv
<1>1. Init => IInv
  BY InitInv, ConstAssumption
<1>2. IInv /\ [Next]_vars => IInv'
  BY NextInv, ConstAssumption
<1> QED
  BY <1>1, <1>2, PTL DEF Spec

(* Every variable of the searches and of Insert keeps its type. *)
THEOREM TypeCorrect == Spec => []TypeOK
<1>1. IInv => TypeOK
  BY DEF IInv
<1> QED
  BY <1>1, Invariance, PTL

(* Every level is a sorted list of its nodes at every store of Insert. *)
THEOREM SortedAlways == Spec => []LevelsSorted
<1>1. IInv => LevelsSorted
  BY DEF IInv
<1> QED
  BY <1>1, Invariance, PTL

(* A node on a level is on the level below it, at every store of Insert. *)
THEOREM NestedAlways == Spec => []LevelsNested
<1>1. IInv => LevelsNested
  <2> SUFFICES ASSUME IInv, NEW l \in Level \ {0}
               PROVE  InLevel(l) \subseteq InLevel(l - 1)
    BY DEF LevelsNested
  <2>1. l - 1 \in Level /\ l \in Level /\ l - 1 <= l
    BY ConstAssumption DEF Level
  <2> QED
    BY <2>1 DEF IInv, Nested
<1> QED
  BY <1>1, Invariance, PTL

(* No search and no iterator loads a link that has not been stored. *)
THEOREM StoredAlways == Spec => []LinksStored
<1>1. IInv => LinksStored
  <2> SUFFICES ASSUME IInv PROVE LinksStored
    OBVIOUS
  <2>1. \A n \in Nat : n # Unset
    BY DEF Unset
  <2>2. ASSUME NEW p \in Proc, op[p] # "idle" PROVE Loaded(p) # Unset
    BY <2>1, <2>2, LoadedFacts, ConstAssumption
  <2>3. ASSUME NEW r \in Reader, iter[r] # Null PROVE next[0][iter[r]] # Unset
    <3>1. iter[r] \in InLevel(0) /\ 0 \in Level
      BY Zenon, <2>3, Numbers, ConstAssumption DEF IInv, SearchInv, Contents
    <3>2. next[0][iter[r]] \in InLevel(0) \cup {Null} /\ InLevel(0) \subseteq Key
      BY <3>1, ZenonT(60) DEF IInv, LevelsSorted, InLevel
    <3> QED
      BY Zenon, <2>1, <3>2, Numbers, ConstAssumption
  <2> QED
    BY <2>2, <2>3 DEF LinksStored
<1> QED
  BY <1>1, Invariance, PTL

(* What a returning search has found, from the invariant: see SearchExact. *)
LEMMA ReturnExact ==
  ASSUME ConstAssumption, IInv, NEW r \in Reader, Return(r)
  PROVE  LET k == target[r]  found == iter'[r]
             missed(lo, hi) == \E b \in before[r] : lo <= b /\ b < hi
         IN /\ found \in Contents \cup {Null}
            /\ op[r] = "ge" => /\ k <= found /\ ~missed(k, found)
                               /\ k \in before[r] => Contains(k, found)
            /\ op[r] # "ge" => /\ found # Null => found < k
                               /\ ~missed(IF found = Null THEN 0 ELSE found + 1, k)
<1> DEFINE k == target[r]
           y == Loaded(r)
           found == iter'[r]
<1>1. /\ op[r] # "idle" /\ ~(y < k) /\ level[r] = 0
      /\ iter' = [iter EXCEPT ![r] = Found(r)] /\ r \in Proc
  BY ZenonT(60) DEF Return, AtEnd, KeyIsAfterNode, Proc
<1>2. found = IF op[r] = "ge" THEN y ELSE IF x[r] = Head THEN Null ELSE x[r]
  BY <1>1, ZenonT(60) DEF IInv, TypeOK, Found
<1>3. /\ x[r] \in Contents \cup {Head} /\ x[r] < k
      /\ before[r] \subseteq Contents
  BY <1>1 DEF IInv, SearchInv, Contents
<1>4. /\ y \in Contents \cup {Null} /\ x[r] < y
      /\ \A b \in Contents : ~(x[r] < b /\ b < y)
      /\ k \in Nat /\ y \in Nat /\ x[r] \in Nat
  BY Zenon, <1>1, LoadedFacts, Numbers DEF Contents
<1>5. \A b \in before[r] : b \in Contents /\ b \in Nat /\ b < Null /\ 0 < b
  BY Zenon, <1>3, Numbers DEF Contents, InLevel
<1>6. Null \in Nat /\ 0 \in Nat
  BY Numbers, ZenonT(60)
<1> HIDE DEF y
<1>7. found \in Contents \cup {Null}
  BY <1>2, <1>3, <1>4, ZenonT(60)
<1>8. CASE op[r] = "ge"
  <2>1. found = y /\ k <= y
    BY <1>1, <1>2, <1>4, <1>8
  <2>2. \A b \in before[r] : ~(k <= b /\ b < y)
    BY <1>3, <1>4, <1>5
  <2>3. k \in before[r] => y = k /\ y # Null
    BY <1>4, <1>5, <1>6, <2>1, <2>2
  <2> QED
    BY <1>7, <1>8, <2>1, <2>2, <2>3, ZenonT(60) DEF Contains
<1>9. CASE op[r] # "ge"
  <2>1. \A b \in before[r] : ~(x[r] + 1 <= b /\ b < k)
    BY <1>1, <1>4, <1>5
  <2>2. CASE x[r] = Head
    <3>1. found = Null
      BY <1>2, <1>9, <2>2, ZenonT(60)
    <3>2. \A b \in before[r] : ~(0 <= b /\ b < k)
      BY <1>5, <2>1, <2>2 DEF Head
    <3> QED
      BY <1>7, <1>9, <3>1, <3>2, ZenonT(60)
  <2>3. CASE x[r] # Head
    <3>1. found = x[r] /\ found # Null
      BY <1>2, <1>3, <1>9, <2>3, Numbers DEF Contents, InLevel
    <3> QED
      BY <1>3, <1>7, <1>9, <2>1, <3>1, ZenonT(60)
  <2> QED
    BY <2>2, <2>3, ZenonT(60)
<1> QED
  BY <1>8, <1>9

(* FindGreaterOrEqual, FindLessThan and FindLast answer for what was in    *)
(* the list when they began, whatever is inserted under way.               *)
THEOREM SearchesExact == Spec => SearchExact
<1>1. IInv /\ [Next]_vars =>
        [\A r \in Reader : Return(r) =>
           LET k == target[r]  found == iter'[r]
               missed(lo, hi) == \E b \in before[r] : lo <= b /\ b < hi
           IN /\ found \in Contents \cup {Null}
              /\ op[r] = "ge" => /\ k <= found /\ ~missed(k, found)
                                 /\ k \in before[r] => Contains(k, found)
              /\ op[r] # "ge" => /\ found # Null => found < k
                                 /\ ~missed(IF found = Null THEN 0 ELSE found + 1, k)
        ]_vars
  BY ReturnExact, ConstAssumption
<1> QED
  BY <1>1, Invariance, PTL DEF Spec, SearchExact

(* Iterator::Next leads to the least greater key of the list. *)
THEOREM ScansUpward == Spec => ScanUpward
<1>1. ASSUME IInv, NEW r \in Reader, IterNext(r)
      PROVE  /\ iter[r] < iter'[r]
             /\ \A b \in Contents : ~(iter[r] < b /\ b < iter'[r])
  <2>1. iter[r] \in InLevel(0) /\ 0 \in Level
    BY <1>1, Numbers, ConstAssumption DEF IInv, SearchInv, Contents, IterNext
  <2>2. iter'[r] = next[0][iter[r]]
    BY <1>1 DEF IInv, TypeOK, IterNext
  <2> QED
    BY <1>1, <2>1, <2>2, ZenonT(60) DEF IInv, LevelsSorted, Contents
<1>2. IInv /\ [Next]_vars =>
        [\A r \in Reader : IterNext(r) =>
           /\ iter[r] < iter'[r]
           /\ \A b \in Contents : ~(iter[r] < b /\ b < iter'[r])]_vars
  BY <1>1, ZenonT(60)
<1> QED
  BY <1>2, Invariance, PTL DEF Spec, ScanUpward

(* No step takes a node off a level. *)
LEMMA LevelsGrow ==
  ASSUME ConstAssumption, IInv, [Next]_vars, NEW l \in Level
  PROVE  InLevel(l) \subseteq InLevel(l)'
<1>1. CASE UNCHANGED next
  BY <1>1, LevelsKept, ZenonT(60)
<1>2. CASE InsertPublish
  BY <1>2, PublishFacts
<1>3. CASE InsertStore
  <2>1. pc = "store" /\ next' = [next EXCEPT ![i][target[Writer]] = next[i][prev[i]]]
    BY <1>3 DEF InsertStore, LevelOf
  <2>2. /\ i \in Level /\ target[Writer] \in Key
        /\ next[i][target[Writer]] = Unset
    <3>1. i \in Level /\ target[Writer] \in Key /\ target[Writer] \notin InLevel(i)
      BY <2>1, StoreFacts, ZenonT(60)
    <3> QED
      BY <2>1, <3>1, ZenonT(60) DEF IInv, Unlinked
  <2>3. \A n \in Node : next[l][n] # Unset => next'[l][n] = next[l][n]
    BY <2>1, <2>2, ZenonT(60) DEF IInv, TypeOK
  <2>4. Unset \notin Key
    BY Numbers DEF Unset
  <2> QED
    BY <2>3, <2>4, ZenonT(60) DEF InLevel
<1> QED
  BY <1>1, <1>2, <1>3, ZenonT(60)
     DEF Next, Insert, Read, Search, Advance, Drop, Return,
     SeekToFirst, IterNext, Prev, SeekToLast, Seek, InsertBegin, InsertHeight, vars

(* A node once published on a level stays on it. *)
THEOREM NeverUnlinked == Spec => NothingUnlinked
<1>1. IInv /\ [Next]_vars => [\A l \in Level : InLevel(l) \subseteq InLevel(l)']_vars
  BY LevelsGrow, ConstAssumption
<1> QED
  BY <1>1, Invariance, PTL DEF Spec, NothingUnlinked
=============================================================================
