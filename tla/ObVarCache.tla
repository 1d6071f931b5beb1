----------------------------- MODULE ObVarCache -----------------------------
(***************************************************************************)
(* ObVarCache with its ObCHashTable, of                                    *)
(* src/ds_algor/lruCache/From Oceanbase/ob_cache.h: items are carved out   *)
(* of memory blocks, a block is recycled as a whole and freed when no      *)
(* ObCachePair points into it.                                             *)
(*                                                                         *)
(* Two kinds of locks protect it.  mutex_ covers the blocks, their list    *)
(* and recycling; each hash slot has a mutex of its own, and get, remove   *)
(* and revert reach items and reference counts without mutex_.  What is    *)
(* done under a slot mutex is one action; what is done under mutex_ is one *)
(* action where only its holder can see the difference, and recycle_block  *)
(* is one action per access that others can see.                           *)
(*                                                                         *)
(* An item is the pair of its block and its place in the block; a key is   *)
(* kept where it is used, in the table and with a pair that malloc gave.   *)
(* A client has one ObCachePair of its own and one for add's old_pair.  A  *)
(* call given a pair in use reverts it first, which is revert followed by  *)
(* the call.                                                               *)
(*                                                                         *)
(* hash_item_num_ is left out: add, remove and recycle_block change it     *)
(* under the mutexes of different slots, so updates get lost in both       *)
(* directions, and nothing but get_cache_item_num reads it.                *)
(***************************************************************************)
EXTENDS Integers, Sequences, FiniteSets, SequencesExt

CONSTANTS Thread, Key,
          Block,        \* addresses of LRUMemBlockHeads
          None,         \* NULL
          Size,         \* sizes of items
          BlockSize,    \* CACHE_MEM_BLOCK_SIZE
          Available,    \* available_mem_size_
          MaxTraverse,  \* WASH_OUT_TRAVERS_MAX_ITEM_NUM
          ClearAlone,   \* clients revert all pairs and stay out during clear
          MaxItems      \* bound on the items ever allocated

ASSUME CacheAssumption ==
  /\ None \notin Block /\ None \notin Thread
  /\ Size \subseteq Nat \ {0} /\ BlockSize \in Nat \ {0}
  /\ MaxTraverse \in Nat \ {0}
  /\ ClearAlone \in BOOLEAN

VARIABLES items,      \* sizes of the items carved out of each block
          itemNum,    \* item_num_ of each block
          refNum,     \* ref_num_ of each block
          blockSize,  \* block_size_ of each block; 0 when it is not in use
          lru,        \* lru_list_, from next() to prev()
          cur,        \* cur_mem_block_
          offset,     \* cur_mem_block_offset_
          allocated,  \* allocated_memory_size_
          table,      \* the item of each key in the hash table, or None
          totalRef,   \* total_ref_num_
          made,       \* items allocated so far
          mutex,      \* the thread that holds mutex_, or None
          pc,
          pair,       \* the item a thread's ObCachePair points to
          fresh,      \* the key in that pair when malloc gave it, or None
          oldPair,    \* the item add's old_pair points to
          taken,      \* the item remove took out of the table
          todo,       \* blocks the holder of mutex_ has yet to recycle
          traversed,  \* wash_out: blocks visited so far
          walked,     \* items recycle_block has passed in Head(todo)
          left,       \* wash_out: memory_size_handled - size_recycled
          cleared     \* history: the last call to return was a clear that
                      \* reported success

memVars == <<items, itemNum, blockSize, lru, cur, offset, allocated, made>>
pairVars == <<pair, fresh, oldPair, taken, totalRef>>
loopVars == <<todo, traversed, walked, left>>
vars == <<memVars, refNum, table, pairVars, loopVars, mutex, pc, cleared>>

Mother(it) == it[1]
SizeOf(it) == items[it[1]][it[2]]

(* Items whose hash_list_link_ is in a slot. *)
Linked == Range(table) \ {None}

(* Blocks obtained from ob_malloc and not freed. *)
Held == {b \in Block : blockSize[b] # 0}
Idle == Block \ Held

Init ==
  /\ items = [b \in Block |-> <<>>]
  /\ itemNum = [b \in Block |-> 0]
  /\ refNum = [b \in Block |-> 0]
  /\ blockSize = [b \in Block |-> 0]
  /\ lru = <<>> /\ cur = None /\ offset = 0 /\ allocated = 0 /\ made = 0
  /\ table = [k \in Key |-> None] /\ totalRef = 0 /\ mutex = None
  /\ pc = [t \in Thread |-> "idle"]
  /\ pair = [t \in Thread |-> None]
  /\ fresh = [t \in Thread |-> None]
  /\ oldPair = [t \in Thread |-> None]
  /\ taken = [t \in Thread |-> None]
  /\ todo = <<>> /\ traversed = 0 /\ walked = 0 /\ left = 0
  /\ cleared = FALSE

Goto(t, to) == pc' = [pc EXCEPT ![t] = to]

Room(size) == cur # None /\ offset + size <= BlockSize

(* The bounds on memory. *)
CanCarve(size) == made < MaxItems /\ (Room(size) \/ Idle # {})

(* The block allocate_cache_item takes an item from, and the item.  Which  *)
(* free block makes no difference.                                         *)
Target(size) == IF Room(size) THEN cur ELSE CHOOSE b \in Idle : TRUE
NewItem(size) == <<Target(size), Len(items[Target(size)]) + 1>>

(* allocate_cache_item without the references: when the item does not fit  *)
(* the current block goes to the front of the list, and a new block, large *)
(* enough for the item, becomes the current one.                           *)
allocate_cache_item(size) ==
  LET b == Target(size)
      new == IF size <= BlockSize THEN BlockSize ELSE size
  IN /\ items' = [items EXCEPT ![b] = Append(@, size)]
     /\ itemNum' = [itemNum EXCEPT ![b] = @ + 1]
     /\ cur' = b
     /\ IF Room(size)
        THEN offset' = offset + size /\ UNCHANGED <<lru, blockSize, allocated>>
        ELSE /\ lru' = IF cur = None THEN lru ELSE <<cur>> \o lru
             /\ blockSize' = [blockSize EXCEPT ![b] = new]
             /\ allocated' = allocated + new
             /\ offset' = size
     /\ made' = made + 1

(* malloc, and the client writes key k into the pair. *)
malloc(t, k, size) ==
  /\ pc[t] = "idle" /\ mutex = None /\ pair[t] = None /\ CanCarve(size)
  /\ allocate_cache_item(size)
  /\ refNum' = [refNum EXCEPT ![Target(size)] = @ + 1]
  /\ pair' = [pair EXCEPT ![t] = NewItem(size)]
  /\ fresh' = [fresh EXCEPT ![t] = k]
  /\ totalRef' = totalRef + 1
  /\ cleared' = FALSE
  /\ UNCHANGED <<table, oldPair, taken, loopVars, mutex, pc>>

(* ObCHashTable::add: an item with the same key is replaced, and old_pair  *)
(* gets a reference to it.  refs are taken on the total besides.           *)
HashAdd(t, item, k, refs) ==
  LET old == IF table[k] = item THEN None ELSE table[k]
  IN /\ table' = [table EXCEPT ![k] = item]
     /\ oldPair' = [oldPair EXCEPT ![t] = old]
     /\ IF old = None
        THEN totalRef' = totalRef + refs /\ UNCHANGED refNum
        ELSE /\ totalRef' = totalRef + refs + 1
             /\ refNum' = [refNum EXCEPT ![Mother(old)] = @ + 1]

(* As add, without the test that the block has been recycled. *)
addRecycled(t) ==
  /\ pc[t] = "idle" /\ mutex = None
  /\ pair[t] # None /\ fresh[t] # None /\ oldPair[t] = None
  /\ HashAdd(t, pair[t], fresh[t], 0)
  /\ Goto(t, "wash_out") /\ cleared' = FALSE
  /\ UNCHANGED <<memVars, pair, fresh, taken, loopVars, mutex>>

(* add of a pair from malloc.  When its block has been recycled the item   *)
(* is copied to a new one: allocate_cache_item takes a reference on the    *)
(* block and one in the total, and only the block's is given back.         *)
add(t) ==
  /\ pc[t] = "idle" /\ mutex = None
  /\ pair[t] # None /\ fresh[t] # None /\ oldPair[t] = None
  /\ LET size == SizeOf(pair[t])
     IN \/ /\ itemNum[Mother(pair[t])] # 0
           /\ HashAdd(t, pair[t], fresh[t], 0)
           /\ UNCHANGED memVars
        \/ /\ itemNum[Mother(pair[t])] = 0 /\ CanCarve(size)
           /\ allocate_cache_item(size)
           /\ HashAdd(t, NewItem(size), fresh[t], 1)
  /\ Goto(t, "wash_out") /\ cleared' = FALSE
  /\ UNCHANGED <<pair, fresh, taken, loopVars, mutex>>

(* get, under the slot mutex: the pair and its references. *)
get(t, k) ==
  /\ pc[t] = "idle" /\ pair[t] = None
  /\ IF table[k] = None
     THEN /\ Goto(t, "wash_out")
          /\ UNCHANGED <<refNum, pair, fresh, totalRef>>
     ELSE /\ pair' = [pair EXCEPT ![t] = table[k]]
          /\ refNum' = [refNum EXCEPT ![Mother(table[k])] = @ + 1]
          /\ totalRef' = totalRef + 1
          /\ Goto(t, "adjust") /\ UNCHANGED fresh
  /\ cleared' = FALSE
  /\ UNCHANGED <<memVars, table, oldPair, taken, loopVars, mutex>>

(* As AdjustLRU, without the test for the current block. *)
AdjustLRUCurrent(t) ==
  /\ pc[t] = "adjust" /\ mutex = None
  /\ lru' = <<Mother(pair[t])>> \o Remove(lru, Mother(pair[t]))
  /\ Goto(t, "wash_out")
  /\ UNCHANGED <<items, itemNum, blockSize, cur, offset, allocated, made,
                 refNum, table, pairVars, loopVars, mutex, cleared>>

(* get, under mutex_: the block moves to the front of the list. *)
AdjustLRU(t) ==
  /\ pc[t] = "adjust" /\ mutex = None
  /\ LET b == Mother(pair[t])
     IN lru' = IF b = cur THEN lru ELSE <<b>> \o Remove(lru, b)
  /\ Goto(t, "wash_out")
  /\ UNCHANGED <<items, itemNum, blockSize, cur, offset, allocated, made,
                 refNum, table, pairVars, loopVars, mutex, cleared>>

(* revert of a thread's own pair, or of old_pair. *)
revert(t) ==
  /\ pc[t] = "idle"
  /\ \/ /\ pair[t] # None
        /\ refNum' = [refNum EXCEPT ![Mother(pair[t])] = @ - 1]
        /\ pair' = [pair EXCEPT ![t] = None]
        /\ fresh' = [fresh EXCEPT ![t] = None]
        /\ UNCHANGED oldPair
     \/ /\ oldPair[t] # None
        /\ refNum' = [refNum EXCEPT ![Mother(oldPair[t])] = @ - 1]
        /\ oldPair' = [oldPair EXCEPT ![t] = None]
        /\ UNCHANGED <<pair, fresh>>
  /\ totalRef' = totalRef - 1
  /\ cleared' = FALSE
  /\ UNCHANGED <<memVars, table, taken, loopVars, mutex, pc>>

(* remove, under the slot mutex.  A key that is not there changes nothing. *)
remove(t, k) ==
  /\ pc[t] = "idle" /\ table[k] # None
  /\ table' = [table EXCEPT ![k] = None]
  /\ refNum' = [refNum EXCEPT ![Mother(table[k])] = @ + 1]
  /\ taken' = [taken EXCEPT ![t] = table[k]]
  /\ Goto(t, "dec_ref") /\ cleared' = FALSE
  /\ UNCHANGED <<memVars, pair, fresh, oldPair, totalRef, loopVars, mutex>>


(* remove, after the slot mutex. *)
DecRef(t) ==
  /\ pc[t] = "dec_ref"
  /\ refNum' = [refNum EXCEPT ![Mother(taken[t])] = @ - 1]
  /\ taken' = [taken EXCEPT ![t] = None]
  /\ Goto(t, "idle")
  /\ UNCHANGED <<memVars, table, pair, fresh, oldPair, totalRef, loopVars,
                 mutex, cleared>>

-----------------------------------------------------------------------------
(* wash_out, clear and recycle_block, with mutex_ held. *)

LoopUnchanged == UNCHANGED <<memVars, refNum, table, pairVars>>

(* wash_out does nothing in all but every 4096th call of a thread: any     *)
(* call may be that one.                                                   *)
wash_out(t) ==
  /\ pc[t] = "wash_out"
  /\ \/ Goto(t, "idle") /\ UNCHANGED <<loopVars, mutex>>
     \/ /\ mutex = None /\ mutex' = t
        /\ todo' = Reverse(lru)
        /\ traversed' = 0 /\ walked' = 0 /\ left' = allocated
        /\ Goto(t, "washing")
  /\ LoopUnchanged /\ UNCHANGED cleared

(* clear: the blocks of the list, then the current one. *)
clear(t) ==
  /\ pc[t] = "idle" /\ mutex = None
  /\ ClearAlone => \A u \in Thread : /\ pc[u] = "idle"
                                     /\ pair[u] = None /\ oldPair[u] = None
  /\ mutex' = t
  /\ todo' = IF cur = None THEN lru ELSE lru \o <<cur>>
  /\ traversed' = 0 /\ walked' = 0 /\ left' = 0
  /\ Goto(t, "clearing") /\ cleared' = FALSE
  /\ LoopUnchanged

(* The loops of clear and of wash_out go on. *)
Recycling(t) ==
  /\ mutex = t /\ todo # <<>>
  /\ \/ pc[t] = "clearing"
     \/ pc[t] = "washing" /\ left > Available /\ traversed < MaxTraverse

(* The next item of the block, as recycle_block walks from its beginning. *)
NextItem == <<Head(todo), walked + 1>>

(* recycle_block, ObCHashTable::remove: is_empty, without the slot mutex. *)
TestLink(t) ==
  /\ Recycling(t) /\ itemNum[Head(todo)] > 0
  /\ IF NextItem \in Linked
     THEN Goto(t, IF pc[t] = "clearing" THEN "clear unlink" ELSE "wash unlink")
          /\ UNCHANGED <<itemNum, walked>>
     ELSE /\ itemNum' = [itemNum EXCEPT ![Head(todo)] = @ - 1]
          /\ walked' = walked + 1
          /\ UNCHANGED pc
  /\ UNCHANGED <<items, blockSize, lru, cur, offset, allocated, made, refNum,
                 table, pairVars, todo, traversed, left, mutex, cleared>>

(* ObCHashTable::remove, under the slot mutex: unlinked whatever the link  *)
(* is by now.                                                              *)
Unlink(t) ==
  /\ pc[t] \in {"clear unlink", "wash unlink"}
  /\ table' = [k \in Key |-> IF table[k] = NextItem THEN None ELSE table[k]]
  /\ itemNum' = [itemNum EXCEPT ![Head(todo)] = @ - 1]
  /\ walked' = walked + 1
  /\ Goto(t, IF pc[t] = "clear unlink" THEN "clearing" ELSE "washing")
  /\ UNCHANGED <<items, blockSize, lru, cur, offset, allocated, made, refNum,
                 pairVars, todo, traversed, left, mutex, cleared>>

Free(t, b) ==
  /\ lru' = Remove(lru, b)
  /\ IF b = cur THEN cur' = None /\ offset' = 0 ELSE UNCHANGED <<cur, offset>>
  /\ items' = [items EXCEPT ![b] = <<>>]
  /\ blockSize' = [blockSize EXCEPT ![b] = 0]
  /\ allocated' = allocated - blockSize[b]
  /\ left' = IF pc[t] = "washing" THEN left - BlockSize ELSE left


(* As FreeBlock, but the loop ends at a block it cannot free. *)
FreeBlockStops(t) ==
  /\ Recycling(t) /\ itemNum[Head(todo)] = 0
  /\ IF refNum[Head(todo)] = 0
     THEN Free(t, Head(todo)) /\ todo' = Tail(todo)
     ELSE UNCHANGED <<lru, cur, offset, items, blockSize, allocated, left>>
          /\ todo' = <<>>
  /\ walked' = 0
  /\ traversed' = IF pc[t] = "washing" THEN traversed + 1 ELSE traversed
  /\ UNCHANGED <<itemNum, refNum, made, table, pairVars, mutex, pc, cleared>>

(* recycle_block, the end: freed when no reference is left.  wash_out      *)
(* deducts CACHE_MEM_BLOCK_SIZE whatever the size of the block.            *)
FreeBlock(t) ==
  /\ Recycling(t) /\ itemNum[Head(todo)] = 0
  /\ IF refNum[Head(todo)] = 0
     THEN Free(t, Head(todo))
     ELSE UNCHANGED <<lru, cur, offset, items, blockSize, allocated, left>>
  /\ todo' = Tail(todo) /\ walked' = 0
  /\ traversed' = IF pc[t] = "washing" THEN traversed + 1 ELSE traversed
  /\ UNCHANGED <<itemNum, refNum, made, table, pairVars, mutex, pc, cleared>>

(* wash_out or clear returns. *)
Unlock(t) ==
  /\ mutex = t /\ pc[t] \in {"clearing", "washing"} /\ ~Recycling(t)
  /\ allocated' = IF pc[t] = "clearing" THEN 0 ELSE allocated
  /\ cleared' = (pc[t] = "clearing" /\ cur = None /\ lru = <<>>)
  /\ mutex' = None
  /\ todo' = <<>> /\ traversed' = 0 /\ walked' = 0 /\ left' = 0
  /\ Goto(t, "idle")
  /\ UNCHANGED <<items, itemNum, blockSize, lru, cur, offset, made, refNum,
                 table, pairVars>>

Inside(t) ==
  \/ AdjustLRU(t) \/ DecRef(t) \/ wash_out(t)
  \/ TestLink(t) \/ Unlink(t) \/ FreeBlock(t) \/ Unlock(t)

Clearing == \E t \in Thread : pc[t] \in {"clearing", "clear unlink"}

Call(t) ==
  \/ \E k \in Key, size \in Size : malloc(t, k, size)
  \/ \E k \in Key : get(t, k) \/ remove(t, k)
  \/ add(t) \/ revert(t) \/ clear(t)

Next ==
  \E t \in Thread : \/ ~(ClearAlone /\ Clearing) /\ Call(t)
                    \/ Inside(t)

Spec == Init /\ [][Next]_vars

-----------------------------------------------------------------------------

Pointers(b) ==
  Cardinality({t \in Thread : pair[t] # None /\ Mother(pair[t]) = b})
  + Cardinality({t \in Thread : oldPair[t] # None /\ Mother(oldPair[t]) = b})
  + Cardinality({t \in Thread : taken[t] # None /\ Mother(taken[t]) = b})


(* ref_num_ of a block counts the pairs and calls that point into it, and  *)
(* total_ref_num_, which the destructor reports, misses none.              *)
RefsExact ==
  /\ \A b \in Block : refNum[b] = Pointers(b)
  /\ totalRef >= Cardinality({t \in Thread : pair[t] # None})
                 + Cardinality({t \in Thread : oldPair[t] # None})

(* What add concludes from item_num_: a block whose items were all walked  *)
(* has none in the hash table and gets none any more.                      *)
RecycledEmpty == \A it \in Linked : itemNum[Mother(it)] > 0

(* Memory is accounted for: every block obtained from ob_malloc is the     *)
(* current one or on the list, once, whatever get moves while others       *)
(* allocate and recycle, and get_cache_mem_size is the memory of these.    *)
MemoryAccounted ==
  /\ Held = (ToSet(lru) \cup {cur}) \ {None}
  /\ IsInjective(lru) /\ cur \notin ToSet(lru)
  /\ allocated = MapThenSumSet(LAMBDA b : blockSize[b], Held)

(* When wash_out returns, the memory in use is within the limit, or it     *)
(* has gone through the list, or through as much of it as it may: and the  *)
(* blocks it passed and left, whatever pins them, have no item in the hash *)
(* table.                                                                  *)
WashedOut ==
  [][\A t \in Thread : pc[t] = "washing" /\ pc'[t] = "idle" =>
       \/ MapThenSumSet(LAMBDA b : blockSize[b], Held) <= Available
       \/ /\ todo = <<>> \/ traversed = MaxTraverse
          /\ \A b \in ToSet(lru) \ ToSet(todo) :
               itemNum[b] = 0 /\ \A it \in Linked : Mother(it) # b
    ]_vars

(* "clear all cache item": after a clear that reports success the hash     *)
(* table is empty.                                                         *)
ClearEmpties == cleared => Linked = {}
=============================================================================
