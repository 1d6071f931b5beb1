------------------------- MODULE BlockingQueueProofs -------------------------
(***************************************************************************)
(* Proofs about BlockingQueue and BlockingQueueImpl, for any number of     *)
(* threads and any limit.                                                  *)
(*                                                                         *)
(* WaitJustified is inductive together with the types: the size can leave  *)
(* 0 or the limit only in a step that empties the wait set.  What a step   *)
(* does to the monitor is stated once (MonitorStep) and what it does to    *)
(* the size once (SizeStep).                                               *)
(***************************************************************************)
EXTENDS BlockingQueue, TLAPS

IInv == TypeOK /\ WaitJustified

(* What Append and Tail do to the types and to the size of the queue. *)
LEMMA SizeStep ==
  ASSUME NEW S, NEW s \in Seq(S), NEW e \in S
  PROVE  /\ Append(s, e) \in Seq(S) /\ Len(Append(s, e)) = Len(s) + 1
         /\ Len(s) \in Nat
         /\ Len(s) # 0 => /\ Head(s) \in S /\ Tail(s) \in Seq(S)
                          /\ Len(Tail(s)) = Len(s) - 1 /\ s # <<>>
OBVIOUS

(* The queue is empty and nobody is in a method. *)
LEMMA InitInv == Init => IInv
<1> SUFFICES ASSUME Init PROVE IInv
  OBVIOUS
<1>1. queue \in Seq(Item) /\ Len(queue) = 0
  BY DEF Init
<1>2. TypeOK
  BY <1>1, ConstAssumption DEF Init, MonitorInit, TypeOK, MonitorTypeOK
<1>3. WaitJustified
  BY DEF Init, MonitorInit, WaitJustified
<1> QED
  BY <1>2, <1>3 DEF IInv

(* A thread enters, waits, wakes or is interrupted: the size stays, and    *)
(* the only new waiter has just looked at it.                              *)
LEMMA SameSize ==
  ASSUME IInv, NEW t \in Thread, UNCHANGED queue,
         NEW o \in {"none", "put", "take"}, NEW v \in Item \cup {None},
         NEW w \in {"out", "entering", "waiting", "woken"},
         op' = [op EXCEPT ![t] = o],
         item' = [item EXCEPT ![t] = v],
         pc' = [pc EXCEPT ![t] = w],
         o = "none" <=> w = "out",
         o = "put" => v \in Item,
         w = "waiting" => IF o = "put" THEN Full ELSE Empty
  PROVE  IInv'
<1>1. TypeOK'
  BY DEF IInv, TypeOK, MonitorTypeOK
<1>2. WaitJustified'
  BY DEF IInv, TypeOK, MonitorTypeOK, WaitJustified, Full, Empty
<1> QED
  BY <1>1, <1>2 DEF IInv

(* A thread returns from a method after changing the queue; unless it has  *)
(* notified all waiters there were none that the change concerns.          *)
LEMMA NewSize ==
  ASSUME IInv, NEW t \in Thread, op[t] # "none",
         queue' \in Seq(Item), Len(queue') <= Limit,
         NEW v \in Item \cup {None}, Return(t, v),
         \/ NotifyAllAndExit(t)
         \/ Exit(t) /\ ~Full /\ ~Empty
  PROVE  IInv'
<1>1. TypeOK'
  BY DEF IInv, TypeOK, MonitorTypeOK, Return, NotifyAllAndExit, Exit
<1>2. \A s \in Thread : pc'[s] # "waiting"
  BY DEF IInv, TypeOK, MonitorTypeOK, WaitJustified, NotifyAllAndExit, Exit
<1> QED
  BY <1>1, <1>2 DEF IInv, WaitJustified

(* enqueue adds the item below the limit; a notification is skipped only   *)
(* if the queue was neither empty nor full.                                *)
LEMMA EnqueueInv ==
  ASSUME IInv, NEW t \in Thread, Enqueue(t)
  PROVE  IInv'
<1>1. item[t] \in Item /\ queue \in Seq(Item) /\ Len(queue) <= Limit
  BY DEF IInv, TypeOK, Enqueue
<1>2. queue' \in Seq(Item) /\ Len(queue') <= Limit
  BY <1>1, SizeStep, ConstAssumption DEF Enqueue, Full
<1>3. NotifyAllAndExit(t) \/ (Exit(t) /\ ~Full /\ ~Empty)
  BY DEF Enqueue
<1> QED
  BY <1>2, <1>3, NewSize DEF Enqueue

(* dequeue removes an item; the same. *)
LEMMA DequeueInv ==
  ASSUME IInv, NEW t \in Thread, Dequeue(t)
  PROVE  IInv'
<1>1. /\ queue \in Seq(Item) /\ Len(queue) # 0 /\ Len(queue) \in Nat
      /\ Len(queue) <= Limit
  BY DEF IInv, TypeOK, Dequeue, Empty
<1>2. Head(queue) \in Item /\ Tail(queue) \in Seq(Item) /\ Len(Tail(queue)) = Len(queue) - 1
  BY <1>1
<1>3. queue' \in Seq(Item) /\ Len(queue') <= Limit
  BY <1>1, <1>2, ConstAssumption DEF Dequeue
<1>4. NotifyAllAndExit(t) \/ (Exit(t) /\ ~Full /\ ~Empty)
  BY DEF Dequeue
<1> QED
  BY <1>2, <1>3, <1>4, NewSize DEF Dequeue

(* Every step of every thread preserves the invariant. *)
LEMMA NextInv == IInv /\ [Next]_vars => IInv'
<1> SUFFICES ASSUME IInv, [Next]_vars PROVE IInv'
  OBVIOUS
<1>1. CASE Next
  <2> PICK t \in Thread :
        \/ Run(t) \/ Call(t, "take", None) \/ Spurious(t) \/ Interrupted(t)
        \/ \E v \in Item : Call(t, "put", v)
    BY <1>1 DEF Next
  <2>1. /\ op = [op EXCEPT ![t] = op[t]] /\ item = [item EXCEPT ![t] = item[t]]
        /\ op[t] \in {"none", "put", "take"} /\ item[t] \in Item \cup {None}
        /\ op[t] = "none" <=> pc[t] = "out"
        /\ op[t] = "put" => item[t] \in Item
    <3>1. /\ op \in [Thread -> {"none", "put", "take"}]
          /\ item \in [Thread -> Item \cup {None}]
      BY DEF IInv, TypeOK
    <3>2. op = [op EXCEPT ![t] = op[t]] /\ item = [item EXCEPT ![t] = item[t]]
      BY <3>1
    <3>3. /\ op[t] = "none" <=> pc[t] = "out"
          /\ op[t] = "put" => item[t] \in Item
      BY SMTT(30) DEF IInv, TypeOK
    <3> QED
      BY <3>1, <3>2, <3>3
  <2>2. CASE Call(t, "take", None)
    BY Zenon, <2>2, SameSize DEF Call, Enter
  <2>3. CASE \E v \in Item : Call(t, "put", v)
    BY Zenon, <2>3, SameSize DEF Call, Enter
  <2>4. CASE Spurious(t)
    <3>1. /\ pc[t] = "waiting" /\ pc' = [pc EXCEPT ![t] = "woken"]
          /\ queue' = queue /\ op' = [op EXCEPT ![t] = op[t]]
          /\ item' = [item EXCEPT ![t] = item[t]]
      BY <2>1, <2>4 DEF Spurious, SpuriousWakeup
    <3> QED
      BY ZenonT(30), <2>1, <3>1, SameSize
  <2>5. CASE Interrupted(t)
    BY Zenon, <2>5, SameSize DEF Interrupted, Interrupt, Exit, Return
  <2>6. CASE EnqueueWaits(t)
    <3>1. /\ op[t] = "put" /\ Full /\ pc' = [pc EXCEPT ![t] = "waiting"]
          /\ queue' = queue /\ op' = [op EXCEPT ![t] = op[t]]
          /\ item' = [item EXCEPT ![t] = item[t]]
      BY <2>1, <2>6 DEF EnqueueWaits, Wait
    <3> QED
      BY ZenonT(30), <2>1, <3>1, SameSize
  <2>7. CASE DequeueWaits(t)
    <3>1. /\ op[t] = "take" /\ Empty /\ pc' = [pc EXCEPT ![t] = "waiting"]
          /\ queue' = queue /\ op' = [op EXCEPT ![t] = op[t]]
          /\ item' = [item EXCEPT ![t] = item[t]]
      BY <2>1, <2>7 DEF DequeueWaits, Wait
    <3> QED
      BY ZenonT(30), <2>1, <3>1, SameSize
  <2> QED
    BY <2>2, <2>3, <2>4, <2>5, <2>6, <2>7, EnqueueInv, DequeueInv DEF Run
<1>2. CASE UNCHANGED vars
  BY <1>2 DEF vars, IInv, TypeOK, MonitorTypeOK, WaitJustified, Full, Empty
<1> QED
  BY <1>1, <1>2

(* The inductive invariant holds in every state of the class. *)
THEOREM Invariance == Spec => []IInv
  BY InitInv, NextInv, PTL DEF Spec

(* The queue never holds more than limit items, and its types are kept. *)
THEOREM TypeCorrect == Spec => []TypeOK
<1>1. IInv => TypeOK
  BY DEF IInv
<1> QED
  BY <1>1, Invariance, PTL

(* A thread waits in enqueue only while the queue is full, in dequeue only *)
(* while it is empty.                                                      *)
THEOREM NoLostWakeup == Spec => []WaitJustified
<1>1. IInv => WaitJustified
  BY DEF IInv
<1> QED
  BY <1>1, Invariance, PTL

-----------------------------------------------------------------------------
(* The class implements the bounded queue.  Waiting and waking are         *)
(* stuttering steps; the other actions map to those of their names.        *)

(* One step of the class is a step of the bounded queue or stutters. *)
LEMMA StepMaps == IInv /\ [Next]_vars => [Abstract!Next]_Abstract!vars
<1> SUFFICES ASSUME IInv, [Next]_vars PROVE [Abstract!Next]_Abstract!vars
  OBVIOUS
<1>1. CASE Next
  <2> PICK t \in Thread :
        \/ Run(t) \/ Call(t, "take", None) \/ Spurious(t) \/ Interrupted(t)
        \/ \E v \in Item : Call(t, "put", v)
    BY <1>1 DEF Next
  <2>1. op[t] = "none" <=> pc[t] = "out"
    BY DEF IInv, TypeOK
  <2>2. CASE Call(t, "take", None)
    BY Zenon, <2>1, <2>2 DEF Call, Enter, Abstract!Call, Abstract!Next
  <2>3. CASE \E v \in Item : Call(t, "put", v)
    BY Zenon, <2>1, <2>3 DEF Call, Enter, Abstract!Call, Abstract!Next
  <2>4. CASE Spurious(t) \/ EnqueueWaits(t) \/ DequeueWaits(t)
    BY <2>4 DEF Spurious, EnqueueWaits, DequeueWaits, Abstract!vars
  <2>5. CASE Interrupted(t)
    BY Zenon, <2>1, <2>5 DEF Interrupted, Interrupt, Return, Abstract!GiveUp,
       Abstract!Return, Abstract!Next
  <2>6. CASE Enqueue(t)
    <3>1. Len(queue) < Limit
      BY <2>6, ConstAssumption DEF IInv, TypeOK, Enqueue, Full
    <3> QED
      BY Zenon, <2>6, <3>1 DEF Enqueue, Return, Abstract!Put, Abstract!Return, Abstract!Next
  <2>7. CASE Dequeue(t)
    <3>1. queue # <<>>
      BY <2>7 DEF Dequeue, Empty
    <3> QED
      BY Zenon, <2>7, <3>1 DEF Dequeue, Return, Abstract!Take, Abstract!Return, Abstract!Next
  <2> QED
    BY <2>2, <2>3, <2>4, <2>5, <2>6, <2>7 DEF Run
<1>2. CASE UNCHANGED vars
  BY <1>2 DEF vars, Abstract!vars
<1> QED
  BY <1>1, <1>2

(* Every behaviour of the class is one of the bounded queue: first in,     *)
(* first out, nothing lost, doubled or above the limit.                    *)
THEOREM Implements == Spec => Contract
<1>1. Init => Abstract!Init
  BY DEF Init, Abstract!Init
<1> QED
  BY <1>1, StepMaps, Invariance, PTL DEF Spec, Contract, Abstract!Spec

-----------------------------------------------------------------------------
(* BlockingQueueImpl, whose put and take notify all waiters every time, is *)
(* the same queue with the same invariant.                                 *)

Impl == INSTANCE BlockingQueueImpl WITH q <- queue, maxSize <- Limit

(* put adds the item below maxSize and take removes one; both wake every   *)
(* waiter.                                                                 *)
LEMMA ImplReturnInv ==
  ASSUME IInv, NEW t \in Thread, Impl!Put(t) \/ Impl!Take(t)
  PROVE  IInv'
<1>1. /\ queue \in Seq(Item) /\ Len(queue) \in Nat /\ Len(queue) <= Limit
      /\ op[t] = "put" => item[t] \in Item
  BY DEF IInv, TypeOK
<1>2. NotifyAllAndExit(t)
  BY DEF Impl!Put, Impl!Take, Impl!NotifyAllAndExit, NotifyAllAndExit
<1>3. CASE Impl!Put(t)
  <2>1. /\ op[t] = "put" /\ Return(t, None)
        /\ queue' = Append(queue, item[t]) /\ Len(queue) < Limit
    BY <1>3 DEF Impl!Put, Impl!Return, Return
  <2>2. queue' \in Seq(Item) /\ Len(queue') <= Limit
    BY <1>1, <2>1, ConstAssumption
  <2> QED
    BY <1>2, <2>1, <2>2, NewSize
<1>4. CASE Impl!Take(t)
  <2>1. /\ op[t] = "take" /\ Return(t, Head(queue))
        /\ queue' = Tail(queue) /\ queue # <<>>
    BY <1>4 DEF Impl!Take, Impl!Return, Return
  <2>2. queue' \in Seq(Item) /\ Len(queue') <= Limit /\ Head(queue) \in Item
    BY <1>1, <2>1, ConstAssumption
  <2> QED
    BY <1>2, <2>1, <2>2, NewSize
<1> QED
  BY <1>3, <1>4

(* Every step of BlockingQueueImpl preserves the invariant. *)
LEMMA ImplNextInv == IInv /\ [Impl!Next]_vars => IInv'
<1> SUFFICES ASSUME IInv, [Impl!Next]_vars PROVE IInv'
  OBVIOUS
<1>1. CASE Impl!Next
  <2> PICK t \in Thread :
        \/ Impl!Run(t) \/ Impl!Call(t, "take", None)
        \/ Impl!Spurious(t) \/ Impl!Interrupted(t)
        \/ \E v \in Item : Impl!Call(t, "put", v)
    BY <1>1 DEF Impl!Next
  <2>1. /\ op = [op EXCEPT ![t] = op[t]] /\ item = [item EXCEPT ![t] = item[t]]
        /\ op[t] \in {"none", "put", "take"} /\ item[t] \in Item \cup {None}
        /\ op[t] = "none" <=> pc[t] = "out"
        /\ op[t] = "put" => item[t] \in Item
    <3>1. /\ op \in [Thread -> {"none", "put", "take"}]
          /\ item \in [Thread -> Item \cup {None}]
      BY DEF IInv, TypeOK
    <3>2. /\ op[t] = "none" <=> pc[t] = "out"
          /\ op[t] = "put" => item[t] \in Item
      BY Zenon DEF IInv, TypeOK
    <3> QED
      BY <3>1, <3>2
  <2>2. CASE Impl!Call(t, "take", None)
    BY Zenon, <2>2, SameSize DEF Impl!Call, Impl!Enter
  <2>3. CASE \E v \in Item : Impl!Call(t, "put", v)
    BY Zenon, <2>3, SameSize DEF Impl!Call, Impl!Enter
  <2>4. CASE Impl!Spurious(t)
    <3>1. /\ pc[t] = "waiting" /\ pc' = [pc EXCEPT ![t] = "woken"]
          /\ queue' = queue /\ op' = [op EXCEPT ![t] = op[t]]
          /\ item' = [item EXCEPT ![t] = item[t]]
      BY <2>1, <2>4 DEF Impl!Spurious, Impl!SpuriousWakeup
    <3> QED
      BY ZenonT(30), <2>1, <3>1, SameSize
  <2>5. CASE Impl!Interrupted(t)
    BY Zenon, <2>5, SameSize
       DEF Impl!Interrupted, Impl!Interrupt, Impl!Exit, Impl!Return
  <2>6. CASE Impl!PutWaits(t)
    <3>1. /\ op[t] = "put" /\ pc' = [pc EXCEPT ![t] = "waiting"]
          /\ queue' = queue /\ op' = [op EXCEPT ![t] = op[t]]
          /\ item' = [item EXCEPT ![t] = item[t]]
      BY <2>1, <2>6 DEF Impl!PutWaits, Impl!Wait
    <3>2. Full
      <4>1. Len(queue) \in Nat /\ Len(queue) <= Limit
        BY DEF IInv, TypeOK
      <4> QED
        BY <2>6, <4>1, ConstAssumption DEF Impl!PutWaits, Full
    <3> QED
      BY ZenonT(30), <2>1, <3>1, <3>2, SameSize
  <2>7. CASE Impl!TakeWaits(t)
    <3>1. /\ op[t] = "take" /\ Empty /\ pc' = [pc EXCEPT ![t] = "waiting"]
          /\ queue' = queue /\ op' = [op EXCEPT ![t] = op[t]]
          /\ item' = [item EXCEPT ![t] = item[t]]
      BY <2>1, <2>7 DEF Impl!TakeWaits, Impl!Wait, Empty
    <3> QED
      BY ZenonT(30), <2>1, <3>1, SameSize
  <2> QED
    BY <2>2, <2>3, <2>4, <2>5, <2>6, <2>7, ImplReturnInv DEF Impl!Run
<1>2. CASE UNCHANGED vars
  BY <1>2 DEF vars, IInv, TypeOK, MonitorTypeOK, WaitJustified, Full, Empty
<1> QED
  BY <1>1, <1>2

(* The invariant holds in every state of BlockingQueueImpl. *)
LEMMA ImplInvariance == Impl!Spec => []IInv
<1>1. Impl!Init => Init
  BY DEF Impl!Init, Impl!MonitorInit, Init, MonitorInit
<1>2. [Impl!Next]_Impl!vars => [Impl!Next]_vars
  BY DEF Impl!vars, vars
<1> QED
  BY <1>1, <1>2, InitInv, ImplNextInv, PTL DEF Impl!Spec

(* The same of BlockingQueueImpl, which has one wait set for both          *)
(* conditions: a thread waits in put only while the queue is full, in take *)
(* only while it is empty.                                                 *)
THEOREM ImplNoLostWakeup == Impl!Spec => []WaitJustified
<1>1. IInv => WaitJustified
  BY DEF IInv
<1> QED
  BY <1>1, ImplInvariance, PTL

(* One step of BlockingQueueImpl is a step of the bounded queue or         *)
(* stutters.                                                               *)
LEMMA ImplStepMaps == IInv /\ [Impl!Next]_vars => [Abstract!Next]_Abstract!vars
<1> SUFFICES ASSUME IInv, [Impl!Next]_vars PROVE [Abstract!Next]_Abstract!vars
  OBVIOUS
<1>1. CASE Impl!Next
  <2> PICK t \in Thread :
        \/ Impl!Run(t) \/ Impl!Call(t, "take", None)
        \/ Impl!Spurious(t) \/ Impl!Interrupted(t)
        \/ \E v \in Item : Impl!Call(t, "put", v)
    BY <1>1 DEF Impl!Next
  <2>1. op[t] = "none" <=> pc[t] = "out"
    BY DEF IInv, TypeOK
  <2>2. CASE Impl!Call(t, "take", None)
    BY Zenon, <2>1, <2>2 DEF Impl!Call, Impl!Enter, Abstract!Call, Abstract!Next
  <2>3. CASE \E v \in Item : Impl!Call(t, "put", v)
    BY Zenon, <2>1, <2>3 DEF Impl!Call, Impl!Enter, Abstract!Call, Abstract!Next
  <2>4. CASE Impl!Spurious(t) \/ Impl!PutWaits(t) \/ Impl!TakeWaits(t)
    BY <2>4 DEF Impl!Spurious, Impl!PutWaits, Impl!TakeWaits, Abstract!vars
  <2>5. CASE Impl!Interrupted(t)
    BY Zenon, <2>1, <2>5 DEF Impl!Interrupted, Impl!Interrupt, Impl!Return,
       Abstract!GiveUp, Abstract!Return, Abstract!Next
  <2>6. CASE Impl!Put(t)
    BY Zenon, <2>6 DEF Impl!Put, Impl!Return, Abstract!Put, Abstract!Return,
       Abstract!Next
  <2>7. CASE Impl!Take(t)
    BY Zenon, <2>7 DEF Impl!Take, Impl!Return, Abstract!Take, Abstract!Return,
       Abstract!Next
  <2> QED
    BY <2>2, <2>3, <2>4, <2>5, <2>6, <2>7 DEF Impl!Run
<1>2. CASE UNCHANGED vars
  BY <1>2 DEF vars, Abstract!vars
<1> QED
  BY <1>1, <1>2

(* Every behaviour of BlockingQueueImpl is one of the bounded queue too. *)
THEOREM ImplImplements == Impl!Spec => Contract
<1>1. Impl!Init => Abstract!Init
  BY DEF Impl!Init, Abstract!Init
<1>2. [Impl!Next]_Impl!vars => [Impl!Next]_vars
  BY DEF Impl!vars, vars
<1> QED
  BY <1>1, <1>2, ImplStepMaps, ImplInvariance, PTL
     DEF Impl!Spec, Contract, Abstract!Spec
=============================================================================
