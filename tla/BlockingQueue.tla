---------------------------- MODULE BlockingQueue ----------------------------
(***************************************************************************)
(* The class BlockingQueue of src/system_design/blockingQueue.java: two    *)
(* synchronized methods that notify the waiters only when the queue leaves *)
(* the empty or the full state.                                            *)
(***************************************************************************)
EXTENDS Naturals, Sequences, JavaMonitor

CONSTANTS Item, Limit, None

ASSUME ConstAssumption == Limit \in Nat \ {0} /\ None \notin Item

VARIABLES queue,
          op,      \* "put" in enqueue, "take" in dequeue, or "none"
          item     \* the argument of enqueue; what dequeue returned

vars == <<pc, queue, op, item>>

Init ==
  /\ MonitorInit
  /\ queue = <<>>
  /\ op = [t \in Thread |-> "none"]
  /\ item = [t \in Thread |-> None]

Call(t, o, v) ==
  /\ Enter(t)
  /\ op' = [op EXCEPT ![t] = o]
  /\ item' = [item EXCEPT ![t] = v]
  /\ UNCHANGED queue

Return(t, v) ==
  /\ op' = [op EXCEPT ![t] = "none"]
  /\ item' = [item EXCEPT ![t] = v]

Full  == Len(queue) = Limit
Empty == Len(queue) = 0

EnqueueWaits(t) ==
  /\ op[t] = "put" /\ Holds(t)
  /\ Full
  /\ Wait(t)
  /\ UNCHANGED <<queue, op, item>>

(* Mutant of Enqueue: the size is looked at after the item is added. *)
EnqueueLate(t) ==
  /\ op[t] = "put" /\ Holds(t)
  /\ ~Full
  /\ queue' = Append(queue, item[t])
  /\ IF Len(queue') = 0 THEN NotifyAllAndExit(t) ELSE Exit(t)
  /\ Return(t, None)

Enqueue(t) ==
  /\ op[t] = "put" /\ Holds(t)
  /\ ~Full
  /\ IF Empty THEN NotifyAllAndExit(t) ELSE Exit(t)
  /\ queue' = Append(queue, item[t])
  /\ Return(t, None)

DequeueWaits(t) ==
  /\ op[t] = "take" /\ Holds(t)
  /\ Empty
  /\ Wait(t)
  /\ UNCHANGED <<queue, op, item>>

(* Mutant of Dequeue: the waiters are woken with notify(), not notifyAll().*)
DequeueNotify(t) ==
  /\ op[t] = "take" /\ Holds(t)
  /\ ~Empty
  /\ IF Full THEN NotifyAndExit(t) ELSE Exit(t)
  /\ queue' = Tail(queue)
  /\ Return(t, Head(queue))

Dequeue(t) ==
  /\ op[t] = "take" /\ Holds(t)
  /\ ~Empty
  /\ IF Full THEN NotifyAllAndExit(t) ELSE Exit(t)
  /\ queue' = Tail(queue)
  /\ Return(t, Head(queue))

Spurious(t) == SpuriousWakeup(t) /\ UNCHANGED <<queue, op, item>>

Interrupted(t) == Interrupt(t) /\ Return(t, None) /\ UNCHANGED queue

-----------------------------------------------------------------------------

Run(t) == EnqueueWaits(t) \/ Enqueue(t) \/ DequeueWaits(t) \/ Dequeue(t)

Next ==
  \E t \in Thread :
    \/ Run(t)
    \/ Call(t, "take", None)
    \/ \E v \in Item : Call(t, "put", v)
    \/ Spurious(t)
    \/ Interrupted(t)

Spec == Init /\ [][Next]_vars

-----------------------------------------------------------------------------
(* Properties                                                              *)

(* The queue never holds more than limit items, and a thread is in a       *)
(* method exactly when it contends for the monitor or waits.               *)
TypeOK ==
  /\ MonitorTypeOK
  /\ queue \in Seq(Item) /\ Len(queue) <= Limit
  /\ op \in [Thread -> {"none", "put", "take"}]
  /\ item \in [Thread -> Item \cup {None}]
  /\ \A t \in Thread : /\ op[t] = "none" <=> pc[t] = "out"
                       /\ op[t] = "put" => item[t] \in Item

(* No wakeup is lost although most calls notify nobody: a thread waits in  *)
(* enqueue only while the queue is full, in dequeue only while it is       *)
(* empty.                                                                  *)
WaitJustified ==
  \A t \in Thread : pc[t] = "waiting" =>
     IF op[t] = "put" THEN Full ELSE Empty

Abstract == INSTANCE BoundedQueue

(* Every call takes effect as a call of the bounded queue does: first in,  *)
(* first out, nothing lost, doubled or let in above the limit, whatever    *)
(* the interrupts and spurious wakeups.                                    *)
Contract == Abstract!Spec

(* With room and a producer, or items and a consumer, some call returns:   *)
(* no thread waits for a notification that the others owe it.              *)
Progress == Abstract!FairSpec
=============================================================================
