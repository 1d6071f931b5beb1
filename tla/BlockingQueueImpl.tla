-------------------------- MODULE BlockingQueueImpl --------------------------
(***************************************************************************)
(* The class BlockingQueueImpl of src/system_design/blocking_queue.java:   *)
(* put and take on one mutex, each of which notifies all waiters.          *)
(***************************************************************************)
EXTENDS Naturals, Sequences, JavaMonitor

CONSTANTS Item, maxSize, None

VARIABLES q,
          op,      \* "put", "take" or "none"
          item     \* the argument of put; what take returned

vars == <<pc, q, op, item>>

(* The constructor throws IllegalArgumentException unless maxSize > 0. *)
Init ==
  /\ maxSize > 0
  /\ MonitorInit
  /\ q = <<>>
  /\ op = [t \in Thread |-> "none"]
  /\ item = [t \in Thread |-> None]

Call(t, o, v) ==
  /\ Enter(t)
  /\ op' = [op EXCEPT ![t] = o]
  /\ item' = [item EXCEPT ![t] = v]
  /\ UNCHANGED q

Return(t, v) ==
  /\ op' = [op EXCEPT ![t] = "none"]
  /\ item' = [item EXCEPT ![t] = v]

TakeWaits(t) ==
  /\ op[t] = "take" /\ Holds(t)
  /\ q = <<>>
  /\ Wait(t)
  /\ UNCHANGED <<q, op, item>>

Take(t) ==
  /\ op[t] = "take" /\ Holds(t)
  /\ q # <<>>
  /\ NotifyAllAndExit(t)
  /\ q' = Tail(q)
  /\ Return(t, Head(q))

PutWaits(t) ==
  /\ op[t] = "put" /\ Holds(t)
  /\ Len(q) >= maxSize
  /\ Wait(t)
  /\ UNCHANGED <<q, op, item>>

Put(t) ==
  /\ op[t] = "put" /\ Holds(t)
  /\ Len(q) < maxSize
  /\ NotifyAllAndExit(t)
  /\ q' = Append(q, item[t])
  /\ Return(t, None)

Spurious(t) == SpuriousWakeup(t) /\ UNCHANGED <<q, op, item>>

Interrupted(t) == Interrupt(t) /\ Return(t, None) /\ UNCHANGED q

-----------------------------------------------------------------------------

Run(t) == TakeWaits(t) \/ Take(t) \/ PutWaits(t) \/ Put(t)

Next ==
  \E t \in Thread :
    \/ Run(t)
    \/ Call(t, "take", None)
    \/ \E v \in Item : Call(t, "put", v)
    \/ Spurious(t)
    \/ Interrupted(t)

Spec == Init /\ [][Next]_vars
=============================================================================
