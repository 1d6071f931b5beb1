---------------------------- MODULE BoundedQueue ----------------------------
(***************************************************************************)
(* What a bounded blocking queue promises to the threads that call it: a   *)
(* call takes effect at one moment, items leave in the order in which they *)
(* came, at most Limit of them are inside, a call may be given up by an    *)
(* interrupt without an effect, and as long as calls can be served, calls  *)
(* are served.                                                             *)
(***************************************************************************)
EXTENDS Naturals, Sequences

CONSTANTS Thread, Item, Limit, None

VARIABLES queue,   \* the items inside, oldest first
          op,      \* the call each thread is in, or "none"
          item     \* the argument of a put; what a take returned

vars == <<queue, op, item>>

Init ==
  /\ queue = <<>>
  /\ op = [t \in Thread |-> "none"]
  /\ item = [t \in Thread |-> None]

Call(t, o, v) ==
  /\ op[t] = "none"
  /\ op' = [op EXCEPT ![t] = o]
  /\ item' = [item EXCEPT ![t] = v]
  /\ UNCHANGED queue

Return(t, v) ==
  /\ op' = [op EXCEPT ![t] = "none"]
  /\ item' = [item EXCEPT ![t] = v]

Put(t) ==
  /\ op[t] = "put"
  /\ Len(queue) < Limit
  /\ queue' = Append(queue, item[t])
  /\ Return(t, None)

Take(t) ==
  /\ op[t] = "take"
  /\ queue # <<>>
  /\ queue' = Tail(queue)
  /\ Return(t, Head(queue))

GiveUp(t) ==
  /\ op[t] # "none"
  /\ Return(t, None)
  /\ UNCHANGED queue

Next ==
  \E t \in Thread :
    \/ Put(t) \/ Take(t) \/ GiveUp(t)
    \/ Call(t, "take", None)
    \/ \E v \in Item : Call(t, "put", v)

Spec == Init /\ [][Next]_vars

(* Not every caller is served, since others may always be faster, but the  *)
(* queue does not stand still while it has room and a producer, or items   *)
(* and a consumer.                                                         *)
FairSpec ==
  /\ Spec
  /\ WF_vars(\E t \in Thread : Put(t))
  /\ WF_vars(\E t \in Thread : Take(t))
=============================================================================
