-------------------------- MODULE MCBlockingQueues --------------------------
(* Both Java queues for TLC: a behaviour is one of BlockingQueue or one of *)
(* BlockingQueueImpl, with the same threads, items and limit.              *)
EXTENDS BlockingQueue

VARIABLE class

Impl == INSTANCE BlockingQueueImpl WITH q <- queue, maxSize <- Limit

MCInit == \/ class = "BlockingQueue" /\ Init
          \/ class = "BlockingQueueImpl" /\ Impl!Init

MCNext ==
  /\ \/ class = "BlockingQueue" /\ Next
     \/ class = "BlockingQueueImpl" /\ Impl!Next
  /\ UNCHANGED class

MCRun(t) ==
  /\ \/ class = "BlockingQueue" /\ Run(t)
     \/ class = "BlockingQueueImpl" /\ Impl!Run(t)
  /\ UNCHANGED class

(* A thread that contends for the monitor gets it. *)
MCSpec ==
  /\ MCInit /\ [][MCNext]_<<vars, class>>
  /\ \A t \in Thread : WF_<<vars, class>>(MCRun(t))
=============================================================================
