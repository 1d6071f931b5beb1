----------------------------- MODULE JavaMonitor -----------------------------
(***************************************************************************)
(* The monitor of a Java object, as synchronized methods use it (the Java  *)
(* runtime, not part of the repository).  What a thread does between       *)
(* getting the monitor and waiting or returning is one action.             *)
(***************************************************************************)
CONSTANT Thread

VARIABLE pc   \* "out", "entering", "waiting" or "woken"

MonitorInit == pc = [t \in Thread |-> "out"]

(* The thread calls a synchronized method and contends for the monitor. *)
Enter(t) == pc[t] = "out" /\ pc' = [pc EXCEPT ![t] = "entering"]

(* It has the monitor, at the method's entry or as wait() returns. *)
Holds(t) == pc[t] \in {"entering", "woken"}

Wait(t) == pc' = [pc EXCEPT ![t] = "waiting"]

Exit(t) == pc' = [pc EXCEPT ![t] = "out"]

(* Mutant of NotifyAllAndExit: notify() wakes one of the waiters only. *)
NotifyAndExit(t) ==
  IF \E s \in Thread : pc[s] = "waiting"
  THEN \E s \in Thread :
         /\ pc[s] = "waiting"
         /\ pc' = [pc EXCEPT ![s] = "woken", ![t] = "out"]
  ELSE Exit(t)

NotifyAllAndExit(t) ==
  pc' = [s \in Thread |-> IF s = t THEN "out"
                          ELSE IF pc[s] = "waiting" THEN "woken"
                          ELSE pc[s]]

(* wait() may return for no reason. *)
SpuriousWakeup(t) ==
  /\ pc[t] = "waiting"
  /\ pc' = [pc EXCEPT ![t] = "woken"]

(* wait() throws InterruptedException, also if the thread was notified     *)
(* first, and the method does not catch it.                                *)
Interrupt(t) == pc[t] \in {"waiting", "woken"} /\ Exit(t)

MonitorTypeOK == pc \in [Thread -> {"out", "entering", "waiting", "woken"}]
=============================================================================
