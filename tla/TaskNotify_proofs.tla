-------------------------- MODULE TaskNotify_proofs --------------------------
(***************************************************************************)
(* What the kernel's notification calls do to one task's record, for any   *)
(* set of values: the facts the proofs about the services cite, so that    *)
(* they need not look inside the records.                                  *)
(***************************************************************************)
EXTENDS TaskNotify, TLAPS

LEMMA InitFacts ==
  ASSUME NEW V, 0 \in V
  PROVE  /\ NotifyInit \in Notification(V)
         /\ NotifyInit.state = NotWaiting /\ NotifyInit.value = 0
  BY SMT DEF NotifyInit, Notification, NotifyStates

\* A notification arrives: the value is replaced, kept, or counted up.
LEMMA OverwriteFacts ==
  ASSUME NEW V, NEW n \in Notification(V), NEW v \in V
  PROVE  /\ Overwrite(n, v) \in Notification(V)
         /\ Overwrite(n, v).state = Received /\ Overwrite(n, v).value = v
  BY SMT DEF Overwrite, Notification, NotifyStates, Received

LEMMA GiveFacts ==
  ASSUME NEW V, 1 \in V, NEW n \in Notification(V)
  PROVE  /\ Give(n) \in Notification(V)
         /\ Give(n).state = Received /\ Give(n).value = 1
  BY SMT DEF Give, Notification, NotifyStates, Received

LEMMA NoActionFacts ==
  ASSUME NEW V, NEW n \in Notification(V)
  PROVE  /\ NoAction(n) \in Notification(V)
         /\ NoAction(n).state = Received /\ NoAction(n).value = n.value
  BY SMT DEF NoAction, Notification, NotifyStates, Received

\* The state is cleared: a task that sleeps goes on sleeping.
LEMMA ClearFacts ==
  ASSUME NEW V, NEW n \in Notification(V)
  PROVE  /\ StateClear(n) \in Notification(V)
         /\ StateClear(n).value = n.value
         /\ n.state = Waiting => StateClear(n) = n
         /\ n.state # Waiting => StateClear(n).state = NotWaiting
  BY SMT DEF StateClear, Notification, NotifyStates, NotWaiting, Waiting, Received

\* xTaskNotifyWait: it sleeps unless a notification is pending.
LEMMA WaitFacts ==
  ASSUME NEW V, NEW n \in Notification(V)
  PROVE  /\ WaitEnter(n) \in Notification(V) /\ WaitExit(n) \in Notification(V)
         /\ WaitEnter(n).value = n.value /\ WaitExit(n).value = n.value
         /\ WaitMustBlock(n) => WaitEnter(n).state = Waiting
         /\ ~WaitMustBlock(n) => WaitEnter(n) = n
         /\ WaitMustBlock(n) <=> n.state # Received
         /\ WaitExit(n).state = NotWaiting
         /\ WaitResult(n) = n.value /\ WaitResult(n) \in V
         /\ Wakes(n) <=> n.state = Waiting
  BY SMT DEF WaitEnter, WaitExit, WaitMustBlock, WaitResult, Wakes,
     Notification, NotifyStates, NotWaiting, Waiting, Received

\* ulTaskNotifyTake: it sleeps unless the value is above zero.
LEMMA TakeFacts ==
  ASSUME NEW V, 0 \in V, NEW n \in Notification(V)
  PROVE  /\ TakeEnter(n) \in Notification(V) /\ TakeExit(n) \in Notification(V)
         /\ TakeEnter(n).value = n.value
         /\ TakeMustBlock(n) => TakeEnter(n).state = Waiting
         /\ ~TakeMustBlock(n) => TakeEnter(n) = n
         /\ TakeMustBlock(n) <=> n.value = 0
         /\ TakeResult(n) \in BOOLEAN
         /\ TakeExit(n).state = NotWaiting /\ TakeExit(n).value = 0
  BY SMT DEF TakeEnter, TakeExit, TakeMustBlock, TakeResult,
     Notification, NotifyStates, NotWaiting, Waiting

\* The three states are different.
LEMMA StatesDiffer == Received # Waiting /\ Received # NotWaiting /\ Waiting # NotWaiting
  BY DEF Received, Waiting, NotWaiting
=============================================================================
