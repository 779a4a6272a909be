--------------------------- MODULE EfHalSpi_proofs ---------------------------
(***************************************************************************)
(* TLAPS proofs about EfHalSpi: for any number of tasks and devices, any   *)
(* of which may configure a device while others sleep on it.               *)
(***************************************************************************)
EXTENDS EfHalSpi, TaskNotify_proofs

Transferring == {"setTask", "clear", "start", "wait", "blocked", "woken", "give"}
Configuring  == {"conf", "giveConf"}
Holding      == Transferring \cup Configuring

(***************************************************************************)
(* The inductive invariant.  First, who has what: a task past the mutex    *)
(* holds it, to transfer or to configure, a mutex that is taken has a task *)
(* past it, and from SetTask on the device is bound to its holder.         *)
(***************************************************************************)
Ownership ==
    /\ \A t \in Tasks : pc[t] # "idle" => dh[t] \in Devices
    /\ \A t \in Tasks : pc[t] \in Transferring \cup {"take"} => req[t] \in Requests
    /\ \A t \in Tasks : pc[t] \in Holding => mutex[dh[t]] = t
    /\ \A d \in Devices : mutex[d] # None => pc[mutex[d]] \in Holding /\ dh[mutex[d]] = d
    /\ \A t \in Tasks : pc[t] \in Transferring \ {"setTask"} => taskHadle[dh[t]] = t

\* Whoever has a transfer under way holds the device and waits for its end:
\* a configuration never finds one.
TransferOwned ==
    \A d \in Devices : busy[d] # None =>
        /\ mutex[d] = busy[d] /\ outcome[d] = None
        /\ pc[busy[d]] \in {"wait", "blocked"}

\* An outcome is there until the mutex is given back, and not longer.
FreeIsClear ==
    \A d \in Devices :
        outcome[d] # None => mutex[d] # None /\ pc[mutex[d]] \in {"wait", "woken", "give"}

\* The transfer of t, which holds its device, has not ended, or never began.
Pending(t) == outcome[dh[t]] = None /\ (busy[dh[t]] = t \/ req[t] = "empty")

\* It has ended, and the notification says so.
Notified(t) ==
    outcome[dh[t]] = "ended" /\ busy[dh[t]] = None /\ ntf[t].state = Received

(***************************************************************************)
(* Second, what the notification of a task says at each location.  Nothing *)
(* may be pending when the transfer starts: that is what ClearState is     *)
(* for.                                                                    *)
(***************************************************************************)
NotificationAt(t) ==
    /\ pc[t] \notin {"wait", "blocked"} => ntf[t].state # Waiting
    /\ pc[t] = "start" => ntf[t].state = NotWaiting
    /\ pc[t] = "wait" => Notified(t) \/ (Pending(t) /\ ntf[t].state = NotWaiting)
    /\ pc[t] = "blocked" => Pending(t) /\ ntf[t].state = Waiting
    /\ pc[t] = "woken" => Notified(t)
    /\ pc[t] = "give" => outcome[dh[t]] = "ended" /\ busy[dh[t]] = None

NotificationsRight == \A t \in Tasks : NotificationAt(t)

IInv == TypeOK /\ Ownership /\ TransferOwned /\ FreeIsClear /\ NotificationsRight

LEMMA InvInit == Init => IInv
  <1> SUFFICES ASSUME Init PROVE IInv
    OBVIOUS
  <1>1. NotifyInit \in Notification({0}) /\ NotifyInit.state # Waiting
    BY InitFacts, StatesDiffer
  <1>2. TypeOK
    BY <1>1, SMT DEF Init, TypeOK, Locations
  <1>3. Ownership /\ TransferOwned /\ FreeIsClear
    BY SMT DEF Init, Ownership, TransferOwned, FreeIsClear, Holding, Transferring, Configuring
  <1>4. NotificationsRight
    BY <1>1, SMT DEF Init, NotificationsRight, NotificationAt
  <1> QED
    BY <1>2, <1>3, <1>4 DEF IInv

LEMMA InvStep == IInv /\ [Next]_vars => IInv'
  <1> SUFFICES ASSUME IInv, [Next]_vars PROVE IInv'
    OBVIOUS
  <1> USE SpiAssumption, StatesDiffer DEF SpiAssumption, IInv, Holding, Transferring, Configuring
  <1>0. \A u \in Tasks : ntf[u] \in Notification({0})
    BY DEF TypeOK
  <1>1. ASSUME NEW t \in Tasks, NEW d \in Devices, NEW r \in Requests, Call(t, d, r)
        PROVE  IInv'
    <2>1. TypeOK'
      BY <1>1, SMT DEF Call, Goto, TypeOK, Ownership, Locations
    <2>2. Ownership'
      BY <1>1, SMT DEF Call, Goto, TypeOK, Ownership, Locations
    <2>3. TransferOwned' /\ FreeIsClear'
      BY <1>1, SMT DEF Call, Goto, TypeOK, Ownership, TransferOwned, FreeIsClear, Locations,
         NotificationsRight, NotificationAt, Pending, Notified
    <2>4. NotificationsRight'
      BY <1>1, SMT DEF Call, Goto, TypeOK, Ownership, TransferOwned, FreeIsClear, Locations,
         NotificationsRight, NotificationAt, Pending, Notified
    <2> QED
      BY <2>1, <2>2, <2>3, <2>4
  <1>2. ASSUME NEW t \in Tasks, NEW d \in Devices, Config(t, d)
        PROVE  IInv'
    <2>1. TypeOK'
      BY <1>2, SMT DEF Config, Goto, TypeOK, Ownership, Locations
    <2>2. Ownership'
      BY <1>2, SMT DEF Config, Goto, TypeOK, Ownership, Locations
    <2>3. TransferOwned' /\ FreeIsClear'
      BY <1>2, SMT DEF Config, Goto, TypeOK, Ownership, TransferOwned, FreeIsClear,
         Locations, NotificationsRight, NotificationAt, Pending, Notified
    <2>4. NotificationsRight'
      BY <1>2, SMT DEF Config, Goto, TypeOK, Ownership, TransferOwned, FreeIsClear,
         Locations, NotificationsRight, NotificationAt, Pending, Notified
    <2> QED
      BY <2>1, <2>2, <2>3, <2>4
  <1>3. ASSUME NEW t \in Tasks, TakeMutex(t)
        PROVE  IInv'
    <2>1. TypeOK'
      BY <1>3, SMT DEF TakeMutex, Goto, Lock, TypeOK, Ownership, Locations
    <2>2. Ownership'
      BY <1>3, SMT DEF TakeMutex, Goto, Lock, TypeOK, Ownership, Locations
    <2>3. TransferOwned' /\ FreeIsClear'
      BY <1>3, SMT DEF TakeMutex, Goto, Lock, TypeOK, Ownership, TransferOwned, FreeIsClear,
         Locations, NotificationsRight, NotificationAt, Pending, Notified
    <2>4. NotificationsRight'
      BY <1>3, SMT DEF TakeMutex, Goto, Lock, TypeOK, Ownership, TransferOwned, FreeIsClear,
         Locations, NotificationsRight, NotificationAt, Pending, Notified
    <2> QED
      BY <2>1, <2>2, <2>3, <2>4
  <1>4. ASSUME NEW t \in Tasks, SetTask(t)
        PROVE  IInv'
    <2>1. TypeOK'
      BY <1>4, SMT DEF SetTask, Goto, TypeOK, Ownership, Locations
    <2>2. Ownership'
      BY <1>4, SMT DEF SetTask, Goto, TypeOK, Ownership, Locations
    <2>3. TransferOwned' /\ FreeIsClear'
      BY <1>4, SMT DEF SetTask, Goto, TypeOK, Ownership, TransferOwned, FreeIsClear,
         Locations, NotificationsRight, NotificationAt, Pending, Notified
    <2>4. NotificationsRight'
      BY <1>4, SMT DEF SetTask, Goto, TypeOK, Ownership, TransferOwned, FreeIsClear,
         Locations, NotificationsRight, NotificationAt, Pending, Notified
    <2> QED
      BY <2>1, <2>2, <2>3, <2>4
  <1>5. ASSUME NEW t \in Tasks, ClearState(t)
        PROVE  IInv'
    <2>1. /\ taskHadle[dh[t]] = t
          /\ StateClear(ntf[t]) \in Notification({0}) /\ StateClear(ntf[t]).state = NotWaiting
      BY <1>5, <1>0, ClearFacts, SMT DEF ClearState, Goto, Ownership, Locations,
         NotificationsRight, NotificationAt
    <2>2. TypeOK'
      BY <1>5, <2>1, SMT DEF ClearState, Goto, TypeOK, Ownership, Locations
    <2>3. Ownership'
      BY <1>5, <2>1, SMT DEF ClearState, Goto, TypeOK, Ownership, Locations
    <2>4. TransferOwned' /\ FreeIsClear'
      BY <1>5, <2>1, SMT DEF ClearState, Goto, TypeOK, Ownership, TransferOwned, FreeIsClear,
         Locations, NotificationsRight, NotificationAt, Pending, Notified
    <2>5. NotificationsRight'
      BY <1>5, <2>1, SMT DEF ClearState, Goto, TypeOK, Ownership, TransferOwned, FreeIsClear,
         Locations, NotificationsRight, NotificationAt, Pending, Notified
    <2> QED
      BY <2>2, <2>3, <2>4, <2>5
  <1>6. ASSUME NEW t \in Tasks, Start(t)
        PROVE  IInv'
    <2>1. /\ dh[t] \in Devices /\ mutex[dh[t]] = t /\ req[t] \in {"valid", "empty"}
          /\ busy[dh[t]] = None /\ outcome[dh[t]] = None
      <3>1. pc[t] = "start"
        BY <1>6 DEF Start, Goto
      <3>2. dh[t] \in Devices /\ mutex[dh[t]] = t /\ req[t] \in Requests
        BY <3>1, SMT DEF Ownership
      <3>3. busy[dh[t]] = None /\ outcome[dh[t]] = None
        BY <3>1, <3>2, SMT DEF TransferOwned, FreeIsClear
      <3> QED
        BY <3>2, <3>3
    <2>2. TypeOK'
      BY <1>6, <2>1, SMT DEF Start, Goto, Accepts, TypeOK, Ownership, Locations
    <2>3. Ownership'
      BY <1>6, <2>1, SMT DEF Start, Goto, Accepts, TypeOK, Ownership, Locations
    <2>4. TransferOwned' /\ FreeIsClear'
      BY <1>6, <2>1, SMT DEF Start, Goto, Accepts, TypeOK, Ownership, TransferOwned,
         FreeIsClear, Locations, NotificationsRight, NotificationAt, Pending, Notified
    <2>5. NotificationsRight'
      BY <1>6, <2>1, SMT DEF Start, Goto, Accepts, TypeOK, Ownership, TransferOwned,
         FreeIsClear, Locations, NotificationsRight, NotificationAt, Pending, Notified
    <2> QED
      BY <2>2, <2>3, <2>4, <2>5
  <1>7. ASSUME NEW t \in Tasks, Wait(t)
        PROVE  IInv'
    <2>1. /\ WaitEnter(ntf[t]) \in Notification({0})
          /\ IF ntf[t].state = Received
             THEN ~WaitMustBlock(ntf[t]) /\ WaitEnter(ntf[t]) = ntf[t]
             ELSE WaitMustBlock(ntf[t]) /\ WaitEnter(ntf[t]).state = Waiting
      BY <1>0, WaitFacts
    <2>2. TypeOK'
      BY <1>7, <2>1, SMT DEF Wait, Goto, TypeOK, Ownership, Locations
    <2>3. Ownership'
      BY <1>7, <2>1, SMT DEF Wait, Goto, TypeOK, Ownership, Locations
    <2>4. TransferOwned' /\ FreeIsClear'
      BY <1>7, <2>1, SMT DEF Wait, Goto, TypeOK, Ownership, TransferOwned, FreeIsClear,
         Locations, NotificationsRight, NotificationAt, Pending, Notified
    <2>5. NotificationsRight'
      BY <1>7, <2>1, SMT DEF Wait, Goto, TypeOK, Ownership, TransferOwned, FreeIsClear,
         Locations, NotificationsRight, NotificationAt, Pending, Notified
    <2> QED
      BY <2>2, <2>3, <2>4, <2>5
  <1>8. ASSUME NEW t \in Tasks, Wake(t)
        PROVE  IInv'
    <2>1. WaitExit(ntf[t]) \in Notification({0}) /\ WaitExit(ntf[t]).state = NotWaiting
      BY <1>0, WaitFacts
    <2>2. TypeOK'
      BY <1>8, <2>1, SMT DEF Wake, Goto, TypeOK, Ownership, Locations
    <2>3. Ownership'
      BY <1>8, <2>1, SMT DEF Wake, Goto, TypeOK, Ownership, Locations
    <2>4. TransferOwned' /\ FreeIsClear'
      BY <1>8, <2>1, SMT DEF Wake, Goto, TypeOK, Ownership, TransferOwned, FreeIsClear,
         Locations, NotificationsRight, NotificationAt, Pending, Notified
    <2>5. NotificationsRight'
      BY <1>8, <2>1, SMT DEF Wake, Goto, TypeOK, Ownership, TransferOwned, FreeIsClear,
         Locations, NotificationsRight, NotificationAt, Pending, Notified
    <2> QED
      BY <2>2, <2>3, <2>4, <2>5
  <1>9. ASSUME NEW t \in Tasks, GiveMutex(t)
        PROVE  IInv'
    <2>1. TypeOK'
      BY <1>9, SMT DEF GiveMutex, Goto, Unlock, TypeOK, Ownership, Locations
    <2>2. Ownership'
      BY <1>9, SMT DEF GiveMutex, Goto, Unlock, TypeOK, Ownership, Locations
    <2>3. TransferOwned' /\ FreeIsClear'
      BY <1>9, SMT DEF GiveMutex, Goto, Unlock, TypeOK, Ownership, TransferOwned,
         FreeIsClear, Locations, NotificationsRight, NotificationAt, Pending, Notified
    <2>4. NotificationsRight'
      BY <1>9, SMT DEF GiveMutex, Goto, Unlock, TypeOK, Ownership, TransferOwned,
         FreeIsClear, Locations, NotificationsRight, NotificationAt, Pending, Notified
    <2> QED
      BY <2>1, <2>2, <2>3, <2>4
  <1>10. ASSUME NEW t \in Tasks, TakeConf(t)
        PROVE  IInv'
    <2>1. TypeOK'
      BY <1>10, SMT DEF TakeConf, Goto, Lock, TypeOK, Ownership, Locations
    <2>2. Ownership'
      BY <1>10, SMT DEF TakeConf, Goto, Lock, TypeOK, Ownership, Locations
    <2>3. TransferOwned' /\ FreeIsClear'
      BY <1>10, SMT DEF TakeConf, Goto, Lock, TypeOK, Ownership, TransferOwned, FreeIsClear,
         Locations, NotificationsRight, NotificationAt, Pending, Notified
    <2>4. NotificationsRight'
      BY <1>10, SMT DEF TakeConf, Goto, Lock, TypeOK, Ownership, TransferOwned, FreeIsClear,
         Locations, NotificationsRight, NotificationAt, Pending, Notified
    <2> QED
      BY <2>1, <2>2, <2>3, <2>4
  <1>11. ASSUME NEW t \in Tasks, ConfCB(t)
        PROVE  IInv'
    <2>1. TypeOK'
      BY <1>11, SMT DEF ConfCB, Goto, TypeOK, Ownership, Locations
    <2>2. Ownership'
      BY <1>11, SMT DEF ConfCB, Goto, TypeOK, Ownership, Locations
    <2>3. TransferOwned' /\ FreeIsClear'
      BY <1>11, SMT DEF ConfCB, Goto, TypeOK, Ownership, TransferOwned, FreeIsClear,
         Locations, NotificationsRight, NotificationAt, Pending, Notified
    <2>4. NotificationsRight'
      BY <1>11, SMT DEF ConfCB, Goto, TypeOK, Ownership, TransferOwned, FreeIsClear,
         Locations, NotificationsRight, NotificationAt, Pending, Notified
    <2> QED
      BY <2>1, <2>2, <2>3, <2>4
  <1>12. ASSUME NEW t \in Tasks, GiveConf(t)
        PROVE  IInv'
    <2>1. TypeOK'
      BY <1>12, SMT DEF GiveConf, Goto, Unlock, TypeOK, Ownership, Locations
    <2>2. Ownership'
      BY <1>12, SMT DEF GiveConf, Goto, Unlock, TypeOK, Ownership, Locations
    <2>3. TransferOwned' /\ FreeIsClear'
      BY <1>12, SMT DEF GiveConf, Goto, Unlock, TypeOK, Ownership, TransferOwned,
         FreeIsClear, Locations, NotificationsRight, NotificationAt, Pending, Notified
    <2>4. NotificationsRight'
      BY <1>12, SMT DEF GiveConf, Goto, Unlock, TypeOK, Ownership, TransferOwned,
         FreeIsClear, Locations, NotificationsRight, NotificationAt, Pending, Notified
    <2> QED
      BY <2>1, <2>2, <2>3, <2>4
  <1>13. ASSUME NEW d \in Devices, NEW t, t = busy[d], Interrupt(d)
        PROVE  IInv'
    <2>1. /\ t \in Tasks /\ taskHadle[d] = t /\ mutex[d] = t /\ dh[t] = d
          /\ pc[t] \in {"wait", "blocked"}
          /\ NoAction(ntf[t]) \in Notification({0}) /\ NoAction(ntf[t]).state = Received
          /\ Wakes(ntf[t]) <=> pc[t] = "blocked"
      <3>1. /\ t \in Tasks /\ mutex[d] = t /\ dh[t] = d
            /\ pc[t] \in {"wait", "blocked"} /\ taskHadle[d] = t
        BY <1>13, SMT DEF Interrupt, TypeOK, Ownership, TransferOwned, Locations
      <3>2. pc[t] = "blocked" <=> ntf[t].state = Waiting
        BY <1>13, <3>1 DEF Interrupt, NotificationsRight, NotificationAt, Pending, Notified
      <3> QED
        BY <3>1, <3>2, <1>0, NoActionFacts, WaitFacts
    <2>2. TypeOK'
      BY <1>13, <2>1, SMT DEF Interrupt, TypeOK, Ownership, Locations
    <2>3. Ownership'
      BY <1>13, <2>1, SMT DEF Interrupt, TypeOK, Ownership, Locations
    <2>4. TransferOwned' /\ FreeIsClear'
      BY <1>13, <2>1, SMT DEF Interrupt, TypeOK, Ownership, TransferOwned, FreeIsClear,
         Locations, NotificationsRight, NotificationAt, Pending, Notified
    <2>5. NotificationsRight'
      BY <1>13, <2>1, SMT DEF Interrupt, TypeOK, Ownership, TransferOwned, FreeIsClear,
         Locations, NotificationsRight, NotificationAt, Pending, Notified
    <2> QED
      BY <2>2, <2>3, <2>4, <2>5
  <1>14. CASE UNCHANGED vars
    BY <1>14 DEF vars, TypeOK, Ownership, TransferOwned, FreeIsClear, NotificationsRight,
       NotificationAt, Pending, Notified
  <1> QED
    BY <1>1, <1>2, <1>3, <1>4, <1>5, <1>6, <1>7, <1>8, <1>9, <1>10, <1>11, <1>12, <1>13,
       <1>14 DEF Next, Run

LEMMA InvAlways == SafeSpec => []IInv
  BY InvInit, InvStep, PTL DEF SafeSpec

\* Every variable keeps its type.
THEOREM TypeCorrect == SafeSpec => []TypeOK
  <1>1. IInv => TypeOK
    BY DEF IInv
  <1> QED
    BY InvAlways, <1>1, PTL

(***************************************************************************)
(* A task asleep has its transfer under way, on a device bound to it,      *)
(* unless the driver did not start it: no configuration takes it away.     *)
(***************************************************************************)
THEOREM SleeperIsServed == SafeSpec => []SleeperServed
  <1>1. IInv => SleeperServed
    BY SMT DEF IInv, Ownership, Transferring, NotificationsRight, NotificationAt, Pending,
       SleeperServed
  <1> QED
    BY InvAlways, <1>1, PTL

-----------------------------------------------------------------------------
(***************************************************************************)
(* The refinement, step by step.  A configuration does not show: SerialBus *)
(* sees a free device throughout.  The other steps that touch no mutex,    *)
(* transfer, outcome or reply are stutters, and the rest each are one      *)
(* action of SerialBus.                                                    *)
(***************************************************************************)
Held(d) == IF Configured(d) THEN None ELSE mutex[d]

LEMMA BusInit == Init => Bus!Init
  <1> SUFFICES ASSUME Init PROVE Bus!Init
    OBVIOUS
  <1>1. \A d \in Devices : ~Configured(d) /\ mutex[d] = None /\ Phase(d) = "free"
    BY DEF Init, Configured, Phase
  <1> QED
    BY <1>1 DEF Init, Bus!Init

\* A device that is configured is held by the task that configures it.
LEMMA ConfiguredFacts ==
  ASSUME IInv, NEW d \in Devices
  PROVE  /\ Configured(d) <=> mutex[d] # None /\ pc[mutex[d]] \in Configuring
         /\ Configured(d) => busy[d] = None /\ outcome[d] = None
  BY SpiAssumption, SMT DEF SpiAssumption, IInv, TypeOK, Ownership, TransferOwned, FreeIsClear,
     Configured, Holding, Transferring, Configuring

\* A task that is not past the mutex holds no device.
LEMMA HoldsNothing == IInv => \A t \in Tasks : pc[t] = "take" => \A e \in Devices : mutex[e] # t
  BY SpiAssumption, SMT DEF SpiAssumption, IInv, Ownership, Holding, Transferring, Configuring

Untouched(e) ==
    /\ Configured(e)' <=> Configured(e)
    /\ mutex'[e] = mutex[e] /\ busy'[e] = busy[e] /\ outcome'[e] = outcome[e]

\* What a step changes of one device only changes what SerialBus sees of it.
LEMMA DeviceChange ==
  ASSUME NEW d \in Devices,
         \A e \in Devices \ {d} : Untouched(e),
         NEW p, Phase(d)' = p, NEW h, Held(d)' = h
  PROVE  /\ [e \in Devices |-> Phase(e)]' = [[e \in Devices |-> Phase(e)] EXCEPT ![d] = p]
         /\ [e \in Devices |-> Held(e)]' = [[e \in Devices |-> Held(e)] EXCEPT ![d] = h]
  <1>1. \A e \in Devices : Phase(e)' = IF e = d THEN p ELSE Phase(e)
    BY DEF Phase, Untouched
  <1>2. \A e \in Devices : Held(e)' = IF e = d THEN h ELSE Held(e)
    BY DEF Held, Untouched
  <1>3. [e \in Devices |-> Phase(e)]' = [e \in Devices |-> IF e = d THEN p ELSE Phase(e)]
    BY <1>1
  <1>4. [e \in Devices |-> Held(e)]' = [e \in Devices |-> IF e = d THEN h ELSE Held(e)]
    BY <1>2
  <1> QED
    BY <1>3, <1>4

LEMMA BusStep == IInv /\ IInv' /\ [Next]_vars => [Bus!Next]_(Bus!vars)
  <1> SUFFICES ASSUME IInv, IInv', [Next]_vars PROVE [Bus!Next]_(Bus!vars)
    OBVIOUS
  <1> DEFINE phase == [d \in Devices |-> Phase(d)]
             holder == [d \in Devices |-> Held(d)]
  <1> USE SpiAssumption DEF SpiAssumption, Holding, Transferring, Configuring
  <1>1. ASSUME NEW t \in Tasks, NEW d \in Devices, d = dh[t], TakeMutex(t)
        PROVE  Bus!Acquire(t, d)
    <2>1. /\ mutex[d] = None /\ mutex' = [mutex EXCEPT ![d] = t] /\ mutex'[d] = t
          /\ pc' = [pc EXCEPT ![t] = "setTask"] /\ UNCHANGED <<dh, busy, outcome, reply>>
      BY <1>1, SMT DEF TakeMutex, Goto, Lock, IInv, TypeOK
    <2>2. busy[d] = None /\ outcome[d] = None
      BY <2>1, SMT DEF IInv, TypeOK, TransferOwned, FreeIsClear
    <2>3. ~Configured(d) /\ ~Configured(d)'
      BY <1>1, <2>1, SMT DEF Configured, IInv, TypeOK, Ownership
    <2>4. \A e \in Devices \ {d} : Configured(e)' <=> Configured(e)
      BY <1>1, <2>1, SMT DEF Configured, TakeMutex, Goto, IInv, TypeOK
    <2>5. phase[d] = "free" /\ Phase(d)' = "ready" /\ Held(d)' = t
      BY <2>1, <2>2, <2>3 DEF Phase, Held
    <2>6. phase' = [phase EXCEPT ![d] = "ready"] /\ holder' = [holder EXCEPT ![d] = t]
      <3>1. \A e \in Devices \ {d} : Untouched(e)
        BY <2>1, <2>4, SMT DEF Untouched, IInv, TypeOK
      <3> QED
        BY <3>1, <2>5, DeviceChange
    <2>7. \A e \in Devices : holder[e] # t
      BY <1>1, HoldsNothing DEF TakeMutex, Goto, Held
    <2> QED
      BY <2>1, <2>5, <2>6, <2>7 DEF Bus!Acquire, Held
  <1>2. ASSUME NEW t \in Tasks, NEW d \in Devices, d = dh[t], Start(t), Accepts(t)
        PROVE  Bus!Start(d)
    <2>1. /\ mutex[d] = t /\ busy' = [busy EXCEPT ![d] = t] /\ busy'[d] = t /\ busy[d] = None
          /\ pc[t] = "start" /\ pc' = [pc EXCEPT ![t] = "wait"]
          /\ UNCHANGED <<dh, mutex, outcome, reply>>
      BY <1>2, SMT DEF Start, Accepts, Goto, IInv, Ownership, TypeOK
    <2>2. outcome[d] = None
      BY <2>1, SMT DEF IInv, FreeIsClear
    <2>3. \A e \in Devices : Configured(e)' <=> Configured(e)
      BY <2>1, SMT DEF Configured, IInv, TypeOK
    <2>4. ~Configured(d)
      BY <2>1, ConfiguredFacts
    <2>5. phase[d] = "ready" /\ Phase(d)' = "busy" /\ Held(d)' = holder[d]
      BY <2>1, <2>2, <2>3, <2>4 DEF Phase, Held
    <2>6. phase' = [phase EXCEPT ![d] = "busy"] /\ holder' = [holder EXCEPT ![d] = holder[d]]
      <3>1. \A e \in Devices \ {d} : Untouched(e)
        BY <2>1, <2>3, SMT DEF Untouched, IInv, TypeOK
      <3> QED
        BY <3>1, <2>5, DeviceChange
    <2> QED
      BY <2>1, <2>5, <2>6 DEF Bus!Start, Held
  <1>3. ASSUME NEW d \in Devices, Interrupt(d)
        PROVE  Bus!End(d)
    <2>1. /\ busy[d] # None /\ busy' = [busy EXCEPT ![d] = None] /\ busy'[d] = None
          /\ outcome' = [outcome EXCEPT ![d] = "ended"] /\ outcome'[d] = "ended"
          /\ UNCHANGED <<dh, mutex, reply>>
      BY <1>3, SMT DEF Interrupt, IInv, TypeOK
    <2>2. mutex[d] # None
      BY <2>1, SMT DEF IInv, TransferOwned
    <2>3. \A e \in Devices : Configured(e)' <=> Configured(e)
      <3>1. mutex[d] = taskHadle[d] /\ pc[taskHadle[d]] \in {"wait", "blocked"}
        BY <2>1, SMT DEF IInv, TypeOK, Ownership, TransferOwned
      <3> QED
        BY <1>3, <2>1, <3>1, SMT DEF Interrupt, Configured, IInv, TypeOK
    <2>4. ~Configured(d)
      BY <2>1, ConfiguredFacts
    <2>5. phase[d] = "busy" /\ Phase(d)' = "done" /\ Held(d)' = holder[d]
      BY <2>1, <2>2, <2>3, <2>4 DEF Phase, Held
    <2>6. phase' = [phase EXCEPT ![d] = "done"] /\ holder' = [holder EXCEPT ![d] = holder[d]]
      <3>1. \A e \in Devices \ {d} : Untouched(e)
        BY <2>1, <2>3, SMT DEF Untouched, IInv, TypeOK
      <3> QED
        BY <3>1, <2>5, DeviceChange
    <2> QED
      BY <2>1, <2>5, <2>6 DEF Bus!End, Held
  <1>4. ASSUME NEW t \in Tasks, NEW d \in Devices, d = dh[t], GiveMutex(t)
        PROVE  Bus!Answer(d)
    <2>1. /\ mutex[d] = t /\ busy[d] = None /\ outcome[d] = "ended"
          /\ mutex' = [mutex EXCEPT ![d] = None] /\ mutex'[d] = None
          /\ outcome' = [outcome EXCEPT ![d] = None]
          /\ reply' = [reply EXCEPT ![t] = "ended"]
          /\ pc[t] = "give" /\ pc' = [pc EXCEPT ![t] = "idle"]
          /\ dh' = [dh EXCEPT ![t] = None] /\ UNCHANGED busy
      BY <1>4, SMT DEF GiveMutex, Goto, Unlock, IInv, TypeOK, Ownership, NotificationsRight,
         NotificationAt
    <2>2. \A e \in Devices : Configured(e)' <=> Configured(e)
      BY <1>4, <2>1, SMT DEF Configured, IInv, TypeOK
    <2>3. ~Configured(d)
      BY <2>1, ConfiguredFacts
    <2>4. phase[d] = "done" /\ holder[d] = t /\ Phase(d)' = "free" /\ Held(d)' = None
      BY <2>1, <2>2, <2>3 DEF Phase, Held
    <2>5. phase' = [phase EXCEPT ![d] = "free"] /\ holder' = [holder EXCEPT ![d] = None]
      <3>1. \A e \in Devices \ {d} : Untouched(e)
        BY <2>1, <2>2, SMT DEF Untouched, IInv, TypeOK
      <3> QED
        BY <3>1, <2>4, DeviceChange
    <2> QED
      BY <2>1, <2>4, <2>5 DEF Bus!Answer, Held
  <1>5. ASSUME \A e \in Devices : Held(e)' = Held(e) /\ Phase(e)' = Phase(e),
               UNCHANGED <<outcome, reply>>
        PROVE  UNCHANGED Bus!vars
    BY <1>5 DEF Bus!vars, Held
  <1>6. ASSUME NEW t \in Tasks,
               \/ SetTask(t) \/ ClearState(t) \/ (Start(t) /\ ~Accepts(t)) \/ Wait(t) \/ Wake(t)
               \/ \E d \in Devices, r \in Requests : Call(t, d, r)
               \/ \E d \in Devices : Config(t, d)
        PROVE  UNCHANGED Bus!vars
    <2>1. UNCHANGED <<mutex, busy, outcome, reply>>
      BY <1>6 DEF SetTask, ClearState, Start, Wait, Wake, Call, Config
    <2>2. /\ pc[t] \notin Configuring /\ \E l : l \notin Configuring /\ pc' = [pc EXCEPT ![t] = l]
          /\ \A u \in Tasks : u # t => dh'[u] = dh[u]
      BY <1>6, SMT DEF SetTask, ClearState, Start, Wait, Wake, Call, Config, Goto, IInv, TypeOK
    <2>3. \A e \in Devices : Configured(e)' <=> Configured(e)
      BY <2>2, SMT DEF Configured, IInv, TypeOK
    <2> QED
      BY <1>5, <2>1, <2>3 DEF Held, Phase
  <1>7. ASSUME NEW t \in Tasks, NEW d \in Devices, d = dh[t],
               TakeConf(t) \/ ConfCB(t) \/ GiveConf(t)
        PROVE  UNCHANGED Bus!vars
    <2>1. /\ UNCHANGED <<outcome, reply>>
          /\ \A e \in Devices \ {d} : mutex'[e] = mutex[e] /\ busy'[e] = busy[e]
      BY <1>7, SMT DEF TakeConf, ConfCB, GiveConf, Lock, Unlock, IInv, TypeOK
    <2>2. \A e \in Devices \ {d} : Configured(e)' <=> Configured(e)
      BY <1>7, SMT DEF Configured, TakeConf, ConfCB, GiveConf, Goto, Unlock, IInv, TypeOK
    <2>3. mutex[d] = None \/ Configured(d)
      BY <1>7, ConfiguredFacts, SMT DEF TakeConf, ConfCB, GiveConf, Goto, Lock, IInv, Ownership
    <2>4. (mutex[d] = None)' \/ Configured(d)'
      BY <1>7, SMT DEF Configured, TakeConf, ConfCB, GiveConf, Goto, Lock, Unlock, IInv, TypeOK,
         Ownership
    <2>5. Held(d) = None /\ Held(d)' = None /\ Phase(d) = "free" /\ Phase(d)' = "free"
      BY <2>3, <2>4 DEF Held, Phase
    <2>6. \A e \in Devices : Held(e)' = Held(e) /\ Phase(e)' = Phase(e)
      BY <2>1, <2>2, <2>5 DEF Held, Phase
    <2> QED
      BY <1>5, <2>1, <2>6
  <1>8. CASE UNCHANGED vars
    BY <1>5, <1>8 DEF vars, Held, Phase, Configured
  <1>9. \A t \in Tasks : pc[t] # "idle" => dh[t] \in Devices
    BY DEF IInv, Ownership
  <1> QED
    BY <1>1, <1>2, <1>3, <1>4, <1>6, <1>7, <1>8, <1>9
    DEF Next, Run, Bus!Next, TakeMutex, Start, GiveMutex, TakeConf, ConfCB, GiveConf, Goto

(***************************************************************************)
(* The SPI service implements SerialBus: with configurations in between, a *)
(* transfer reaches the wire once, for the task that holds the device, and *)
(* each call returns after its own transfer has ended.                     *)
(***************************************************************************)
THEOREM ServiceIsBus == SafeSpec => StepsOfBus
  BY InvAlways, InvStep, BusInit, BusStep, PTL DEF SafeSpec, StepsOfBus, Bus!Spec
=============================================================================
