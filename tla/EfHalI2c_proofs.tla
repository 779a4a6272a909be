--------------------------- MODULE EfHalI2c_proofs ----------------------------
(***************************************************************************)
(* TLAPS proofs about EfHalI2c: for any number of tasks and devices, of    *)
(* both kinds, and with drivers that may refuse to start a transfer.       *)
(***************************************************************************)
EXTENDS EfHalI2c, TaskNotify_proofs

(***************************************************************************)
(* The inductive invariant.  First, who has what: a task past the mutex    *)
(* holds it, a mutex that is taken has a task past it, and from SetTask on *)
(* the device is bound to its holder.                                      *)
(***************************************************************************)
Ownership ==
    /\ \A t \in Tasks : pc[t] # "idle" => dh[t] \in Devices /\ req[t] \in Requests
    /\ \A t \in Tasks : pc[t] \in Holding => mutex[dh[t]] = t
    /\ \A d \in Devices : mutex[d] # None => pc[mutex[d]] \in Holding /\ dh[mutex[d]] = d
    /\ \A t \in Tasks : pc[t] \in Holding \ {"setTask"} => taskHadle[dh[t]] = t

\* Whoever has a transfer under way holds the device and waits for its end.
WireOwned ==
    \A d \in Devices : wire[d] # None =>
        /\ mutex[d] = wire[d] /\ outcome[d] = None
        /\ pc[wire[d]] \in IF d \in HwDevices THEN {"wait", "blocked"} ELSE {"clocking"}

FreeIsClear == \A d \in Devices : mutex[d] = None => wire[d] = None /\ outcome[d] = None

\* The transfer of t, which holds its device, has not ended, or never began.
Pending(t) == outcome[dh[t]] = None /\ (wire[dh[t]] = t \/ MayHang(t))

\* It has ended, and the notification says how.
Notified(t) ==
    /\ outcome[dh[t]] # None /\ wire[dh[t]] = None
    /\ ntf[t].state = Received /\ ntf[t].value = outcome[dh[t]]

(***************************************************************************)
(* Second, what the notification of a task says at each location.  Nothing *)
(* may be pending when the transfer starts: that is what ClearState is     *)
(* for.                                                                    *)
(***************************************************************************)
NotificationAt(t) ==
    /\ pc[t] \in {"idle", "take", "setTask", "clear", "give"} => ntf[t].state # Waiting
    /\ pc[t] \in {"setTask", "clear", "start", "clocking"} => outcome[dh[t]] = None
    /\ pc[t] \in {"start", "clocking"} => ntf[t].state = NotWaiting
    /\ pc[t] = "clocking" => wire[dh[t]] = t
    /\ pc[t] = "wait" => Notified(t) \/ (Pending(t) /\ ntf[t].state = NotWaiting)
    /\ pc[t] = "blocked" => Pending(t) /\ ntf[t].state = Waiting
    /\ pc[t] = "woken" => Notified(t)
    /\ pc[t] = "give" =>
          outcome[dh[t]] # None /\ wire[dh[t]] = None /\ ret[t] = outcome[dh[t]]

NotificationsRight == \A t \in Tasks : NotificationAt(t)

IInv == TypeOK /\ Ownership /\ WireOwned /\ FreeIsClear /\ NotificationsRight

LEMMA CodesFacts ==
    /\ None \notin Codes /\ WireCodes \subseteq Codes
    /\ NO_ERROR \in Codes /\ INVALID_HANDLER \in Codes
  BY I2cAssumption, SMT
  DEF I2cAssumption, Codes, NO_ERROR, INVALID_HANDLER, INVALID_PARAMS, TRANSFER_UNSUPPORTED, NAK,
         UNKNOW

LEMMA ChecksAnswer == \A r : HwCheck(r) \in Codes /\ SoftCheck(r) \in Codes
  BY SMT DEF HwCheck, SoftCheck, Codes, NO_ERROR, INVALID_PARAMS, TRANSFER_UNSUPPORTED

LEMMA InvInit == Init => IInv
  <1> SUFFICES ASSUME Init PROVE IInv
    OBVIOUS
  <1>1. NotifyInit \in Notification(Codes) /\ NotifyInit.state # Waiting
    BY InitFacts, CodesFacts, StatesDiffer DEF NO_ERROR
  <1>2. TypeOK
    BY <1>1, CodesFacts, SMT DEF Init, TypeOK, Locations
  <1>3. Ownership /\ WireOwned /\ FreeIsClear
    BY SMT DEF Init, Ownership, WireOwned, FreeIsClear, Holding, Locations
  <1>4. NotificationsRight
    BY <1>1, SMT DEF Init, NotificationsRight, NotificationAt
  <1> QED
    BY <1>2, <1>3, <1>4 DEF IInv

\* Both drivers end a transfer of a device bound to t in the same way.
LEMMA EndFacts ==
  ASSUME TypeOK, NEW d \in Devices, NEW ec \in Codes, taskHadle[d] \in Tasks,
         NEW locs \in [Tasks -> Locations], EndOfTransfer(d, ec, locs)
  PROVE  LET t == taskHadle[d] IN
         /\ ntf' \in [Tasks -> Notification(Codes)] /\ pc' \in [Tasks -> Locations]
         /\ \A u \in Tasks : u # t => ntf'[u] = ntf[u] /\ pc'[u] = locs[u]
         /\ ntf'[t].state = Received /\ ntf'[t].value = ec
         /\ pc'[t] = IF ntf[t].state = Waiting THEN "woken" ELSE locs[t]
  <1> DEFINE t == taskHadle[d]
  <1>1. ntf[t] \in Notification(Codes)
    BY DEF TypeOK
  <1>2. /\ Overwrite(ntf[t], ec) \in Notification(Codes)
        /\ Overwrite(ntf[t], ec).state = Received /\ Overwrite(ntf[t], ec).value = ec
    BY <1>1, OverwriteFacts
  <1>3. Wakes(ntf[t]) <=> ntf[t].state = Waiting
    BY <1>1, WaitFacts
  <1> QED
    BY <1>2, <1>3, SMT DEF EndOfTransfer, TypeOK, Locations

LEMMA InvStep == IInv /\ [Next]_vars => IInv'
  <1> SUFFICES ASSUME IInv, [Next]_vars PROVE IInv'
    OBVIOUS
  <1> USE I2cAssumption, CodesFacts DEF I2cAssumption, IInv
  <1>0. \A u \in Tasks : ntf[u] \in Notification(Codes)
    BY DEF TypeOK
  <1>1. ASSUME NEW t \in Tasks, CallNull(t)
        PROVE  IInv'
    <2>1. TypeOK'
      BY <1>1, SMT DEF TypeOK, Ownership, CallNull
    <2>2. Ownership'
      BY <1>1, SMT DEF TypeOK, Ownership, CallNull, Holding, Locations
    <2>3. WireOwned' /\ FreeIsClear'
      BY <1>1, SMT DEF TypeOK, Ownership, WireOwned, FreeIsClear, CallNull, Holding, Locations
    <2>4. NotificationsRight'
      BY <1>1, SMT DEF TypeOK, Ownership, WireOwned, FreeIsClear, CallNull, Holding, Locations,
         NotificationsRight, NotificationAt, Pending, Notified, MayHang
    <2> QED
      BY <2>1, <2>2, <2>3, <2>4
  <1>2. ASSUME NEW t \in Tasks, NEW d \in Devices, NEW r \in Requests, Call(t, d, r)
        PROVE  IInv'
    <2>1. TypeOK'
      BY <1>2, SMT DEF TypeOK, Ownership, Call, Goto, Locations
    <2>2. Ownership'
      BY <1>2, SMT DEF TypeOK, Ownership, Call, Goto, Holding, Locations
    <2>3. WireOwned' /\ FreeIsClear'
      BY <1>2, SMT DEF TypeOK, Ownership, WireOwned, FreeIsClear, Call, Goto, Holding, Locations
    <2>4. NotificationsRight'
      BY <1>2, SMT DEF TypeOK, Ownership, WireOwned, FreeIsClear, Call, Goto, Holding, Locations,
         NotificationsRight, NotificationAt, Pending, Notified, MayHang
    <2> QED
      BY <2>1, <2>2, <2>3, <2>4
  <1>3. ASSUME NEW t \in Tasks, TakeMutex(t)
        PROVE  IInv'
    <2>1. TypeOK'
      BY <1>3, SMT DEF TypeOK, Ownership, TakeMutex, Goto, Locations
    <2>2. Ownership'
      BY <1>3, SMT DEF TypeOK, Ownership, TakeMutex, Goto, Holding, Locations
    <2>3. WireOwned' /\ FreeIsClear'
      BY <1>3, SMT DEF TypeOK, Ownership, WireOwned, FreeIsClear, TakeMutex, Goto, Holding,
         Locations
    <2>4. NotificationsRight'
      BY <1>3, SMT DEF TypeOK, Ownership, WireOwned, FreeIsClear, TakeMutex, Goto, Holding,
         Locations,
         NotificationsRight, NotificationAt, Pending, Notified, MayHang
    <2> QED
      BY <2>1, <2>2, <2>3, <2>4
  <1>4. ASSUME NEW t \in Tasks, SetTask(t)
        PROVE  IInv'
    <2>1. TypeOK'
      BY <1>4, SMT DEF TypeOK, Ownership, SetTask, Goto, Locations
    <2>2. Ownership'
      BY <1>4, SMT DEF TypeOK, Ownership, SetTask, Goto, Holding, Locations
    <2>3. WireOwned' /\ FreeIsClear'
      BY <1>4, SMT DEF TypeOK, Ownership, WireOwned, FreeIsClear, SetTask, Goto, Holding, Locations
    <2>4. NotificationsRight'
      BY <1>4, SMT DEF TypeOK, Ownership, WireOwned, FreeIsClear, SetTask, Goto, Holding, Locations,
         NotificationsRight, NotificationAt, Pending, Notified, MayHang
    <2> QED
      BY <2>1, <2>2, <2>3, <2>4
  <1>5. ASSUME NEW t \in Tasks, ClearState(t)
        PROVE  IInv'
    <2>1. /\ taskHadle[dh[t]] = t
          /\ StateClear(ntf[t]) \in Notification(Codes) /\ StateClear(ntf[t]).state = NotWaiting
      BY <1>5, <1>0, ClearFacts, SMT DEF ClearState, Goto, Ownership, Holding, Locations,
         NotificationsRight, NotificationAt
    <2>2. TypeOK'
      BY <1>5, <2>1, SMT DEF TypeOK, Ownership, ClearState, Goto, Locations
    <2>3. Ownership'
      BY <1>5, SMT DEF TypeOK, Ownership, ClearState, Goto, Holding, Locations
    <2>4. WireOwned' /\ FreeIsClear'
      BY <1>5, SMT DEF TypeOK, Ownership, WireOwned, FreeIsClear, ClearState, Goto, Holding,
         Locations
    <2>5. NotificationsRight'
      BY <1>5, <2>1, StatesDiffer, SMT DEF TypeOK, Ownership, WireOwned, FreeIsClear, ClearState,
         Goto, Holding, Locations,
         NotificationsRight, NotificationAt, Pending, Notified, MayHang
    <2> QED
      BY <2>2, <2>3, <2>4, <2>5
  <1>6. ASSUME NEW t \in Tasks, HwReject(t)
        PROVE  IInv'
    <2>1. TypeOK'
      BY <1>6, ChecksAnswer, SMT DEF TypeOK, Ownership, HwReject, Goto, Locations
    <2>2. Ownership'
      BY <1>6, SMT DEF TypeOK, Ownership, HwReject, Goto, Holding, Locations
    <2>3. WireOwned' /\ FreeIsClear'
      BY <1>6, SMT DEF TypeOK, Ownership, WireOwned, FreeIsClear, HwReject, Goto, Holding,
         Locations,
         NotificationsRight, NotificationAt, Pending, Notified, MayHang
    <2>4. NotificationsRight'
      BY <1>6, ChecksAnswer, StatesDiffer, SMT DEF TypeOK, Ownership, WireOwned, FreeIsClear,
         HwReject, Goto, Holding, Locations,
         NotificationsRight, NotificationAt, Pending, Notified, MayHang
    <2> QED
      BY <2>1, <2>2, <2>3, <2>4
  <1>7. ASSUME NEW t \in Tasks, HwStart(t)
        PROVE  IInv'
    <2>1. TypeOK'
      BY <1>7, SMT DEF TypeOK, Ownership, HwStart, Goto, Locations
    <2>2. Ownership'
      BY <1>7, SMT DEF TypeOK, Ownership, HwStart, Goto, Holding, Locations
    <2>3. WireOwned' /\ FreeIsClear'
      BY <1>7, SMT DEF TypeOK, Ownership, WireOwned, FreeIsClear, HwStart, Goto, Holding, Locations,
         NotificationsRight, NotificationAt, Pending, Notified, MayHang
    <2>4. NotificationsRight'
      BY <1>7, SMT DEF TypeOK, Ownership, WireOwned, FreeIsClear, HwStart, Goto, Holding, Locations,
         NotificationsRight, NotificationAt, Pending, Notified, MayHang
    <2> QED
      BY <2>1, <2>2, <2>3, <2>4
  <1>8. ASSUME NEW t \in Tasks, HwStartInVain(t)
        PROVE  IInv'
    <2>1. TypeOK'
      BY <1>8, SMT DEF TypeOK, Ownership, HwStartInVain, Goto, Locations
    <2>2. Ownership'
      BY <1>8, SMT DEF TypeOK, Ownership, HwStartInVain, Goto, Holding, Locations
    <2>3. WireOwned' /\ FreeIsClear'
      BY <1>8, SMT DEF TypeOK, Ownership, WireOwned, FreeIsClear, HwStartInVain, Goto, Holding,
         Locations
    <2>4. NotificationsRight'
      BY <1>8, SMT DEF TypeOK, Ownership, WireOwned, FreeIsClear, HwStartInVain, Goto, Holding,
         Locations,
         NotificationsRight, NotificationAt, Pending, Notified, MayHang
    <2> QED
      BY <2>1, <2>2, <2>3, <2>4
  <1>9. ASSUME NEW t \in Tasks, SoftStart(t)
        PROVE  IInv'
    <2>1. TypeOK'
      BY <1>9, SMT DEF TypeOK, Ownership, SoftStart, Goto, Locations
    <2>2. Ownership'
      BY <1>9, SMT DEF TypeOK, Ownership, SoftStart, Goto, Holding, Locations
    <2>3. WireOwned' /\ FreeIsClear'
      BY <1>9, SMT DEF TypeOK, Ownership, WireOwned, FreeIsClear, SoftStart, Goto, Holding,
         Locations,
         NotificationsRight, NotificationAt, Pending, Notified, MayHang
    <2>4. NotificationsRight'
      BY <1>9, SMT DEF TypeOK, Ownership, WireOwned, FreeIsClear, SoftStart, Goto, Holding,
         Locations,
         NotificationsRight, NotificationAt, Pending, Notified, MayHang
    <2> QED
      BY <2>1, <2>2, <2>3, <2>4
  <1>10. ASSUME NEW t \in Tasks, SoftEnd(t)
        PROVE  IInv'
    <2>1. /\ pc[t] = "clocking" /\ wire' = [wire EXCEPT ![dh[t]] = None]
          /\ UNCHANGED <<dh, req, reply, mutex, taskHadle>>
      BY <1>10 DEF SoftEnd
    <2>2. PICK e \in Codes :
             /\ ret' = [ret EXCEPT ![t] = e] /\ outcome' = [outcome EXCEPT ![dh[t]] = e]
             /\ EndOfTransfer(dh[t], e, [pc EXCEPT ![t] = IF e = NO_ERROR THEN "wait" ELSE "give"])
      BY <1>10, ChecksAnswer DEF SoftEnd
    <2> DEFINE locs == [pc EXCEPT ![t] = IF e = NO_ERROR THEN "wait" ELSE "give"]
    <2>3. dh[t] \in Devices /\ taskHadle[dh[t]] = t /\ locs \in [Tasks -> Locations]
      BY <1>10, SMT DEF SoftEnd, TypeOK, Ownership, Holding, Locations
    <2>4. ntf[t].state # Waiting
      BY <1>10, StatesDiffer DEF SoftEnd, NotificationsRight, NotificationAt
    <2>5. /\ ntf' \in [Tasks -> Notification(Codes)] /\ pc' \in [Tasks -> Locations]
          /\ \A u \in Tasks : u # t => ntf'[u] = ntf[u] /\ pc'[u] = pc[u]
          /\ ntf'[t].state = Received /\ ntf'[t].value = e
          /\ pc'[t] = IF e = NO_ERROR THEN "wait" ELSE "give"
      <3> HIDE DEF locs
      <3>1. /\ ntf' \in [Tasks -> Notification(Codes)] /\ pc' \in [Tasks -> Locations]
            /\ \A u \in Tasks : u # t => ntf'[u] = ntf[u] /\ pc'[u] = locs[u]
            /\ ntf'[t].state = Received /\ ntf'[t].value = e
            /\ pc'[t] = locs[t]
        <4>1. EndOfTransfer(dh[t], e, locs)
          BY <2>2 DEF locs
        <4> QED
          BY <4>1, <2>3, <2>4, EndFacts
      <3> QED
        BY <3>1, SMT DEF locs, TypeOK
    <2>6. TypeOK'
      <3>1. ret' \in [Tasks -> Codes] /\ outcome' \in [Devices -> Codes \cup {None}]
        BY <2>2, <2>3, SMT DEF TypeOK
      <3>2. wire' \in [Devices -> Tasks \cup {None}]
        BY <2>1, <2>3, SMT DEF TypeOK
      <3> QED
        BY <2>5, <2>1, <3>1, <3>2 DEF TypeOK
    <2>7. Ownership'
      BY <2>2, <2>3, <2>5, <2>1, SMT DEF TypeOK, Ownership, Holding, Locations
    <2>8. WireOwned' /\ FreeIsClear'
      BY <2>2, <2>3, <2>5, <2>1, SMT DEF TypeOK, Ownership, WireOwned, FreeIsClear, Holding,
         Locations,
         NotificationsRight, NotificationAt, Pending, Notified, MayHang
    <2>9. NotificationsRight'
      BY <2>2, <2>3, <2>5, <2>1, StatesDiffer, SMT DEF TypeOK, Ownership, WireOwned, FreeIsClear,
         Holding, Locations,
         NotificationsRight, NotificationAt, Pending, Notified, MayHang
    <2> QED
      BY <2>6, <2>7, <2>8, <2>9
  <1>11. ASSUME NEW t \in Tasks, Wait(t)
        PROVE  IInv'
    <2>1. /\ WaitEnter(ntf[t]) \in Notification(Codes)
          /\ IF ntf[t].state = Received
             THEN ~WaitMustBlock(ntf[t]) /\ WaitEnter(ntf[t]) = ntf[t]
             ELSE WaitMustBlock(ntf[t]) /\ WaitEnter(ntf[t]).state = Waiting
      BY <1>0, WaitFacts
    <2>2. TypeOK'
      BY <1>11, <2>1, SMT DEF TypeOK, Ownership, Wait, Goto, Locations
    <2>3. Ownership'
      BY <1>11, SMT DEF TypeOK, Ownership, Wait, Goto, Holding, Locations
    <2>4. WireOwned' /\ FreeIsClear'
      BY <1>11, <2>1, StatesDiffer, SMT DEF TypeOK, Ownership, WireOwned, FreeIsClear, Wait,
         Goto, Holding, Locations,
         NotificationsRight, NotificationAt, Pending, Notified, MayHang
    <2>5. NotificationsRight'
      BY <1>11, <2>1, StatesDiffer, SMT DEF TypeOK, Ownership, WireOwned, FreeIsClear, Wait,
         Goto, Holding, Locations,
         NotificationsRight, NotificationAt, Pending, Notified, MayHang
    <2> QED
      BY <2>2, <2>3, <2>4, <2>5
  <1>12. ASSUME NEW t \in Tasks, Wake(t)
        PROVE  IInv'
    <2>1. /\ WaitExit(ntf[t]) \in Notification(Codes) /\ WaitExit(ntf[t]).state = NotWaiting
          /\ WaitResult(ntf[t]) = ntf[t].value /\ WaitResult(ntf[t]) \in Codes
      BY <1>0, WaitFacts
    <2>2. TypeOK'
      BY <1>12, <2>1, SMT DEF TypeOK, Ownership, Wake, Goto, Locations
    <2>3. Ownership'
      BY <1>12, SMT DEF TypeOK, Ownership, Wake, Goto, Holding, Locations
    <2>4. WireOwned' /\ FreeIsClear'
      BY <1>12, SMT DEF TypeOK, Ownership, WireOwned, FreeIsClear, Wake, Goto, Holding, Locations,
         NotificationsRight, NotificationAt, Pending, Notified, MayHang
    <2>5. NotificationsRight'
      BY <1>12, <2>1, StatesDiffer, SMT DEF TypeOK, Ownership, WireOwned, FreeIsClear, Wake,
         Goto, Holding, Locations,
         NotificationsRight, NotificationAt, Pending, Notified, MayHang
    <2> QED
      BY <2>2, <2>3, <2>4, <2>5
  <1>13. ASSUME NEW t \in Tasks, GiveMutex(t)
        PROVE  IInv'
    <2>1. TypeOK'
      BY <1>13, SMT DEF TypeOK, Ownership, GiveMutex, Goto, Locations
    <2>2. Ownership'
      BY <1>13, SMT DEF TypeOK, Ownership, GiveMutex, Goto, Holding, Locations
    <2>3. WireOwned' /\ FreeIsClear'
      BY <1>13, SMT DEF TypeOK, Ownership, WireOwned, FreeIsClear, GiveMutex, Goto, Holding,
         Locations,
         NotificationsRight, NotificationAt, Pending, Notified, MayHang
    <2>4. NotificationsRight'
      BY <1>13, SMT DEF TypeOK, Ownership, WireOwned, FreeIsClear, GiveMutex, Goto, Holding,
         Locations,
         NotificationsRight, NotificationAt, Pending, Notified, MayHang
    <2> QED
      BY <2>1, <2>2, <2>3, <2>4
  <1>14. ASSUME NEW d \in Devices, Interrupt(d)
        PROVE  IInv'
    <2>1. PICK ec \in Codes : outcome' = [outcome EXCEPT ![d] = ec] /\ EndOfTransfer(d, ec, pc)
      BY <1>14 DEF Interrupt
    <2> DEFINE t == wire[d]
    <2>2. /\ t \in Tasks /\ mutex[d] = t /\ dh[t] = d /\ taskHadle[d] = t
          /\ pc[t] \in {"wait", "blocked"}
      BY <1>14, SMT DEF Interrupt, TypeOK, Ownership, WireOwned, Holding, Locations
    <2>3. pc[t] = "blocked" <=> ntf[t].state = Waiting
      BY <1>14, <2>2, StatesDiffer DEF Interrupt, NotificationsRight, NotificationAt, Pending,
         Notified
    <2>4. /\ ntf' \in [Tasks -> Notification(Codes)] /\ pc' \in [Tasks -> Locations]
          /\ \A u \in Tasks : u # t => ntf'[u] = ntf[u] /\ pc'[u] = pc[u]
          /\ ntf'[t].state = Received /\ ntf'[t].value = ec
          /\ pc'[t] = IF pc[t] = "blocked" THEN "woken" ELSE "wait"
      BY <2>1, <2>2, <2>3, EndFacts DEF TypeOK
    <2>5. TypeOK'
      BY <1>14, <2>1, <2>4, SMT DEF TypeOK, Ownership, Interrupt
    <2>6. Ownership'
      BY <1>14, <2>1, <2>2, <2>4, SMT DEF TypeOK, Ownership, Interrupt, Holding, Locations
    <2>7. WireOwned' /\ FreeIsClear'
      BY <1>14, <2>1, <2>2, <2>4, SMT DEF TypeOK, Ownership, WireOwned, FreeIsClear, Interrupt,
         Holding, Locations,
         NotificationsRight, NotificationAt, Pending, Notified, MayHang
    <2>8. NotificationsRight'
      BY <1>14, <2>1, <2>2, <2>4, StatesDiffer, SMT DEF TypeOK, Ownership, WireOwned,
         FreeIsClear, Interrupt, Holding, Locations,
         NotificationsRight, NotificationAt, Pending, Notified, MayHang
    <2> QED
      BY <2>5, <2>6, <2>7, <2>8
  <1>15. CASE UNCHANGED vars
    BY <1>15 DEF vars, TypeOK, Ownership, WireOwned, FreeIsClear,
       NotificationsRight, NotificationAt, Pending, Notified, MayHang
  <1> QED
    BY <1>1, <1>2, <1>3, <1>4, <1>5, <1>6, <1>7, <1>8, <1>9, <1>10, <1>11, <1>12, <1>13, <1>14,
         <1>15
    DEF Next, Run

LEMMA InvAlways == SafeSpec => []IInv
  BY InvInit, InvStep, PTL DEF SafeSpec

\* Every variable keeps its type.
THEOREM TypeCorrect == SafeSpec => []TypeOK
  <1>1. IInv => TypeOK
    BY DEF IInv
  <1> QED
    BY InvAlways, <1>1, PTL

(***************************************************************************)
(* A transfer under way is its holder's, and its end is notified to it.    *)
(***************************************************************************)
THEOREM CompletionReachesItsTask == SafeSpec => []CompletionReachesStarter
  <1>1. IInv => CompletionReachesStarter
    BY SMT DEF IInv, TypeOK, Ownership, WireOwned, Holding, Locations, CompletionReachesStarter
  <1> QED
    BY InvAlways, <1>1, PTL

(***************************************************************************)
(* A task returns the outcome of its own transfer, which has ended.        *)
(***************************************************************************)
THEOREM ResultIsItsOwn == SafeSpec => []ResultIsOwn
  <1>1. IInv => ResultIsOwn
    BY DEF IInv, NotificationsRight, NotificationAt, ResultIsOwn
  <1> QED
    BY InvAlways, <1>1, PTL

(***************************************************************************)
(* A task asleep has an end still to come, unless its start was refused.   *)
(***************************************************************************)
THEOREM EndNeverMissed == SafeSpec => []NoMissedEnd
  <1>1. IInv => NoMissedEnd
    BY DEF IInv, NotificationsRight, NotificationAt, Pending, NoMissedEnd
  <1> QED
    BY InvAlways, <1>1, PTL

-----------------------------------------------------------------------------
(***************************************************************************)
(* The refinement, step by step.  A step that touches no mutex, wire,      *)
(* outcome or reply is a stutter; the others each are one action of        *)
(* SerialBus, which the ownership facts of the invariant enable.           *)
(***************************************************************************)
LEMMA BusInit == Init => Bus!Init
  BY DEF Init, Bus!Init, Phase

\* A task that is not past the mutex holds no device.
LEMMA HoldsNothing == IInv => \A t \in Tasks : pc[t] \in {"idle", "take"} => \A e \in Devices : mutex[e] # t
  BY I2cAssumption, SMT DEF I2cAssumption, IInv, Ownership, Holding, Locations

\* A step that changes one device's variables changes its phase only.
LEMMA PhaseChange ==
  ASSUME NEW d \in Devices,
         \A e \in Devices \ {d} : mutex'[e] = mutex[e] /\ wire'[e] = wire[e] /\ outcome'[e] = outcome[e],
         NEW p, Phase(d)' = p
  PROVE  [e \in Devices |-> Phase(e)]' = [[e \in Devices |-> Phase(e)] EXCEPT ![d] = p]
  <1>1. \A e \in Devices : Phase(e)' = IF e = d THEN p ELSE Phase(e)
    BY DEF Phase
  <1>2. [e \in Devices |-> Phase(e)]' = [e \in Devices |-> IF e = d THEN p ELSE Phase(e)]
    BY <1>1
  <1> QED
    BY <1>2

LEMMA BusStep == IInv /\ [Next]_vars => [Bus!Next]_(Bus!vars)
  <1> SUFFICES ASSUME IInv, [Next]_vars PROVE [Bus!Next]_(Bus!vars)
    OBVIOUS
  <1> DEFINE phase == [d \in Devices |-> Phase(d)]
  <1> USE I2cAssumption, CodesFacts DEF I2cAssumption
  <1>1. ASSUME NEW t \in Tasks, CallNull(t)
        PROVE  Bus!Refuse(t)
    BY <1>1, HoldsNothing DEF CallNull, Bus!Refuse, Phase
  <1>2. ASSUME NEW t \in Tasks, NEW d \in Devices, d = dh[t], TakeMutex(t)
        PROVE  Bus!Acquire(t, d)
    <2>1. mutex[d] = None /\ mutex' = [mutex EXCEPT ![d] = t]
      BY <1>2, SMT DEF TakeMutex, Goto, IInv, Ownership
    <2>2. wire[d] = None /\ outcome[d] = None /\ UNCHANGED <<wire, outcome, reply>>
      BY <1>2, <2>1 DEF IInv, FreeIsClear, TakeMutex
    <2>3. phase[d] = "free"
      BY <2>1 DEF Phase
    <2>4. phase' = [phase EXCEPT ![d] = "ready"]
      BY <2>1, <2>2, PhaseChange, SMT DEF Phase, IInv, TypeOK
    <2> QED
      BY <1>2, <2>1, <2>2, <2>3, <2>4, HoldsNothing DEF TakeMutex, Goto, Bus!Acquire
  <1>3. ASSUME NEW t \in Tasks, NEW d \in Devices, d = dh[t], HwStart(t) \/ SoftStart(t)
        PROVE  Bus!Start(d)
    <2>1. /\ mutex[d] = t /\ wire' = [wire EXCEPT ![d] = t]
          /\ UNCHANGED <<mutex, outcome, reply>>
      BY <1>3, SMT DEF HwStart, SoftStart, Goto, IInv, Ownership, Holding, Locations
    <2>2. wire[d] = None /\ outcome[d] = None
      BY <1>3, <2>1, SMT DEF HwStart, SoftStart, Goto, IInv, WireOwned, NotificationsRight, NotificationAt
    <2>3. phase[d] = "ready"
      BY <2>1, <2>2 DEF Phase
    <2>4. phase' = [phase EXCEPT ![d] = "busy"]
      BY <2>1, PhaseChange, SMT DEF Phase, IInv, TypeOK
    <2> QED
      BY <2>1, <2>3, <2>4 DEF Bus!Start
  <1>4. ASSUME NEW t \in Tasks, NEW d \in Devices, d = dh[t], HwReject(t)
        PROVE  Bus!End(d)
    <2>1. /\ mutex[d] = t
          /\ outcome' = [outcome EXCEPT ![d] = HwCheck(req[t])]
          /\ UNCHANGED <<mutex, wire, reply>>
      BY <1>4, SMT DEF HwReject, Goto, IInv, Ownership, Holding, Locations
    <2>2. HwCheck(req[t]) \in {INVALID_PARAMS, TRANSFER_UNSUPPORTED, INVALID_HANDLER}
      BY <1>4 DEF HwReject, HwCheck
    <2>3. wire[d] = None /\ outcome[d] = None
      BY <1>4, <2>1, SMT DEF HwReject, Goto, IInv, WireOwned, NotificationsRight, NotificationAt
    <2>4. phase[d] = "ready"
      BY <2>1, <2>3 DEF Phase
    <2>5. phase' = [phase EXCEPT ![d] = "done"]
      BY <2>1, <2>3, ChecksAnswer, PhaseChange, SMT DEF Phase, IInv, TypeOK
    <2> QED
      BY <2>1, <2>2, <2>4, <2>5 DEF Bus!End
  <1>5. ASSUME NEW d \in Devices, NEW e \in Codes, wire[d] # None,
               wire' = [wire EXCEPT ![d] = None], outcome' = [outcome EXCEPT ![d] = e],
               UNCHANGED <<mutex, reply>>
        PROVE  Bus!End(d)
    <2>1. mutex[d] # None
      BY <1>5 DEF IInv, FreeIsClear
    <2>2. phase[d] = "busy"
      BY <1>5, <2>1 DEF Phase
    <2>3. phase' = [phase EXCEPT ![d] = "done"]
      BY <1>5, <2>1, PhaseChange, SMT DEF Phase, IInv, TypeOK
    <2> QED
      BY <1>5, <2>2, <2>3 DEF Bus!End
  <1>6. ASSUME NEW t \in Tasks, NEW d \in Devices, d = dh[t], SoftEnd(t)
        PROVE  Bus!End(d)
    <2>1. wire[d] # None
      BY <1>6, SMT DEF SoftEnd, IInv, NotificationsRight, NotificationAt
    <2> QED
      BY <1>5, <1>6, <2>1, ChecksAnswer DEF SoftEnd
  <1>7. ASSUME NEW d \in Devices, Interrupt(d)
        PROVE  Bus!End(d)
    BY <1>5, <1>7 DEF Interrupt
  <1>8. ASSUME NEW t \in Tasks, NEW d \in Devices, d = dh[t], GiveMutex(t)
        PROVE  Bus!Answer(d)
    <2>1. /\ mutex[d] = t /\ wire[d] = None
          /\ outcome[d] # None /\ ret[t] = outcome[d]
      BY <1>8, SMT DEF GiveMutex, Goto, IInv, Ownership, Holding, Locations,
         NotificationsRight, NotificationAt
    <2>2. phase[d] = "done"
      BY <2>1 DEF Phase
    <2>3. phase' = [phase EXCEPT ![d] = "free"]
      BY <1>8, <2>1, PhaseChange, SMT DEF GiveMutex, Phase, IInv, TypeOK
    <2> QED
      BY <1>8, <2>1, <2>2, <2>3 DEF GiveMutex, Bus!Answer
  <1>9. ASSUME UNCHANGED <<mutex, wire, outcome, reply>>
        PROVE  UNCHANGED Bus!vars
    BY <1>9 DEF Bus!vars, Phase
  <1>10. ASSUME NEW t \in Tasks,
                \/ SetTask(t) \/ ClearState(t) \/ HwStartInVain(t) \/ Wait(t) \/ Wake(t)
                \/ \E d \in Devices, r \in Requests : Call(t, d, r)
         PROVE  UNCHANGED Bus!vars
    BY <1>9, <1>10 DEF SetTask, ClearState, HwStartInVain, Wait, Wake, Call
  <1>11. CASE UNCHANGED vars
    BY <1>9, <1>11 DEF vars
  <1>12. \A t \in Tasks : pc[t] # "idle" => dh[t] \in Devices
    BY DEF IInv, Ownership
  <1> QED
    BY <1>1, <1>2, <1>3, <1>4, <1>6, <1>7, <1>8, <1>10, <1>11, <1>12
    DEF Next, Run, Bus!Next, TakeMutex, HwStart, SoftStart, HwReject, SoftEnd, GiveMutex, Goto

(***************************************************************************)
(* The I2C service implements the safety part of SerialBus: a transfer     *)
(* reaches the wire once, for the task that holds the device, and each     *)
(* call is answered with the outcome of its own transfer.                  *)
(***************************************************************************)
THEOREM ServiceIsBus == SafeSpec => StepsOfBus
  BY InvAlways, BusInit, BusStep, PTL DEF SafeSpec, StepsOfBus, Bus!Spec
=============================================================================
