-------------------------- MODULE Application_proofs ------------------------
(***************************************************************************)
(* TLAPS proofs about the modules of an application: the two services that *)
(* share a task's notification, the software timers, the PWM service, the  *)
(* LED sequencer and the accelerometer driver.  Each part has a type       *)
(* invariant, the inductive invariant it belongs to, the steps, and then   *)
(* its theorems; none of them uses another's.                              *)
(***************************************************************************)
EXTENDS NotifyShared, SoftTimers, Mma8451, EfLeds, EfHalPwm,
        TaskNotify_proofs, FiniteSetTheorems

-----------------------------------------------------------------------------
(***************************************************************************)
(* NotifyShared: the I2C transfer and the wait for a pin on the one        *)
(* notification record of a task, for any tasks, any of them with time     *)
(* limits, and any table of slots.                                         *)
(***************************************************************************)

\* The locations at which a task holds the bus, and at which a slot names it.
OnBus   == {"setTask", "clear", "start", "wait", "blocked", "woken", "give"}
Waits   == {"clear", "take", "blocked", "woken"}
InSlot  == Waits \cup {"relId", "relHandle"}
Values  == I2c!Codes \cup {1}

\* The type invariant.
SharedType ==
    /\ bpc \in [Tasks -> {"idle", "take"} \cup OnBus]
    /\ dh \in [Tasks -> {Device, None}] /\ req \in [Tasks -> {"valid", None}]
    /\ bret \in [Tasks -> Values]
    /\ ntf \in [Tasks -> Notification(Values)]
    /\ mutex \in [{Device} -> Tasks \cup {None}]
    /\ taskHadle \in [{Device} -> Tasks \cup {None}]
    /\ wire \in [{Device} -> Tasks \cup {None}]
    /\ outcome \in [{Device} -> I2c!Codes \cup {None}]
    /\ gpc \in [Tasks -> {"idle", "scan", "setId", "setHandle"} \cup InSlot]
    /\ pin \in [Tasks -> {Pin, None}] /\ i \in [Tasks -> Gpio!Slots]
    /\ gret \in [Tasks -> BOOLEAN] /\ seen \in [Tasks -> BOOLEAN]
    /\ taskHandle \in [Gpio!Slots -> Tasks \cup {None}]
    /\ left \in [Tasks -> {"nobody", "transfer", "edge"}]

\* A task is in one call, and waits for the pin in the one and the bus in the other.
OneCall ==
    \A t \in Tasks :
        /\ bpc[t] = "idle" \/ gpc[t] = "idle"
        /\ bpc[t] # "idle" => dh[t] = Device /\ req[t] = "valid"
        /\ gpc[t] # "idle" => pin[t] = Pin

\* A handle in the waiting table is that of a task that waits there, even if
\* claims have raced for the slot.
HandlesWait ==
    \A s \in Gpio!Slots : taskHandle[s] # None =>
        gpc[taskHandle[s]] \in InSlot /\ i[taskHandle[s]] = s

\* Who has the bus, and whose transfer is under way.
BusOwned ==
    /\ \A t \in Tasks : bpc[t] \in OnBus => mutex[Device] = t
    /\ mutex[Device] # None => bpc[mutex[Device]] \in OnBus
    /\ mutex[Device] = None => wire[Device] = None /\ outcome[Device] = None
    /\ \A t \in Tasks : bpc[t] \in OnBus \ {"setTask"} => taskHadle[Device] = t
    /\ wire[Device] # None =>
          /\ mutex[Device] = wire[Device] /\ outcome[Device] = None
          /\ bpc[wire[Device]] \in {"wait", "blocked"}

\* The transfer of t has ended and said so, and that it is still under way.
Ended(t) ==
    /\ outcome[Device] # None /\ wire[Device] = None
    /\ ntf[t].state = Received /\ ntf[t].value = outcome[Device]

UnderWay(t) == outcome[Device] = None /\ wire[Device] = t

\* What the one notification record says at each location of a transfer.
RecordAt(t) ==
    /\ ntf[t].state = Waiting => gpc[t] \in {"blocked", "woken"} \/ bpc[t] = "blocked"
    /\ bpc[t] \in {"setTask", "clear", "start"} => outcome[Device] = None
    /\ bpc[t] = "start" => ntf[t].state = NotWaiting
    /\ bpc[t] = "wait" => Ended(t) \/ (UnderWay(t) /\ ntf[t].state = NotWaiting)
    /\ bpc[t] = "blocked" => UnderWay(t) /\ ntf[t].state = Waiting
    /\ bpc[t] = "woken" => Ended(t)
    /\ bpc[t] = "give" =>
          outcome[Device] # None /\ wire[Device] = None /\ bret[t] = outcome[Device]

\* A value that is not the count of this wait was left by somebody.
LeftAt(t) ==
    ntf[t].value # 0 => left[t] # "nobody" \/ (gpc[t] \in Waits /\ seen[t])

\* The inductive invariant.
SharedInv ==
    /\ SharedType /\ OneCall /\ HandlesWait /\ BusOwned
    /\ \A t \in Tasks : RecordAt(t) /\ LeftAt(t)
-----------------------------------------------------------------------------
\* The values a record can hold.
LEMMA CodeFacts ==
    /\ 0 \in Values /\ 1 \in Values /\ 0 \in I2c!Codes /\ I2c!Codes \subseteq Values
    /\ None \notin I2c!Codes /\ WireCodes \subseteq I2c!Codes
  BY SharedAssumption DEF Values, I2c!Codes, I2c!NO_ERROR, I2c!INVALID_HANDLER,
     I2c!INVALID_PARAMS, I2c!TRANSFER_UNSUPPORTED, I2c!NAK, I2c!UNKNOW

\* The one device is a hardware device, and every request one it accepts.
LEMMA DeviceFacts ==
    /\ I2c!Devices = {Device} /\ I2c!NO_ERROR = 0
    /\ \A r : r = "valid" => I2c!HwCheck(r) = 0
    /\ \A t : req[t] = "valid" => ~I2c!MayHang(t)
  BY DEF I2c!Devices, I2c!HwCheck, I2c!NO_ERROR, I2c!MayHang

\* The kernel's calls, as each of the two services names them.
LEMMA BusNotes ==
  ASSUME NEW n \in Notification(Values)
  PROVE  /\ I2c!StateClear(n) \in Notification(Values) /\ I2c!StateClear(n).value = n.value
         /\ n.state # Waiting => I2c!StateClear(n).state = NotWaiting
         /\ I2c!WaitEnter(n) \in Notification(Values) /\ I2c!WaitEnter(n).value = n.value
         /\ I2c!WaitMustBlock(n) => I2c!WaitEnter(n).state = Waiting
         /\ ~I2c!WaitMustBlock(n) => I2c!WaitEnter(n) = n
         /\ I2c!WaitMustBlock(n) <=> n.state # Received
         /\ I2c!WaitExit(n) \in Notification(Values) /\ I2c!WaitExit(n).value = n.value
         /\ I2c!WaitExit(n).state = NotWaiting
         /\ I2c!WaitResult(n) = n.value
         /\ I2c!Wakes(n) <=> n.state = Waiting
<1>1. /\ I2c!StateClear(n) = StateClear(n) /\ I2c!WaitEnter(n) = WaitEnter(n)
      /\ I2c!WaitExit(n) = WaitExit(n) /\ I2c!WaitResult(n) = WaitResult(n)
      /\ I2c!WaitMustBlock(n) <=> WaitMustBlock(n)
      /\ I2c!Wakes(n) <=> Wakes(n)
  BY DEF I2c!StateClear, I2c!WaitEnter, I2c!WaitExit, I2c!WaitResult, I2c!WaitMustBlock,
     I2c!Wakes, I2c!Received, I2c!Waiting, I2c!NotWaiting,
     StateClear, WaitEnter, WaitExit, WaitResult, WaitMustBlock,
     Wakes, Received, Waiting, NotWaiting
<1> QED
  BY <1>1, ClearFacts, WaitFacts

\* What the calls do to the record at the end of a transfer, and at an edge.
LEMMA EndNotes ==
  ASSUME NEW n \in Notification(Values), NEW v \in Values
  PROVE  /\ I2c!Overwrite(n, v) \in Notification(Values)
         /\ I2c!Overwrite(n, v).state = Received /\ I2c!Overwrite(n, v).value = v
<1>1. I2c!Overwrite(n, v) = Overwrite(n, v)
  BY DEF I2c!Overwrite, I2c!Received, Overwrite, Received
<1> QED
  BY <1>1, OverwriteFacts

LEMMA PinNotes ==
  ASSUME NEW n \in Notification(Values)
  PROVE  /\ Gpio!StateClear(n) \in Notification(Values) /\ Gpio!StateClear(n).value = n.value
         /\ Gpio!StateClear(n).state = Waiting => n.state = Waiting
         /\ Gpio!TakeEnter(n) \in Notification(Values) /\ Gpio!TakeEnter(n).value = n.value
         /\ ~Gpio!TakeMustBlock(n) => Gpio!TakeEnter(n) = n
         /\ Gpio!TakeExit(n) \in Notification(Values) /\ Gpio!TakeExit(n).value = 0
         /\ Gpio!TakeExit(n).state = NotWaiting
         /\ Gpio!TakeResult(n) <=> n.value # 0
         /\ Gpio!Give(n) \in Notification(Values) /\ Gpio!Give(n).state = Received
<1>1. /\ Gpio!StateClear(n) = StateClear(n) /\ Gpio!TakeEnter(n) = TakeEnter(n)
      /\ Gpio!TakeExit(n) = TakeExit(n) /\ Gpio!Give(n) = Give(n)
      /\ Gpio!TakeMustBlock(n) <=> TakeMustBlock(n)
      /\ Gpio!TakeResult(n) <=> n.value # 0
  BY DEF Gpio!StateClear, Gpio!TakeEnter, Gpio!TakeExit, Gpio!Give, Gpio!TakeResult,
     Gpio!TakeMustBlock, Gpio!Received, Gpio!Waiting, Gpio!NotWaiting,
     StateClear, TakeEnter, TakeExit, Give, TakeMustBlock, Received, Waiting, NotWaiting
<1>2. StateClear(n).state = Waiting => n.state = Waiting
  BY ClearFacts, StatesDiffer
<1> QED
  BY <1>1, <1>2, ClearFacts, TakeFacts, GiveFacts, CodeFacts

\* The invariant holds at first.
LEMMA SharedInit == Init => SharedInv
<1> SUFFICES ASSUME Init PROVE SharedInv
  OBVIOUS
<1> USE SharedAssumption DEF Init, I2c!Init, Gpio!Init
<1>1. /\ NotifyInit \in Notification(Values)
      /\ NotifyInit.state = NotWaiting /\ NotifyInit.value = 0
  BY CodeFacts, InitFacts
<1>2. 1 \in Gpio!Slots
  BY DEF Gpio!Slots
<1>3. ntf = [t \in Tasks |-> NotifyInit]
  BY DEF Gpio!NotifyInit, NotifyInit, Gpio!NotWaiting, NotWaiting
<1>4. SharedType
  BY <1>1, <1>2, <1>3, CodeFacts, DeviceFacts DEF SharedType
<1>5. OneCall /\ HandlesWait /\ BusOwned
  BY DeviceFacts DEF OneCall, HandlesWait, BusOwned, OnBus
<1>6. \A t \in Tasks : RecordAt(t) /\ LeftAt(t)
  BY <1>1, <1>3, StatesDiffer DEF RecordAt, LeftAt
<1> QED
  BY <1>4, <1>5, <1>6 DEF SharedInv

\* A task that is not on the bus is not the one the bus would notify.
LEMMA OffBus ==
  ASSUME SharedType, BusOwned, NEW t \in Tasks, NEW u \in Tasks, u # t, bpc[t] \in OnBus
  PROVE  bpc[u] \notin OnBus
  BY SharedAssumption DEF BusOwned, SharedType

LEMMA BusCallStep ==
  ASSUME SharedInv, NEW t \in Tasks, BusCall(t)
  PROVE  SharedInv'
<1> USE SharedAssumption DEF SharedInv
<1>1. /\ bpc[t] = "idle" /\ gpc[t] = "idle" /\ bpc' = [bpc EXCEPT ![t] = "take"]
      /\ dh' = [dh EXCEPT ![t] = Device] /\ req' = [req EXCEPT ![t] = "valid"]
      /\ bret' = bret /\ reply' = reply /\ ntf' = ntf /\ mutex' = mutex
      /\ taskHadle' = taskHadle /\ wire' = wire /\ outcome' = outcome
      /\ gpc' = gpc /\ pin' = pin /\ i' = i /\ gret' = gret /\ taskHandle' = taskHandle
      /\ seen' = seen /\ left' = left
  BY DEF BusCall, I2c!Call, I2c!Goto, gpioVars
<1>2. SharedType'
  BY <1>1 DEF SharedType
<1>3. OneCall'
  BY <1>1 DEF SharedType, OneCall
<1>4. HandlesWait'
  BY <1>1 DEF HandlesWait
<1>5. BusOwned'
  BY <1>1 DEF SharedType, BusOwned, OnBus
<1>6. \A u \in Tasks : RecordAt(u)' /\ LeftAt(u)'
  BY <1>1 DEF SharedType, RecordAt, Ended, UnderWay, LeftAt
<1> QED
  BY <1>2, <1>3, <1>4, <1>5, <1>6

\* Taking the bus.
LEMMA TakeMutexStep ==
  ASSUME SharedInv, NEW t \in Tasks, I2c!TakeMutex(t), UNCHANGED <<gpioVars, left>>
  PROVE  SharedInv'
<1> USE SharedAssumption DEF SharedInv
<1>0. dh[t] = Device
  BY DEF I2c!TakeMutex, I2c!Goto, OneCall
<1>1. /\ bpc[t] = "take" /\ bpc' = [bpc EXCEPT ![t] = "setTask"]
      /\ mutex[Device] = None /\ mutex' = [mutex EXCEPT ![Device] = t]
      /\ dh' = dh /\ req' = req
      /\ bret' = bret /\ reply' = reply /\ ntf' = ntf
      /\ taskHadle' = taskHadle /\ wire' = wire /\ outcome' = outcome
      /\ gpc' = gpc /\ pin' = pin /\ i' = i /\ gret' = gret /\ taskHandle' = taskHandle
      /\ seen' = seen /\ left' = left
  BY <1>0 DEF I2c!TakeMutex, I2c!Goto, gpioVars
<1>2. SharedType'
  BY <1>1 DEF SharedType, OnBus
<1>3. OneCall'
  BY <1>1 DEF SharedType, OneCall
<1>4. HandlesWait'
  BY <1>1 DEF HandlesWait
<1>5. BusOwned'
  BY <1>1 DEF SharedType, BusOwned, OnBus
<1>6. \A u \in Tasks : RecordAt(u)' /\ LeftAt(u)'
  BY <1>1 DEF SharedType, BusOwned, RecordAt, Ended, UnderWay, LeftAt
<1> QED
  BY <1>2, <1>3, <1>4, <1>5, <1>6

LEMMA SetTaskStep ==
  ASSUME SharedInv, NEW t \in Tasks, I2c!SetTask(t), UNCHANGED <<gpioVars, left>>
  PROVE  SharedInv'
<1> USE SharedAssumption DEF SharedInv
<1>0. dh[t] = Device
  BY DEF I2c!SetTask, I2c!Goto, OneCall
<1>1. /\ bpc[t] = "setTask" /\ bpc' = [bpc EXCEPT ![t] = "clear"]
      /\ taskHadle' = [taskHadle EXCEPT ![Device] = t]
      /\ dh' = dh /\ req' = req
      /\ bret' = bret /\ reply' = reply /\ ntf' = ntf
      /\ mutex' = mutex /\ wire' = wire /\ outcome' = outcome
      /\ gpc' = gpc /\ pin' = pin /\ i' = i /\ gret' = gret /\ taskHandle' = taskHandle
      /\ seen' = seen /\ left' = left
  BY <1>0 DEF I2c!SetTask, I2c!Goto, gpioVars
<1>2. SharedType'
  BY <1>1 DEF SharedType, OnBus
<1>3. OneCall'
  BY <1>1 DEF SharedType, OneCall
<1>4. HandlesWait'
  BY <1>1 DEF HandlesWait
<1>5. BusOwned'
  BY <1>1 DEF SharedType, BusOwned, OnBus
<1>6. \A u \in Tasks : RecordAt(u)' /\ LeftAt(u)'
  BY <1>1 DEF SharedType, BusOwned, RecordAt, Ended, UnderWay, LeftAt
<1> QED
  BY <1>2, <1>3, <1>4, <1>5, <1>6

\* The steps of a transfer that touch only the task's own record or the wire.
LEMMA BusClearStep ==
  ASSUME SharedInv, NEW t \in Tasks, I2c!ClearState(t), UNCHANGED <<gpioVars, left>>
  PROVE  SharedInv'
<1> USE SharedAssumption DEF SharedInv
<1>0. dh[t] = Device /\ taskHadle[Device] = t
  BY DEF I2c!ClearState, I2c!Goto, OneCall, BusOwned, OnBus
<1>1. /\ bpc[t] = "clear" /\ bpc' = [bpc EXCEPT ![t] = "start"]
      /\ ntf' = [ntf EXCEPT ![t] = I2c!StateClear(@)]
      /\ dh' = dh /\ req' = req /\ bret' = bret /\ reply' = reply
      /\ taskHadle' = taskHadle /\ mutex' = mutex /\ wire' = wire /\ outcome' = outcome
      /\ gpc' = gpc /\ pin' = pin /\ i' = i /\ gret' = gret /\ taskHandle' = taskHandle
      /\ seen' = seen /\ left' = left
  BY <1>0 DEF I2c!ClearState, I2c!Goto, gpioVars
<1>2. /\ I2c!StateClear(ntf[t]) \in Notification(Values)
      /\ I2c!StateClear(ntf[t]).value = ntf[t].value
      /\ ntf[t].state # Waiting => I2c!StateClear(ntf[t]).state = NotWaiting
  BY BusNotes DEF SharedType
<1>3. ntf[t].state # Waiting
  BY <1>1 DEF OneCall, RecordAt
<1>4. SharedType'
  BY <1>1, <1>2 DEF SharedType, OnBus
<1>5. OneCall'
  BY <1>1 DEF SharedType, OneCall
<1>6. HandlesWait'
  BY <1>1 DEF HandlesWait
<1>7. BusOwned'
  BY <1>1 DEF SharedType, BusOwned, OnBus
<1>8. \A u \in Tasks : RecordAt(u)' /\ LeftAt(u)'
  BY <1>1, <1>2, <1>3, StatesDiffer DEF SharedType, BusOwned, RecordAt, Ended, UnderWay, LeftAt
<1> QED
  BY <1>4, <1>5, <1>6, <1>7, <1>8

LEMMA HwStartStep ==
  ASSUME SharedInv, NEW t \in Tasks, I2c!HwStart(t), UNCHANGED <<gpioVars, left>>
  PROVE  SharedInv'
<1> USE SharedAssumption DEF SharedInv
<1>0. dh[t] = Device
  BY DEF I2c!HwStart, I2c!Goto, OneCall
<1>1. /\ bpc[t] = "start" /\ bpc' = [bpc EXCEPT ![t] = "wait"]
      /\ bret' = [bret EXCEPT ![t] = 0] /\ wire' = [wire EXCEPT ![Device] = t]
      /\ ntf' = ntf
      /\ dh' = dh /\ req' = req /\ reply' = reply
      /\ taskHadle' = taskHadle /\ mutex' = mutex /\ outcome' = outcome
      /\ gpc' = gpc /\ pin' = pin /\ i' = i /\ gret' = gret /\ taskHandle' = taskHandle
      /\ seen' = seen /\ left' = left
  BY <1>0 DEF I2c!HwStart, I2c!Goto, I2c!NO_ERROR, gpioVars
<1>2. SharedType'
  BY <1>1, CodeFacts DEF SharedType, OnBus
<1>3. OneCall'
  BY <1>1 DEF SharedType, OneCall
<1>4. HandlesWait'
  BY <1>1 DEF HandlesWait
<1>5. BusOwned'
  BY <1>1, OffBus DEF SharedType, BusOwned, OnBus, RecordAt
<1>6. \A u \in Tasks : RecordAt(u)' /\ LeftAt(u)'
  BY <1>1, OffBus DEF SharedType, BusOwned, OnBus, RecordAt, Ended, UnderWay, LeftAt
<1> QED
  BY <1>2, <1>3, <1>4, <1>5, <1>6

LEMMA BusWaitStep ==
  ASSUME SharedInv, NEW t \in Tasks, I2c!Wait(t), UNCHANGED <<gpioVars, left>>
  PROVE  SharedInv'
<1> USE SharedAssumption DEF SharedInv
<1>1. /\ bpc[t] = "wait"
      /\ bpc' = [bpc EXCEPT ![t] = IF I2c!WaitMustBlock(ntf[t]) THEN "blocked" ELSE "woken"]
      /\ ntf' = [ntf EXCEPT ![t] = I2c!WaitEnter(@)]
      /\ dh' = dh /\ req' = req /\ bret' = bret /\ reply' = reply
      /\ taskHadle' = taskHadle /\ mutex' = mutex /\ wire' = wire /\ outcome' = outcome
      /\ gpc' = gpc /\ pin' = pin /\ i' = i /\ gret' = gret /\ taskHandle' = taskHandle
      /\ seen' = seen /\ left' = left
  BY DEF I2c!Wait, I2c!Goto, gpioVars
<1>2. /\ I2c!WaitEnter(ntf[t]) \in Notification(Values)
      /\ I2c!WaitEnter(ntf[t]).value = ntf[t].value
      /\ I2c!WaitMustBlock(ntf[t]) => I2c!WaitEnter(ntf[t]).state = Waiting
      /\ ~I2c!WaitMustBlock(ntf[t]) => I2c!WaitEnter(ntf[t]) = ntf[t]
      /\ I2c!WaitMustBlock(ntf[t]) <=> ntf[t].state # Received
  BY BusNotes DEF SharedType
<1>3. CASE ntf[t].state = Received
  <2>1. bpc' = [bpc EXCEPT ![t] = "woken"] /\ ntf' = ntf
    BY <1>1, <1>2, <1>3 DEF SharedType
  <2>2. Ended(t)
    BY <1>1, <1>3, StatesDiffer DEF RecordAt
  <2>3. SharedType' /\ OneCall' /\ HandlesWait' /\ BusOwned'
    BY <1>1, <2>1, <2>2 DEF SharedType, OneCall, HandlesWait, BusOwned, OnBus, Ended
  <2>4. \A u \in Tasks : RecordAt(u)' /\ LeftAt(u)'
    BY <1>1, <2>1, <2>2 DEF SharedType, RecordAt, Ended, UnderWay, LeftAt
  <2> QED
    BY <2>3, <2>4
<1>4. CASE ntf[t].state # Received
  <2>1. /\ bpc' = [bpc EXCEPT ![t] = "blocked"] /\ ntf'[t].state = Waiting
        /\ ntf'[t].value = ntf[t].value
        /\ \A u \in Tasks : u # t => ntf'[u] = ntf[u]
        /\ ntf' \in [Tasks -> Notification(Values)]
    BY <1>1, <1>2, <1>4 DEF SharedType
  <2>2. UnderWay(t)
    BY <1>1, <1>4 DEF RecordAt, Ended
  <2>3. SharedType' /\ OneCall' /\ HandlesWait'
    BY <1>1, <2>1 DEF SharedType, OneCall, HandlesWait, OnBus
  <2>4. BusOwned'
    BY <1>1, <2>1, <2>2 DEF SharedType, BusOwned, OnBus, UnderWay
  <2>5. \A u \in Tasks : RecordAt(u)' /\ LeftAt(u)'
    BY <1>1, <2>1, <2>2 DEF SharedType, RecordAt, Ended, UnderWay, LeftAt
  <2> QED
    BY <2>3, <2>4, <2>5
<1> QED
  BY <1>3, <1>4

LEMMA BusWakeStep ==
  ASSUME SharedInv, NEW t \in Tasks, I2c!Wake(t), UNCHANGED <<gpioVars, left>>
  PROVE  SharedInv'
<1> USE SharedAssumption DEF SharedInv
<1>1. /\ bpc[t] = "woken" /\ bpc' = [bpc EXCEPT ![t] = "give"]
      /\ bret' = [bret EXCEPT ![t] = I2c!WaitResult(ntf[t])]
      /\ ntf' = [ntf EXCEPT ![t] = I2c!WaitExit(@)]
      /\ dh' = dh /\ req' = req /\ reply' = reply
      /\ taskHadle' = taskHadle /\ mutex' = mutex /\ wire' = wire /\ outcome' = outcome
      /\ gpc' = gpc /\ pin' = pin /\ i' = i /\ gret' = gret /\ taskHandle' = taskHandle
      /\ seen' = seen /\ left' = left
  BY DEF I2c!Wake, I2c!Goto, gpioVars
<1>2. /\ I2c!WaitExit(ntf[t]) \in Notification(Values)
      /\ I2c!WaitExit(ntf[t]).value = ntf[t].value
      /\ I2c!WaitExit(ntf[t]).state = NotWaiting
      /\ I2c!WaitResult(ntf[t]) = ntf[t].value
  BY BusNotes DEF SharedType
<1>3. Ended(t)
  BY <1>1 DEF RecordAt
<1>4. ntf[t].value \in Values
  BY DEF SharedType, Notification
<1>5. SharedType'
  BY <1>1, <1>2, <1>4 DEF SharedType, OnBus
<1>6. OneCall'
  BY <1>1 DEF SharedType, OneCall
<1>7. HandlesWait'
  BY <1>1 DEF HandlesWait
<1>8. BusOwned'
  BY <1>1, <1>3 DEF SharedType, BusOwned, OnBus, Ended
<1>9. \A u \in Tasks : RecordAt(u)' /\ LeftAt(u)'
  BY <1>1, <1>2, <1>3, StatesDiffer DEF SharedType, RecordAt, Ended, UnderWay, LeftAt
<1> QED
  BY <1>5, <1>6, <1>7, <1>8, <1>9

LEMMA GiveMutexStep ==
  ASSUME SharedInv, NEW t \in Tasks, I2c!GiveMutex(t), UNCHANGED <<gpioVars, left>>
  PROVE  SharedInv'
<1> USE SharedAssumption DEF SharedInv
<1>0. dh[t] = Device
  BY DEF I2c!GiveMutex, I2c!Goto, OneCall
<1>1. /\ bpc[t] = "give" /\ bpc' = [bpc EXCEPT ![t] = "idle"]
      /\ mutex' = [mutex EXCEPT ![Device] = None]
      /\ outcome' = [outcome EXCEPT ![Device] = None]
      /\ dh' = [dh EXCEPT ![t] = None] /\ req' = [req EXCEPT ![t] = None]
      /\ bret' = [bret EXCEPT ![t] = 0]
      /\ ntf' = ntf /\ taskHadle' = taskHadle /\ wire' = wire
      /\ gpc' = gpc /\ pin' = pin /\ i' = i /\ gret' = gret /\ taskHandle' = taskHandle
      /\ seen' = seen /\ left' = left
  BY <1>0 DEF I2c!GiveMutex, I2c!Goto, I2c!NO_ERROR, gpioVars
<1>2. SharedType'
  BY <1>1, CodeFacts DEF SharedType
<1>3. OneCall'
  BY <1>1 DEF SharedType, OneCall
<1>4. HandlesWait'
  BY <1>1 DEF HandlesWait
<1>5. BusOwned'
  BY <1>1, OffBus DEF SharedType, BusOwned, OnBus, RecordAt
<1>6. \A u \in Tasks : RecordAt(u)' /\ LeftAt(u)'
  BY <1>1, OffBus DEF SharedType, OnBus, RecordAt, Ended, UnderWay, LeftAt
<1> QED
  BY <1>2, <1>3, <1>4, <1>5, <1>6

LEMMA BusRunStep ==
  ASSUME SharedInv, NEW t \in Tasks, BusRun(t)
  PROVE  SharedInv'
<1>1. bpc[t] # "idle" => req[t] = "valid" /\ dh[t] = Device
  BY DEF SharedInv, OneCall
<1>2. ~I2c!HwReject(t) /\ ~I2c!HwStartInVain(t) /\ ~I2c!SoftStart(t)
  BY <1>1, DeviceFacts DEF I2c!HwReject, I2c!HwStartInVain, I2c!SoftStart, I2c!Goto
<1>3. ~I2c!SoftEnd(t)
  BY DEF I2c!SoftEnd, SharedInv, SharedType, OnBus
<1>4. /\ UNCHANGED <<gpioVars, left>>
      /\ \/ I2c!TakeMutex(t) \/ I2c!SetTask(t) \/ I2c!ClearState(t) \/ I2c!HwStart(t)
         \/ I2c!Wait(t) \/ I2c!Wake(t) \/ I2c!GiveMutex(t)
  BY <1>2, <1>3 DEF BusRun, I2c!Run
<1> QED
  BY <1>4, TakeMutexStep, SetTaskStep, BusClearStep, HwStartStep, BusWaitStep, BusWakeStep,
     GiveMutexStep

\* The end of a transfer notifies the task that holds the bus.
LEMMA BusInterruptStep ==
  ASSUME SharedInv, BusInterrupt
  PROVE  SharedInv'
<1> USE SharedAssumption DEF SharedInv
<1> DEFINE t == wire[Device]
<1>1. t \in Tasks /\ mutex[Device] = t /\ taskHadle[Device] = t /\ bpc[t] \in {"wait", "blocked"}
  BY DEF BusInterrupt, I2c!Interrupt, SharedType, BusOwned, OnBus
<1>2. UnderWay(t) /\ ntf[t].state # Received
  BY <1>1, StatesDiffer DEF RecordAt, Ended, UnderWay
<1>3. PICK ec \in I2c!Codes :
         /\ outcome' = [outcome EXCEPT ![Device] = ec]
         /\ I2c!EndOfTransfer(Device, ec, bpc)
  BY CodeFacts DEF BusInterrupt, I2c!Interrupt
<1>4. /\ wire' = [wire EXCEPT ![Device] = None]
      /\ dh' = dh /\ req' = req /\ bret' = bret
      /\ taskHadle' = taskHadle /\ mutex' = mutex
      /\ gpc' = gpc /\ pin' = pin /\ i' = i /\ gret' = gret /\ taskHandle' = taskHandle
      /\ seen' = seen
      /\ left' = [left EXCEPT ![t] = IF ec = 0 THEN "nobody" ELSE "transfer"]
  BY <1>1, <1>3 DEF BusInterrupt, I2c!Interrupt, gpioVars, SharedType
<1>5. /\ ntf' = [ntf EXCEPT ![t] = I2c!Overwrite(@, ec)]
      /\ bpc' = IF I2c!Wakes(ntf[t]) THEN [bpc EXCEPT ![t] = "woken"] ELSE bpc
  BY <1>1, <1>3 DEF I2c!EndOfTransfer
<1>6. /\ I2c!Overwrite(ntf[t], ec) \in Notification(Values)
      /\ I2c!Overwrite(ntf[t], ec).state = Received /\ I2c!Overwrite(ntf[t], ec).value = ec
      /\ I2c!Wakes(ntf[t]) <=> ntf[t].state = Waiting
  <2>1. ntf[t] \in Notification(Values) /\ ec \in Values
    BY <1>1, CodeFacts DEF SharedType
  <2> QED
    BY <2>1, EndNotes, BusNotes
<1>7. bpc' = [bpc EXCEPT ![t] = IF bpc[t] = "blocked" THEN "woken" ELSE "wait"]
  <2>1. bpc[t] = "blocked" <=> ntf[t].state = Waiting
    BY <1>1, StatesDiffer DEF RecordAt, Ended
  <2> QED
    BY <1>1, <1>5, <1>6, <2>1 DEF SharedType
<1> HIDE DEF t
<1>8. /\ ntf' \in [Tasks -> Notification(Values)]
      /\ ntf'[t].state = Received /\ ntf'[t].value = ec
      /\ \A u \in Tasks : u # t => ntf'[u] = ntf[u]
  BY <1>1, <1>5, <1>6 DEF SharedType
<1>9. outcome'[Device] = ec /\ wire'[Device] = None /\ ec # None
  BY <1>3, <1>4, CodeFacts DEF SharedType
<1>10. SharedType'
  BY <1>1, <1>3, <1>4, <1>7, <1>8, CodeFacts DEF SharedType, OnBus
<1>11. OneCall'
  BY <1>1, <1>4, <1>7 DEF SharedType, OneCall
<1>12. HandlesWait'
  BY <1>4 DEF HandlesWait
<1>13. BusOwned'
  BY <1>1, <1>4, <1>7, <1>9 DEF SharedType, BusOwned, OnBus
<1>14. \A u \in Tasks : RecordAt(u)' /\ LeftAt(u)'
  <2> SUFFICES ASSUME NEW u \in Tasks PROVE RecordAt(u)' /\ LeftAt(u)'
    OBVIOUS
  <2>1. CASE u = t
    <3>1. RecordAt(u)'
      BY <1>1, <1>7, <1>8, <1>9, <2>1, StatesDiffer DEF SharedType, RecordAt, Ended
    <3>2. LeftAt(u)'
      BY <1>1, <1>4, <1>8, <2>1 DEF SharedType, LeftAt
    <3> QED
      BY <3>1, <3>2
  <2>2. CASE u # t
    <3>1. bpc[u] \notin OnBus /\ bpc'[u] = bpc[u] /\ ntf'[u] = ntf[u] /\ left'[u] = left[u]
      BY <1>1, <1>4, <1>7, <1>8, <2>2, OffBus DEF SharedType, OnBus
    <3> QED
      BY <1>4, <3>1 DEF RecordAt, LeftAt, OnBus
  <2> QED
    BY <2>1, <2>2
<1> QED
  BY <1>10, <1>11, <1>12, <1>13, <1>14

(***************************************************************************)
(* The steps of a wait for the pin, on a task that is off the bus: what    *)
(* they may do to the shared part.                                         *)
(***************************************************************************)
OffBusStep(t) ==
    /\ UNCHANGED busVars
    /\ bpc[t] = "idle"
    /\ gpc' \in [Tasks -> {"idle", "scan", "setId", "setHandle"} \cup InSlot]
    /\ pin' \in [Tasks -> {Pin, None}] /\ i' \in [Tasks -> Gpio!Slots]
    /\ gret' \in [Tasks -> BOOLEAN] /\ seen' \in [Tasks -> BOOLEAN]
    /\ left' \in [Tasks -> {"nobody", "transfer", "edge"}]
    /\ taskHandle' \in [Gpio!Slots -> Tasks \cup {None}]
    /\ ntf' \in [Tasks -> Notification(Values)]
    /\ \A u \in Tasks : u # t =>
          /\ gpc'[u] = gpc[u] /\ i'[u] = i[u] /\ pin'[u] = pin[u]
          /\ seen'[u] = seen[u] /\ left'[u] = left[u]
    /\ gpc'[t] # "idle" => pin'[t] = Pin
    \* Only the records of tasks that wait for the pin.
    /\ \A u \in Tasks : bpc[u] # "idle" => ntf'[u] = ntf[u]
    /\ \A u \in Tasks : ntf'[u].state = Waiting => gpc'[u] \in {"blocked", "woken"}
                                                \/ bpc[u] = "blocked"

LEMMA OffBusKeeps ==
  ASSUME SharedInv, NEW t \in Tasks, OffBusStep(t)
  PROVE  SharedType' /\ OneCall' /\ BusOwned' /\ \A u \in Tasks : RecordAt(u)'
<1> USE SharedAssumption DEF SharedInv
<1>1. /\ bpc' = bpc /\ dh' = dh /\ req' = req /\ bret' = bret /\ mutex' = mutex
      /\ taskHadle' = taskHadle /\ wire' = wire /\ outcome' = outcome
  BY DEF OffBusStep, busVars
<1>2. bpc[t] = "idle"
  BY DEF OffBusStep
<1>3. SharedType'
  BY <1>1 DEF SharedType, OffBusStep
<1>4. OneCall'
  BY <1>1, <1>2 DEF OneCall, OffBusStep
<1>5. BusOwned'
  BY <1>1 DEF BusOwned
<1>6. \A u \in Tasks : RecordAt(u)'
  <2> SUFFICES ASSUME NEW u \in Tasks PROVE RecordAt(u)'
    OBVIOUS
  <2>1. CASE bpc[u] = "idle"
    BY <1>1, <2>1 DEF OffBusStep, RecordAt
  <2>2. CASE bpc[u] # "idle"
    BY <1>1, <2>2 DEF OffBusStep, RecordAt, Ended, UnderWay
  <2> QED
    BY <2>1, <2>2
<1> QED
  BY <1>3, <1>4, <1>5, <1>6

\* The steps of a wait for the pin, one after the other.
LEMMA WaitCallStep ==
  ASSUME SharedInv, NEW t \in Tasks, WaitCall(t)
  PROVE  SharedInv'
<1> USE SharedAssumption DEF SharedInv
<1>1. /\ gpc[t] = "idle" /\ UNCHANGED busVars
      /\ bpc[t] = "idle" /\ gpc' = [gpc EXCEPT ![t] = "scan"]
      /\ pin' = [pin EXCEPT ![t] = Pin]
      /\ i' = i /\ gret' = gret /\ ntf' = ntf /\ taskHandle' = taskHandle /\ seen' = seen /\ left' = left
  BY DEF WaitCall, Gpio!Call, Gpio!Goto, Gpio!slotVars
<1>2. bpc[t] = "idle"
  BY <1>1
<1>3. OffBusStep(t)
  BY <1>1, <1>2 DEF OffBusStep, SharedType, InSlot, Waits, OneCall, RecordAt
<1>4. SharedType' /\ OneCall' /\ BusOwned' /\ \A u \in Tasks : RecordAt(u)'
  BY <1>3, OffBusKeeps
<1>5. HandlesWait'
  BY <1>1 DEF HandlesWait, SharedType, InSlot, Waits
<1>6. \A u \in Tasks : LeftAt(u)'
  BY <1>1 DEF SharedType, LeftAt, Waits
<1> QED
  BY <1>4, <1>5, <1>6

\* The steps of waitForInt.
LEMMA ScanStep ==
  ASSUME SharedInv, NEW t \in Tasks, Gpio!Scan(t), UNCHANGED <<busVars, left>>
  PROVE  SharedInv'
<1> USE SharedAssumption DEF SharedInv
<1>1. /\ gpc[t] = "scan" /\ UNCHANGED busVars
      /\ gret' = gret /\ ntf' = ntf /\ taskHandle' = taskHandle /\ seen' = seen /\ left' = left
      /\ \/ gpc' = [gpc EXCEPT ![t] = "setId"] /\ pin' = pin /\ i' = i
         \/ i[t] # NSlots /\ i' = [i EXCEPT ![t] = @ + 1] /\ gpc' = gpc /\ pin' = pin
         \/ /\ gpc' = [gpc EXCEPT ![t] = "idle"] /\ i' = [i EXCEPT ![t] = 1]
            /\ pin' = [pin EXCEPT ![t] = None]
  BY DEF Gpio!Scan, Gpio!slotVars, Gpio!histVars, SharedType, Gpio!Slots
<1>2. bpc[t] = "idle" /\ pin[t] = Pin
  BY <1>1 DEF OneCall
<1>3. i' \in [Tasks -> Gpio!Slots]
  <2>1. 1 \in Gpio!Slots /\ (i[t] # NSlots => i[t] + 1 \in Gpio!Slots)
    BY DEF SharedType, Gpio!Slots
  <2> QED
    BY <1>1, <2>1 DEF SharedType
<1>4. OffBusStep(t)
  BY <1>1, <1>2, <1>3 DEF OffBusStep, SharedType, InSlot, Waits, RecordAt
<1>5. SharedType' /\ OneCall' /\ BusOwned' /\ \A u \in Tasks : RecordAt(u)'
  BY <1>4, OffBusKeeps
<1>6. HandlesWait'
  <2>1. \A s \in Gpio!Slots : taskHandle[s] # t
    BY <1>1 DEF HandlesWait, InSlot, Waits
  <2> QED
    BY <1>4, <1>1, <2>1 DEF OffBusStep, HandlesWait, SharedType
<1>7. \A u \in Tasks : LeftAt(u)'
  BY <1>1 DEF SharedType, LeftAt, Waits
<1> QED
  BY <1>5, <1>6, <1>7

LEMMA SetIdStep ==
  ASSUME SharedInv, NEW t \in Tasks, Gpio!SetId(t), UNCHANGED <<busVars, left>>
  PROVE  SharedInv'
<1> USE SharedAssumption DEF SharedInv
<1>1. /\ gpc[t] = "setId" /\ UNCHANGED busVars
      /\ gpc' = [gpc EXCEPT ![t] = "setHandle"]
      /\ pin' = pin /\ i' = i /\ gret' = gret /\ ntf' = ntf /\ taskHandle' = taskHandle /\ seen' = seen /\ left' = left
  BY DEF Gpio!SetId, Gpio!Goto, Gpio!histVars
<1>2. bpc[t] = "idle" /\ (gpc[t] # "idle" => pin[t] = Pin)
  BY <1>1 DEF OneCall
<1>3. OffBusStep(t)
  BY <1>1, <1>2 DEF OffBusStep, SharedType, InSlot, Waits, OneCall, RecordAt
<1>4. SharedType' /\ OneCall' /\ BusOwned' /\ \A u \in Tasks : RecordAt(u)'
  BY <1>3, OffBusKeeps
<1>5. HandlesWait'
  BY <1>1 DEF HandlesWait, SharedType, InSlot, Waits
<1>6. \A u \in Tasks : LeftAt(u)'
  BY <1>1 DEF SharedType, LeftAt, Waits
<1> QED
  BY <1>4, <1>5, <1>6

LEMMA SetHandleStep ==
  ASSUME SharedInv, NEW t \in Tasks, Gpio!SetHandle(t), UNCHANGED <<busVars, left>>
  PROVE  SharedInv'
<1> USE SharedAssumption DEF SharedInv
<1>1. /\ gpc[t] = "setHandle" /\ UNCHANGED busVars
      /\ gpc' = [gpc EXCEPT ![t] = "clear"]
      /\ taskHandle' = [taskHandle EXCEPT ![i[t]] = t]
      /\ seen' = [seen EXCEPT ![t] = FALSE]
      /\ pin' = pin /\ i' = i /\ gret' = gret /\ ntf' = ntf /\ left' = left
  BY DEF Gpio!SetHandle, Gpio!Goto
<1>2. bpc[t] = "idle" /\ (gpc[t] # "idle" => pin[t] = Pin)
  BY <1>1 DEF OneCall
<1>3. OffBusStep(t)
  BY <1>1, <1>2 DEF OffBusStep, SharedType, InSlot, Waits, OneCall, RecordAt
<1>4. SharedType' /\ OneCall' /\ BusOwned' /\ \A u \in Tasks : RecordAt(u)'
  BY <1>3, OffBusKeeps
<1>5. HandlesWait'
  BY <1>1 DEF HandlesWait, SharedType, InSlot, Waits
<1>6. \A u \in Tasks : LeftAt(u)'
  BY <1>1 DEF SharedType, LeftAt, Waits
<1> QED
  BY <1>4, <1>5, <1>6

\* The state that is cleared is that of a task that waits for the pin, too.
LEMMA PinClearStep ==
  ASSUME SharedInv, NEW t \in Tasks, Gpio!ClearState(t), UNCHANGED <<busVars, left>>
  PROVE  SharedInv'
<1> USE SharedAssumption DEF SharedInv
<1>1. /\ gpc[t] = "clear" /\ UNCHANGED busVars
      /\ gpc' = [gpc EXCEPT ![t] = "take"]
      /\ pin' = pin /\ i' = i /\ gret' = gret /\ taskHandle' = taskHandle /\ seen' = seen /\ left' = left
  BY DEF Gpio!ClearState, Gpio!Goto, Gpio!slotVars, Gpio!histVars
<1>2. bpc[t] = "idle" /\ (gpc[t] # "idle" => pin[t] = Pin)
  BY <1>1 DEF OneCall
<1> DEFINE h == IF taskHandle[i[t]] = None THEN t ELSE taskHandle[i[t]]
<1>3. h \in Tasks /\ bpc[h] = "idle"
  BY <1>1, <1>2 DEF SharedType, HandlesWait, OneCall, InSlot, Waits
<1>4. /\ Gpio!StateClear(ntf[h]) \in Notification(Values)
      /\ Gpio!StateClear(ntf[h]).value = ntf[h].value
      /\ Gpio!StateClear(ntf[h]).state = Waiting => ntf[h].state = Waiting
  BY <1>3, PinNotes DEF SharedType
<1>5. ntf' = [ntf EXCEPT ![h] = Gpio!StateClear(@)]
  BY DEF Gpio!ClearState
<1> HIDE DEF h
<1>6. /\ ntf' \in [Tasks -> Notification(Values)]
      /\ \A u \in Tasks : ntf'[u].value = ntf[u].value
      /\ \A u \in Tasks : ntf'[u].state = Waiting => ntf[u].state = Waiting
      /\ \A u \in Tasks : bpc[u] # "idle" => ntf'[u] = ntf[u]
  BY <1>3, <1>4, <1>5 DEF SharedType
<1>7. OffBusStep(t)
  BY <1>1, <1>2, <1>6 DEF OffBusStep, SharedType, InSlot, Waits, OneCall, RecordAt
<1>8. SharedType' /\ OneCall' /\ BusOwned' /\ \A u \in Tasks : RecordAt(u)'
  BY <1>7, OffBusKeeps
<1>9. HandlesWait'
  BY <1>1 DEF HandlesWait, SharedType, InSlot, Waits
<1>10. \A u \in Tasks : LeftAt(u)'
  BY <1>1, <1>6 DEF SharedType, LeftAt, Waits
<1> QED
  BY <1>8, <1>9, <1>10

LEMMA TakeStep ==
  ASSUME SharedInv, NEW t \in Tasks, Gpio!Take(t), UNCHANGED <<busVars, left>>
  PROVE  SharedInv'
<1> USE SharedAssumption DEF SharedInv
<1>1. /\ gpc[t] = "take" /\ UNCHANGED busVars
      /\ gpc' = [gpc EXCEPT ![t] = IF Gpio!TakeMustBlock(ntf[t]) THEN "blocked" ELSE "woken"]
      /\ ntf' = [ntf EXCEPT ![t] = Gpio!TakeEnter(@)]
      /\ pin' = pin /\ i' = i /\ gret' = gret /\ taskHandle' = taskHandle /\ seen' = seen /\ left' = left
  BY DEF Gpio!Take, Gpio!Goto, Gpio!slotVars, Gpio!histVars
<1>2. bpc[t] = "idle" /\ (gpc[t] # "idle" => pin[t] = Pin)
  BY <1>1 DEF OneCall
<1>3. /\ Gpio!TakeEnter(ntf[t]) \in Notification(Values)
      /\ Gpio!TakeEnter(ntf[t]).value = ntf[t].value
  BY PinNotes DEF SharedType
<1>4. /\ ntf' \in [Tasks -> Notification(Values)] /\ gpc'[t] \in {"blocked", "woken"}
      /\ ntf'[t].value = ntf[t].value
  BY <1>1, <1>3 DEF SharedType
<1>5. OffBusStep(t)
  BY <1>1, <1>2, <1>4 DEF OffBusStep, SharedType, InSlot, Waits, OneCall, RecordAt
<1>6. SharedType' /\ OneCall' /\ BusOwned' /\ \A u \in Tasks : RecordAt(u)'
  BY <1>5, OffBusKeeps
<1>7. HandlesWait'
  BY <1>1 DEF HandlesWait, SharedType, InSlot, Waits
<1>8. \A u \in Tasks : LeftAt(u)'
  BY <1>1, <1>4 DEF SharedType, LeftAt, Waits
<1> QED
  BY <1>6, <1>7, <1>8

LEMMA TimeoutStep ==
  ASSUME SharedInv, NEW t \in Tasks, Gpio!Timeout(t), UNCHANGED <<busVars, left>>
  PROVE  SharedInv'
<1> USE SharedAssumption DEF SharedInv
<1>1. /\ gpc[t] = "blocked" /\ UNCHANGED busVars
      /\ gpc' = [gpc EXCEPT ![t] = "woken"]
      /\ pin' = pin /\ i' = i /\ gret' = gret /\ ntf' = ntf /\ taskHandle' = taskHandle /\ seen' = seen /\ left' = left
  BY DEF Gpio!Timeout, Gpio!Goto, Gpio!slotVars, Gpio!histVars
<1>2. bpc[t] = "idle" /\ (gpc[t] # "idle" => pin[t] = Pin)
  BY <1>1 DEF OneCall
<1>3. OffBusStep(t)
  BY <1>1, <1>2 DEF OffBusStep, SharedType, InSlot, Waits, OneCall, RecordAt
<1>4. SharedType' /\ OneCall' /\ BusOwned' /\ \A u \in Tasks : RecordAt(u)'
  BY <1>3, OffBusKeeps
<1>5. HandlesWait'
  BY <1>1 DEF HandlesWait, SharedType, InSlot, Waits
<1>6. \A u \in Tasks : LeftAt(u)'
  BY <1>1 DEF SharedType, LeftAt, Waits
<1> QED
  BY <1>4, <1>5, <1>6

\* The end of the wait takes the count, whoever left it.
LEMMA WaitWakeStep ==
  ASSUME SharedInv, NEW t \in Tasks, WaitWake(t)
  PROVE  SharedInv'
<1> USE SharedAssumption DEF SharedInv
<1>1. /\ gpc[t] = "woken" /\ UNCHANGED busVars
      /\ gpc' = [gpc EXCEPT ![t] = "relId"]
      /\ gret' = [gret EXCEPT ![t] = Gpio!TakeResult(ntf[t])]
      /\ ntf' = [ntf EXCEPT ![t] = Gpio!TakeExit(@)]
      /\ left' = [left EXCEPT ![t] = "nobody"]
      /\ pin' = pin /\ i' = i /\ taskHandle' = taskHandle /\ seen' = seen
  BY DEF WaitWake, Gpio!Wake, Gpio!Goto, Gpio!slotVars, Gpio!histVars
<1>2. bpc[t] = "idle" /\ (gpc[t] # "idle" => pin[t] = Pin)
  BY <1>1 DEF OneCall
<1>3. /\ Gpio!TakeExit(ntf[t]) \in Notification(Values)
      /\ Gpio!TakeExit(ntf[t]).value = 0 /\ Gpio!TakeExit(ntf[t]).state = NotWaiting
      /\ Gpio!TakeResult(ntf[t]) \in BOOLEAN
  BY PinNotes DEF SharedType, Gpio!TakeResult
<1>4. /\ ntf' \in [Tasks -> Notification(Values)] /\ gret' \in [Tasks -> BOOLEAN]
      /\ ntf'[t].value = 0 /\ ntf'[t].state # Waiting
  BY <1>1, <1>3, StatesDiffer DEF SharedType
<1>5. OffBusStep(t)
  BY <1>1, <1>2, <1>4 DEF OffBusStep, SharedType, InSlot, Waits, OneCall, RecordAt
<1>6. SharedType' /\ OneCall' /\ BusOwned' /\ \A u \in Tasks : RecordAt(u)'
  BY <1>5, OffBusKeeps
<1>7. HandlesWait'
  BY <1>1 DEF HandlesWait, SharedType, InSlot, Waits
<1>8. \A u \in Tasks : LeftAt(u)'
  BY <1>1, <1>4 DEF SharedType, LeftAt, Waits
<1> QED
  BY <1>6, <1>7, <1>8

LEMMA ReleaseIdStep ==
  ASSUME SharedInv, NEW t \in Tasks, Gpio!ReleaseId(t), UNCHANGED <<busVars, left>>
  PROVE  SharedInv'
<1> USE SharedAssumption DEF SharedInv
<1>1. /\ gpc[t] = "relId" /\ UNCHANGED busVars
      /\ gpc' = [gpc EXCEPT ![t] = "relHandle"]
      /\ pin' = pin /\ i' = i /\ gret' = gret /\ ntf' = ntf /\ taskHandle' = taskHandle /\ seen' = seen /\ left' = left
  BY DEF Gpio!ReleaseId, Gpio!Goto, Gpio!histVars
<1>2. bpc[t] = "idle" /\ (gpc[t] # "idle" => pin[t] = Pin)
  BY <1>1 DEF OneCall
<1>3. OffBusStep(t)
  BY <1>1, <1>2 DEF OffBusStep, SharedType, InSlot, Waits, OneCall, RecordAt
<1>4. SharedType' /\ OneCall' /\ BusOwned' /\ \A u \in Tasks : RecordAt(u)'
  BY <1>3, OffBusKeeps
<1>5. HandlesWait'
  BY <1>1 DEF HandlesWait, SharedType, InSlot, Waits
<1>6. \A u \in Tasks : LeftAt(u)'
  BY <1>1 DEF SharedType, LeftAt, Waits
<1> QED
  BY <1>4, <1>5, <1>6

\* The slot a task gives back is the only one that can name it.
LEMMA ReleaseHandleStep ==
  ASSUME SharedInv, NEW t \in Tasks, Gpio!ReleaseHandle(t), UNCHANGED <<busVars, left>>
  PROVE  SharedInv'
<1> USE SharedAssumption DEF SharedInv
<1>1. /\ gpc[t] = "relHandle" /\ UNCHANGED busVars
      /\ gpc' = [gpc EXCEPT ![t] = "idle"]
      /\ taskHandle' = [taskHandle EXCEPT ![i[t]] = None]
      /\ i' = [i EXCEPT ![t] = 1] /\ pin' = [pin EXCEPT ![t] = None]
      /\ gret' = [gret EXCEPT ![t] = FALSE] /\ seen' = [seen EXCEPT ![t] = FALSE]
      /\ ntf' = ntf /\ left' = left
  BY DEF Gpio!ReleaseHandle, Gpio!Goto
<1>2. bpc[t] = "idle" /\ (gpc[t] # "idle" => pin[t] = Pin)
  BY <1>1 DEF OneCall
<1>3. 1 \in Gpio!Slots
  BY DEF Gpio!Slots
<1>4. OffBusStep(t)
  BY <1>1, <1>2, <1>3 DEF OffBusStep, SharedType, InSlot, Waits, OneCall, RecordAt
<1>5. SharedType' /\ OneCall' /\ BusOwned' /\ \A u \in Tasks : RecordAt(u)'
  BY <1>4, OffBusKeeps
<1>6. HandlesWait'
  <2>1. \A s \in Gpio!Slots : taskHandle'[s] # None => taskHandle'[s] = taskHandle[s] /\ taskHandle[s] # t
    BY <1>1 DEF HandlesWait, SharedType
  <2> QED
    BY <1>1, <2>1 DEF HandlesWait, SharedType
<1>7. \A u \in Tasks : LeftAt(u)'
  BY <1>1, <1>3 DEF SharedType, LeftAt, Waits
<1> QED
  BY <1>5, <1>6, <1>7

\* An edge counts in the record of the task its slot names, which is off the bus.
LEMMA EdgeStep ==
  ASSUME SharedInv, Edge
  PROVE  SharedInv'
<1> USE SharedAssumption DEF SharedInv
<1>1. /\ bpc' = bpc /\ dh' = dh /\ req' = req /\ bret' = bret /\ mutex' = mutex
      /\ taskHadle' = taskHadle /\ wire' = wire /\ outcome' = outcome
      /\ pin' = pin /\ i' = i /\ gret' = gret /\ taskHandle' = taskHandle
  BY DEF Edge, Gpio!InterruptRoutine, Gpio!slotVars, busVars
<1>2. seen' = [t \in Tasks |-> seen[t] \/ (pin[t] = Pin /\ gpc[t] \in Gpio!Registered)]
  BY DEF Edge, Gpio!InterruptRoutine
<1>3. left' = [t \in Tasks |-> IF ntf'[t] # ntf[t] /\ gpc[t] \in {"relId", "relHandle"}
                              THEN "edge" ELSE left[t]]
  BY DEF Edge
<1>4. /\ gpc' \in [Tasks -> {"idle", "scan", "setId", "setHandle"} \cup InSlot]
      /\ ntf' \in [Tasks -> Notification(Values)]
      /\ \A u \in Tasks : gpc'[u] = gpc[u] \/ (gpc[u] = "blocked" /\ gpc'[u] = "woken")
      /\ \A u \in Tasks : ntf'[u] = ntf[u] \/ (ntf'[u].state = Received /\ gpc[u] \in InSlot)
  <2>1. CASE UNCHANGED <<ntf, gpc>>
    BY <2>1 DEF SharedType
  <2>2. CASE ~UNCHANGED <<ntf, gpc>>
    <3>1. PICK s \in Gpio!Slots :
             /\ taskHandle[s] # None
             /\ ntf' = [ntf EXCEPT ![taskHandle[s]] = Gpio!Give(@)]
             /\ gpc' = IF Gpio!Wakes(ntf[taskHandle[s]]) /\ gpc[taskHandle[s]] = "blocked"
                       THEN [gpc EXCEPT ![taskHandle[s]] = "woken"] ELSE gpc
      BY <2>2 DEF Edge, Gpio!InterruptRoutine
    <3> DEFINE h == taskHandle[s]
    <3>2. h \in Tasks /\ gpc[h] \in InSlot
      BY <3>1 DEF SharedType, HandlesWait
    <3>3. Gpio!Give(ntf[h]) \in Notification(Values) /\ Gpio!Give(ntf[h]).state = Received
      BY <3>2, PinNotes DEF SharedType
    <3>4. /\ ntf' = [ntf EXCEPT ![h] = Gpio!Give(@)]
          /\ gpc' = gpc \/ (gpc[h] = "blocked" /\ gpc' = [gpc EXCEPT ![h] = "woken"])
      BY <3>1
    <3> HIDE DEF h
    <3>5. /\ gpc' \in [Tasks -> {"idle", "scan", "setId", "setHandle"} \cup InSlot]
          /\ \A u \in Tasks : gpc'[u] = gpc[u] \/ (gpc[u] = "blocked" /\ gpc'[u] = "woken")
      BY <3>2, <3>4 DEF SharedType, InSlot, Waits
    <3>6. /\ ntf' \in [Tasks -> Notification(Values)]
          /\ \A u \in Tasks : ntf'[u] = ntf[u] \/ (ntf'[u].state = Received /\ gpc[u] \in InSlot)
      BY <3>2, <3>3, <3>4 DEF SharedType
    <3> QED
      BY <3>5, <3>6
  <2> QED
    BY <2>1, <2>2
<1>5. /\ seen' \in [Tasks -> BOOLEAN]
      /\ \A u \in Tasks : seen[u] => seen'[u]
      /\ \A u \in Tasks : gpc[u] \in Waits => seen'[u]
  <2>1. \A u \in Tasks : (seen[u] \/ (pin[u] = Pin /\ gpc[u] \in Gpio!Registered)) \in BOOLEAN
    BY DEF SharedType
  <2>2. \A u \in Tasks : gpc[u] \in Waits => pin[u] = Pin /\ gpc[u] \in Gpio!Registered
    BY DEF OneCall, Waits, Gpio!Registered
  <2> QED
    BY <1>2, <2>1, <2>2
<1>6. SharedType'
  BY <1>1, <1>3, <1>4, <1>5 DEF SharedType
<1>7. OneCall'
  BY <1>1, <1>4 DEF OneCall
<1>8. HandlesWait'
  BY <1>1, <1>4 DEF HandlesWait, SharedType, InSlot, Waits
<1>9. BusOwned'
  BY <1>1 DEF BusOwned
<1>10. \A u \in Tasks : RecordAt(u)'
  <2> SUFFICES ASSUME NEW u \in Tasks PROVE RecordAt(u)'
    OBVIOUS
  <2>1. CASE bpc[u] = "idle"
    BY <1>1, <1>4, <2>1, StatesDiffer DEF RecordAt
  <2>2. CASE bpc[u] # "idle"
    <3>1. gpc[u] = "idle" /\ gpc'[u] = "idle" /\ ntf'[u] = ntf[u]
      BY <1>4, <2>2 DEF OneCall, InSlot, Waits
    <3> QED
      BY <1>1, <3>1 DEF RecordAt, Ended, UnderWay
  <2> QED
    BY <2>1, <2>2
<1>11. \A u \in Tasks : LeftAt(u)'
  <2> SUFFICES ASSUME NEW u \in Tasks PROVE LeftAt(u)'
    OBVIOUS
  <2>1. CASE gpc[u] \in Waits
    <3>1. gpc'[u] \in Waits
      BY <1>4, <2>1 DEF Waits
    <3> QED
      BY <1>5, <2>1, <3>1 DEF LeftAt
  <2>2. CASE gpc[u] \notin Waits /\ ntf'[u] = ntf[u]
    BY <1>3, <2>2 DEF LeftAt
  <2>3. CASE gpc[u] \notin Waits /\ ntf'[u] # ntf[u]
    BY <1>3, <1>4, <2>3 DEF LeftAt, InSlot
  <2> QED
    BY <2>1, <2>2, <2>3
<1> QED
  BY <1>6, <1>7, <1>8, <1>9, <1>10, <1>11

\* Every step keeps the invariant.
LEMMA SharedStep == SharedInv /\ [Next]_vars => SharedInv'
<1> SUFFICES ASSUME SharedInv, [Next]_vars PROVE SharedInv'
  OBVIOUS
<1>1. ASSUME NEW t \in Tasks, WaitRun(t) PROVE SharedInv'
  BY <1>1, ScanStep, SetIdStep, SetHandleStep, PinClearStep, TakeStep, TimeoutStep,
     ReleaseIdStep, ReleaseHandleStep DEF WaitRun
<1>2. CASE UNCHANGED vars
  BY <1>2 DEF vars, busVars, gpioVars, SharedInv, SharedType, OneCall, HandlesWait, BusOwned,
     RecordAt, LeftAt, Ended, UnderWay
<1> QED
  BY <1>1, <1>2, BusCallStep, BusRunStep, BusInterruptStep, WaitCallStep, WaitWakeStep, EdgeStep
     DEF Next

LEMMA SharedAlways == Spec => []SharedInv
  BY SharedInit, SharedStep, PTL DEF Spec

\* efHal_i2c.c and efHal_gpio.c on one notification record: no edge reaches a
\* task that is inside a transfer, and no count is taken for the end of one.
THEOREM TransferIsUndisturbed == Spec => []TransferUndisturbed
<1>1. SharedInv => TransferUndisturbed
  <2> SUFFICES ASSUME SharedInv PROVE TransferUndisturbed
    OBVIOUS
  <2>1. I2c!ResultIsOwn /\ I2c!NoMissedEnd
    BY DEF SharedInv, OneCall, RecordAt, UnderWay, I2c!ResultIsOwn, I2c!NoMissedEnd
  <2>2. \A t \in Tasks, s \in Gpio!Slots : bpc[t] # "idle" => taskHandle[s] # t
    BY SharedAssumption DEF SharedInv, OneCall, HandlesWait, InSlot, Waits
  <2> QED
    BY <2>1, <2>2 DEF TransferUndisturbed
<1> QED
  BY SharedAlways, <1>1, PTL

\* A wait that is about to return true without an interrupt of its own found
\* what a failed transfer, or an edge after its previous wait, had left.
THEOREM HonestyIsKept == Spec => HonestUnlessLeft
<1> DEFINE A == \A t \in Tasks :
          gpc[t] = "woken" /\ gpc'[t] = "relId" /\ gret'[t] =>
              seen[t] \/ left[t] # "nobody"
<1>1. SharedInv /\ [Next]_vars => [A]_vars
  <2> SUFFICES ASSUME SharedInv, Next, NEW t \in Tasks,
                      gpc[t] = "woken", gpc'[t] = "relId", gret'[t]
               PROVE  seen[t] \/ left[t] # "nobody"
    OBVIOUS
  <2>0. gpc \in [Tasks -> {"idle", "scan", "setId", "setHandle"} \cup InSlot]
        /\ gret \in [Tasks -> BOOLEAN]
    BY DEF SharedInv, SharedType
  <2>1. WaitWake(t)
    <3>1. ASSUME NEW u \in Tasks, BusCall(u) \/ BusRun(u)
          PROVE  FALSE
      BY <3>1 DEF BusCall, BusRun, gpioVars
    <3>2. ~BusInterrupt
      BY DEF BusInterrupt, gpioVars
    <3>3. ASSUME NEW u \in Tasks, WaitCall(u)
          PROVE  FALSE
      BY <2>0, <3>3 DEF WaitCall, Gpio!Call, Gpio!Goto
    <3>4. ASSUME NEW u \in Tasks, WaitRun(u)
          PROVE  FALSE
      <4>1. CASE u = t
        BY <3>4, <4>1 DEF WaitRun, Gpio!Scan, Gpio!SetId, Gpio!SetHandle, Gpio!ClearState,
           Gpio!Take, Gpio!Timeout, Gpio!ReleaseId, Gpio!ReleaseHandle, Gpio!Goto
      <4>2. CASE u # t
        <5>1. gpc'[t] = gpc[t]
          BY <2>0, <3>4, <4>2 DEF WaitRun, Gpio!Scan, Gpio!SetId, Gpio!SetHandle,
             Gpio!ClearState, Gpio!Take, Gpio!Timeout, Gpio!ReleaseId, Gpio!ReleaseHandle,
             Gpio!Goto
        <5> QED
          BY <5>1
      <4> QED
        BY <4>1, <4>2
    <3>5. ~Edge
      <4> SUFFICES ASSUME Edge PROVE FALSE
        OBVIOUS
      <4>1. gpc'[t] \in {gpc[t], "woken"}
        BY <2>0 DEF Edge, Gpio!InterruptRoutine
      <4> QED
        BY <4>1
    <3>6. ASSUME NEW u \in Tasks, WaitWake(u), u # t
          PROVE  FALSE
      BY <2>0, <3>6 DEF WaitWake, Gpio!Wake, Gpio!Goto
    <3> QED
      BY <3>1, <3>2, <3>3, <3>4, <3>5, <3>6 DEF Next
  <2>2. gret'[t] = Gpio!TakeResult(ntf[t])
    BY <2>0, <2>1 DEF WaitWake, Gpio!Wake
  <2>3. ntf[t].value # 0
    BY <2>2, PinNotes DEF SharedInv, SharedType
  <2> QED
    BY <2>3 DEF SharedInv, LeftAt
<1> QED
  BY SharedAlways, <1>1, PTL DEF Spec, HonestUnlessLeft

-----------------------------------------------------------------------------
(***************************************************************************)
(* SoftTimers: any tasks, timers, bases, clock and length of a tick.  The  *)
(* first theorem speaks of any overlap of calls; the second needs the      *)
(* parts of the invariant that hold as long as none has overlapped.        *)
(***************************************************************************)

Ops == {"none", "open", "get", "getAndClear", "clear"}
Measuring == {"roll", "value"}
Clearing  == {"zero", "store"}

\* The type invariant.
TimerType ==
    /\ val \in 0 .. Period - 1 /\ tickInt \in BOOLEAN
    /\ inUse \in [Timers -> BOOLEAN]
    /\ baseTimeuS \in [Timers -> Nat]
    /\ rollOver \in [Timers -> Nat]
    /\ lastValue \in [Timers -> 0 .. Period - 1]
    /\ tpc \in [Users -> {"idle", "scan", "use", "enable"} \cup Measuring \cup Clearing]
    /\ op \in [Users -> Ops]
    /\ hTimer \in [Users -> Timers \cup {NoTimer}]
    /\ loopi \in [Users -> Timers]
    /\ timeMs \in [Users -> Nat]
    /\ counts \in [Users -> Int]
    /\ age \in [Timers -> Nat]
    /\ drift \in [Timers -> Int]
    /\ truth \in [Users -> Int]
    /\ nested \in SUBSET {"open", "off"}

\* A location fits the call, and a call has a handle where it needs one.
CallAt ==
    \A t \in Users :
        /\ tpc[t] = "idle" => op[t] = "none"
        /\ tpc[t] \in {"scan", "use"} => op[t] = "open" /\ hTimer[t] = NoTimer
        /\ tpc[t] \in Measuring => op[t] \in {"get", "getAndClear"}
        /\ tpc[t] \in Clearing => op[t] \in {"open", "getAndClear", "clear"}
        /\ tpc[t] = "enable" => op[t] \in {"get", "getAndClear", "clear"}
        /\ tpc[t] \in Measuring \cup Clearing \cup {"enable"} => hTimer[t] # NoTimer
        /\ hTimer[t] # NoTimer => baseTimeuS[hTimer[t]] > 0

\* Whoever has turned the tick interrupt off is there to turn it on.
SomeoneInside == ~tickInt => \E t \in Users : Inside(t)

(***************************************************************************)
(* While calls have not nested: an entry has one owner, the interrupt is   *)
(* off for one task, and the counter, the ticks counted and those that     *)
(* were not agree on the age of every timer.                               *)
(***************************************************************************)
OneOwner ==
    /\ \A t, u \in Users : op[t] = "open" /\ op[u] = "open" => t = u
    /\ \A t, u \in Users : hTimer[t] # NoTimer /\ hTimer[t] = hTimer[u] => t = u
    /\ \A t \in Users : hTimer[t] # NoTimer => inUse[hTimer[t]]
    /\ \A t \in Users : tpc[t] = "use" => ~inUse[loopi[t]]

OneInside ==
    /\ \A t, u \in Users : Inside(t) /\ Inside(u) => t = u
    /\ \A t \in Users : Inside(t) => ~tickInt

\* The age of the timer of t: the counts since lastValue, the ticks counted,
\* and the ticks that were not.
Clocked(t) ==
    LET k == hTimer[t] IN
    age[k] + Period * drift[k] = (lastValue[k] - val) + Period * rollOver[k]

\* What t has read is the truth, split in ticks and counts.
Measured(t) ==
    /\ truth[t] = counts[t] + Period * timeMs[t]
    /\ -Period < counts[t] /\ counts[t] < Period

\* What holds of the timer of t at each location of its call.
Reading(t) ==
    /\ hTimer[t] # NoTimer /\ tpc[t] \notin Clearing => Clocked(t)
    /\ tpc[t] = "value" => timeMs[t] = rollOver[hTimer[t]]
    /\ tpc[t] \in Clearing \cup {"enable"} /\ op[t] \in {"get", "getAndClear"} => Measured(t)

Unnested == nested = {} => OneOwner /\ OneInside /\ \A t \in Users : Reading(t)

\* The inductive invariant.
TimersInv == TimerType /\ CallAt /\ SomeoneInside /\ Unnested

-----------------------------------------------------------------------------
\* Facts about the constants.
LEMMA PeriodIs == Period \in Nat /\ Period > 0
  BY SoftTimersAssumption, SMT DEF SoftTimersAssumption, Period

LEMMA TimersAre == 1 \in Timers /\ Timers \subseteq Nat /\ NoTimer \notin Timers
  BY SoftTimersAssumption, SMT DEF SoftTimersAssumption, Timers

LEMMA NextEntry == \A k \in Timers : k < NTimers => k + 1 \in Timers
  BY SoftTimersAssumption, SMT DEF SoftTimersAssumption, Timers

\* Periods add up.
LEMMA Periods == \A n \in Int : /\ Period * n \in Int
                               /\ Period * (n + 1) = Period * n + Period
                               /\ Period * (n - 1) = Period * n - Period
  BY PeriodIs, SMT

\* The calls that look at the clock.
LEMMA Calling ==
  ASSUME NEW t \in Users, Disable(t)
  PROVE  \E o \in {"get", "getAndClear", "clear"} :
             /\ op' = [op EXCEPT ![t] = o]
             /\ Go(t, "idle", IF o = "clear" THEN "zero" ELSE "roll")
  <1>1. Calls[t] \ {"close"} \subseteq {"get", "getAndClear", "clear"}
    BY SoftTimersAssumption DEF SoftTimersAssumption
  <1> QED
    BY <1>1 DEF Disable

\* Each part of the invariant holds at first, and through every step.
LEMMA TimersBegin == TimersInit => TimersInv
  <1> SUFFICES ASSUME TimersInit PROVE TimersInv
    OBVIOUS
  <1> USE PeriodIs, TimersAre DEF TimersInit
  <1>1. TimerType
    BY SMT DEF TimerType, Ops, Measuring, Clearing
  <1>2. CallAt
    BY DEF CallAt, Measuring, Clearing
  <1>3. SomeoneInside
    BY DEF SomeoneInside
  <1>4. Unnested
    BY DEF Unnested, OneOwner, OneInside, Inside, Reading, Clearing, Measuring
  <1> QED
    BY <1>1, <1>2, <1>3, <1>4 DEF TimersInv

LEMMA TimerTypeStep == TimerType /\ CallAt /\ [TimersNext]_tVars => TimerType'
  <1> SUFFICES ASSUME TimerType, CallAt, [TimersNext]_tVars PROVE TimerType'
    OBVIOUS
  <1> USE PeriodIs, TimersAre DEF TimerType
  <1>1. CASE Count
    <2>1. val' \in 0 .. Period - 1
      BY <1>1, SMT DEF Count
    <2>2. rollOver' \in [Timers -> Nat] /\ age' \in [Timers -> Nat] /\ drift' \in [Timers -> Int]
      BY <1>1, SMT DEF Count
    <2> QED
      BY <1>1, <2>1, <2>2 DEF Count, readings
  <1>2. ASSUME NEW t \in Users, Open(t) PROVE TimerType'
    BY <1>2 DEF Open, Go, Overlap, sysTick, entries, readings, Ops
  <1>3. ASSUME NEW t \in Users, Close(t) PROVE TimerType'
    BY <1>3, SMT DEF Close, sysTick, readings
  <1>4. ASSUME NEW t \in Users, Disable(t) PROVE TimerType'
    <2>1. op' \in [Users -> Ops]
          /\ tpc' \in [Users -> {"idle", "scan", "use", "enable"} \cup Measuring \cup Clearing]
      BY <1>4, Calling DEF Go, Ops, Measuring, Clearing
    <2> QED
      BY <1>4, <2>1 DEF Disable, Overlap, entries, readings
  <1>5. ASSUME NEW t \in Users, Scan(t) PROVE TimerType'
    <2>1. loopi[t] < NTimers => loopi[t] + 1 \in Timers
      BY NextEntry
    <2> QED
      BY <1>5, <2>1 DEF Scan, sysTick, entries, readings, history, Ops
  <1>6. ASSUME NEW t \in Users, Use(t) PROVE TimerType'
    <2>1. Base[t] \in Nat
      BY SoftTimersAssumption DEF SoftTimersAssumption
    <2> QED
      BY <1>6, <2>1 DEF Use, Go, sysTick, readings, history, Clearing
  <1>7. ASSUME NEW t \in Users, ReadRoll(t) PROVE TimerType'
    <2>1. hTimer[t] \in Timers
      BY <1>7 DEF ReadRoll, Go, CallAt, Measuring
    <2> QED
      BY <1>7, <2>1 DEF ReadRoll, Go, sysTick, entries, history, Measuring
  <1>8. ASSUME NEW t \in Users, ReadValue(t) PROVE TimerType'
    <2>1. hTimer[t] \in Timers
      BY <1>8 DEF ReadValue, Go, CallAt, Measuring
    <2>2. lastValue[hTimer[t]] - val \in Int /\ age[hTimer[t]] + Period * drift[hTimer[t]] \in Int
      <3>1. /\ lastValue[hTimer[t]] \in 0 .. Period - 1 /\ age[hTimer[t]] \in Nat
            /\ drift[hTimer[t]] \in Int
        BY <2>1
      <3>2. Period * drift[hTimer[t]] \in Int
        BY <3>1, Periods
      <3> QED
        BY <3>1, <3>2, SMT
    <2>3. counts' \in [Users -> Int] /\ truth' \in [Users -> Int]
      BY <1>8, <2>2 DEF ReadValue
    <2>4. tpc' \in [Users -> {"idle", "scan", "use", "enable"} \cup Measuring \cup Clearing]
      BY <1>8 DEF ReadValue, Go, Clearing
    <2> QED
      BY <1>8, <2>3, <2>4 DEF ReadValue, sysTick, entries
  <1>9. ASSUME NEW t \in Users, Zero(t) PROVE TimerType'
    BY <1>9 DEF Zero, Go, sysTick, readings, history, Clearing
  <1>10. ASSUME NEW t \in Users, Store(t) PROVE TimerType'
    <2>1. hTimer[t] \in Timers
      BY <1>10 DEF Store, Go, CallAt, Clearing
    <2>2. lastValue' \in [Timers -> 0 .. Period - 1] /\ age' \in [Timers -> Nat]
          /\ drift' \in [Timers -> Int]
      <3>1. rollOver[hTimer[t]] \in Nat
        BY <2>1
      <3>2. 0 \in Nat /\ \A n \in Nat : n \in Int
        BY SMT
      <3> QED
        BY <1>10, <2>1, <3>1, <3>2 DEF Store
    <2>3. op' \in [Users -> Ops]
          /\ tpc' \in [Users -> {"idle", "scan", "use", "enable"} \cup Measuring \cup Clearing]
      BY <1>10 DEF Store, Go, Ops
    <2> QED
      BY <1>10, <2>2, <2>3 DEF Store, sysTick, readings
  <1>11. ASSUME NEW t \in Users, Enable(t) PROVE TimerType'
    BY <1>11 DEF Enable, Go, Forget, entries, Ops
  <1>12. CASE UNCHANGED tVars
    BY <1>12 DEF tVars, sysTick, entries, readings, history
  <1> QED
    BY <1>1, <1>2, <1>3, <1>4, <1>5, <1>6, <1>7, <1>8, <1>9, <1>10, <1>11, <1>12
    DEF TimersNext, RunTimer

LEMMA CallAtStep == TimerType /\ CallAt /\ [TimersNext]_tVars => CallAt'
  <1> SUFFICES ASSUME TimerType, CallAt, [TimersNext]_tVars PROVE CallAt'
    OBVIOUS
  <1> USE TimersAre DEF TimerType, CallAt, Measuring, Clearing
  <1>1. CASE Count
    BY <1>1 DEF Count
  <1>2. ASSUME NEW t \in Users, Open(t)
        PROVE  CallAt'
    BY <1>2 DEF Open, Go, entries
  <1>10. ASSUME NEW t \in Users, Scan(t)
         PROVE  CallAt'
    <2>1. /\ tpc[t] = "scan" /\ UNCHANGED <<hTimer, baseTimeuS>>
          /\ \/ tpc' = [tpc EXCEPT ![t] = "use"] /\ op' = op
             \/ tpc' = tpc /\ op' = op
             \/ tpc' = [tpc EXCEPT ![t] = "idle"] /\ op' = [op EXCEPT ![t] = "none"]
      BY <1>10 DEF Scan, entries
    <2> QED
      BY <2>1
  <1>3. ASSUME NEW t \in Users, Close(t)
        PROVE  CallAt'
    BY <1>3 DEF Close
  <1>4. ASSUME NEW t \in Users, Disable(t)
        PROVE  CallAt'
    <2>1. PICK o \in {"get", "getAndClear", "clear"} :
              /\ op' = [op EXCEPT ![t] = o]
              /\ Go(t, "idle", IF o = "clear" THEN "zero" ELSE "roll")
      BY <1>4, Calling
    <2> QED
      BY <1>4, <2>1 DEF Disable, Go, entries
  <1>5. ASSUME NEW t \in Users, Use(t)
        PROVE  CallAt'
    <2>1. Base[t] > 0
      BY SoftTimersAssumption, SMT DEF SoftTimersAssumption
    <2> QED
      BY <1>5, <2>1 DEF Use, Go
  <1>6. ASSUME NEW t \in Users, ReadRoll(t) \/ ReadValue(t)
        PROVE  CallAt'
    BY <1>6 DEF ReadRoll, ReadValue, Go, entries
  <1>7. ASSUME NEW t \in Users, Zero(t) \/ Store(t)
        PROVE  CallAt'
    BY <1>7 DEF Zero, Store, Go
  <1>8. ASSUME NEW t \in Users, Enable(t)
        PROVE  CallAt'
    BY <1>8 DEF Enable, Go, Forget, entries
  <1>9. CASE UNCHANGED tVars
    BY <1>9 DEF tVars, entries
  <1> QED
    BY <1>1, <1>2, <1>3, <1>4, <1>5, <1>6, <1>7, <1>8, <1>9, <1>10 DEF TimersNext, RunTimer

\* A task is inside from the time it turns the interrupt off until it turns it
\* on, and the steps of the others change nothing of that.
LEMMA InsideSteps ==
  ASSUME TimerType, CallAt, [TimersNext]_tVars, NEW u \in Users
  PROVE  /\ Inside(u)' => Inside(u) \/ Disable(u)
         /\ Inside(u) => Inside(u)' \/ Enable(u)
  <1> USE DEF TimerType, CallAt, Inside, Measuring, Clearing
  <1>1. CASE Count
    BY <1>1 DEF Count
  <1>2. ASSUME NEW t \in Users, Open(t) \/ Close(t)
        PROVE  Inside(u)' <=> Inside(u)
    BY <1>2 DEF Open, Close, Go
  <1>3. ASSUME NEW t \in Users, Scan(t)
        PROVE  Inside(u)' <=> Inside(u)
    BY <1>3 DEF Scan
  <1>4. ASSUME NEW t \in Users, Use(t) \/ ReadRoll(t) \/ Zero(t)
        PROVE  Inside(u)' <=> Inside(u)
    BY <1>4 DEF Use, ReadRoll, Zero, Go
  <1>5. ASSUME NEW t \in Users, ReadValue(t) \/ Store(t)
        PROVE  Inside(u)' <=> Inside(u)
    BY <1>5 DEF ReadValue, Store, Go
  <1>6. ASSUME NEW t \in Users, Disable(t), t # u
        PROVE  Inside(u)' <=> Inside(u)
    BY <1>6, Calling DEF Go
  <1>7. ASSUME Disable(u)
        PROVE  Inside(u)'
    BY <1>7, Calling DEF Go
  <1>8. ASSUME NEW t \in Users, Enable(t), t # u
        PROVE  Inside(u)' <=> Inside(u)
    BY <1>8 DEF Enable, Forget, Go
  <1>9. ASSUME Enable(u)
        PROVE  ~Inside(u)'
    BY <1>9 DEF Enable, Go
  <1>10. CASE UNCHANGED tVars
    BY <1>10 DEF tVars
  <1> HIDE DEF TimerType, CallAt, Inside, Measuring, Clearing
  <1> QED
    BY <1>1, <1>2, <1>3, <1>4, <1>5, <1>6, <1>7, <1>8, <1>9, <1>10 DEF TimersNext, RunTimer

\* The interrupt changes only where a call turns it off, or on when it is done.
LEMMA TickSteps ==
  [TimersNext]_tVars => tickInt' = tickInt \/ \E t \in Users : Disable(t) \/ Enable(t)
  BY DEF TimersNext, RunTimer, Count, Open, Close, Scan, Use, ReadRoll, ReadValue, Zero, Store,
     tVars, sysTick

LEMMA SomeoneInsideStep ==
  TimerType /\ CallAt /\ SomeoneInside /\ [TimersNext]_tVars => SomeoneInside'
  <1> SUFFICES ASSUME TimerType, CallAt, SomeoneInside, [TimersNext]_tVars, ~tickInt'
               PROVE  \E t \in Users : Inside(t)'
    BY DEF SomeoneInside
  <1>1. \A u \in Users : ~Enable(u)
    BY DEF Enable
  <1>2. CASE tickInt
    <2>1. PICK t \in Users : Disable(t)
      BY <1>1, <1>2, TickSteps
    <2>2. Inside(t)'
      BY <2>1, Calling DEF TimerType, Go, Inside
    <2> QED
      BY <2>2
  <1>3. CASE ~tickInt
    BY <1>1, <1>3, InsideSteps DEF SomeoneInside
  <1> QED
    BY <1>2, <1>3 DEF TimerType

LEMMA Typed == TimersSpec => [](TimerType /\ CallAt /\ SomeoneInside)
  <1>1. TimersInit => TimerType /\ CallAt /\ SomeoneInside
    BY TimersBegin DEF TimersInv
  <1> QED
    BY <1>1, TimerTypeStep, CallAtStep, SomeoneInsideStep, PTL DEF TimersSpec

(***************************************************************************)
(* However the calls of any number of tasks preempt each other, the tick   *)
(* interrupt is on when none of them is between its accesses to CTRL.      *)
(***************************************************************************)
THEOREM TickComesBack == TimersSpec => []TickRestored
  <1>1. SomeoneInside => TickRestored
    BY DEF SomeoneInside, TickRestored
  <1> QED
    BY <1>1, Typed, PTL

-----------------------------------------------------------------------------
LEMMA OneInsideStep ==
  ASSUME TimerType, CallAt, nested = {} => OneInside, [TimersNext]_tVars, nested' = {}
  PROVE  nested = {} /\ OneInside'
  <1>1. nested = {}
    BY DEF TimersNext, tVars, history, Count, Open, Close, Disable, RunTimer, Scan, Use,
       ReadRoll, ReadValue, Zero, Store, Enable, Overlap
  <1>2. ASSUME NEW t \in Users, Disable(t)
        PROVE  (\A u \in Users : ~Inside(u)) /\ ~tickInt'
    BY <1>2 DEF Disable, Overlap
  <1>3. ASSUME NEW t \in Users, NEW u \in Users, Inside(t)', Inside(u)'
        PROVE  t = u
    <2>1. (Inside(t) \/ Disable(t)) /\ (Inside(u) \/ Disable(u))
      BY <1>3, InsideSteps
    <2>2. CASE Disable(t) /\ Disable(u)
      BY <2>2, Calling DEF TimerType, Go
    <2> QED
      BY <1>1, <1>2, <2>1, <2>2 DEF OneInside
  <1>4. ASSUME NEW t \in Users, Inside(t)'
        PROVE  ~tickInt'
    <2>1. CASE Disable(t)
      BY <1>2, <2>1
    <2>2. CASE ~Disable(t)
      <3>1. Inside(t) /\ ~tickInt
        BY <1>1, <1>4, <2>2, InsideSteps DEF OneInside
      <3>2. \A u \in Users : ~Disable(u)
        BY <1>2, <3>1
      <3>3. ASSUME NEW u \in Users, Enable(u)
            PROVE  FALSE
        <4>1. Inside(u) /\ ~Inside(u)'
          BY <3>3 DEF TimerType, CallAt, Enable, Go, Inside
        <4> QED
          BY <1>1, <1>4, <3>1, <4>1 DEF OneInside
      <3> QED
        BY <3>1, <3>2, <3>3, TickSteps
    <2> QED
      BY <2>1, <2>2
  <1> QED
    BY <1>1, <1>3, <1>4 DEF OneInside

LEMMA OneOwnerStep ==
  ASSUME TimerType, CallAt, nested = {}, OneOwner, [TimersNext]_tVars, nested' = {}
  PROVE  OneOwner'
  <1> USE TimersAre DEF TimerType, OneOwner
  <1>1. ASSUME NEW t \in Users, Open(t) PROVE OneOwner'
    <2>1. \A u \in Users : op[u] # "open"
      BY <1>1 DEF Open, Overlap
    <2> QED
      BY <1>1, <2>1 DEF Open, Go, entries
  <1>2. ASSUME NEW t \in Users, Close(t) PROVE OneOwner'
    BY <1>2 DEF Close
  <1>3. ASSUME NEW t \in Users, Disable(t) PROVE OneOwner'
    <2>1. PICK o \in {"get", "getAndClear", "clear"} :
              /\ op' = [op EXCEPT ![t] = o]
              /\ Go(t, "idle", IF o = "clear" THEN "zero" ELSE "roll")
      BY <1>3, Calling
    <2> QED
      BY <1>3, <2>1 DEF Disable, Go, entries
  <1>4. ASSUME NEW t \in Users, Scan(t) PROVE OneOwner'
    <2>1. /\ tpc[t] = "scan" /\ UNCHANGED <<hTimer, inUse>>
          /\ \/ tpc' = [tpc EXCEPT ![t] = "use"] /\ ~inUse[loopi[t]] /\ UNCHANGED <<op, loopi>>
             \/ tpc' = tpc /\ op' = op /\ loopi' = [loopi EXCEPT ![t] = @ + 1]
             \/ tpc' = [tpc EXCEPT ![t] = "idle"] /\ op' = [op EXCEPT ![t] = "none"]
                /\ loopi' = [loopi EXCEPT ![t] = 1]
      BY <1>4 DEF Scan, entries
    <2> QED
      BY <2>1
  <1>5. ASSUME NEW t \in Users, Use(t) PROVE OneOwner'
    <2>1. /\ tpc[t] = "use" /\ op[t] = "open" /\ ~inUse[loopi[t]]
          /\ tpc' = [tpc EXCEPT ![t] = "zero"]
          /\ inUse' = [inUse EXCEPT ![loopi[t]] = TRUE]
          /\ hTimer' = [hTimer EXCEPT ![t] = loopi[t]]
          /\ loopi' = [loopi EXCEPT ![t] = 1] /\ op' = op
      BY <1>5 DEF Use, Go, CallAt
    <2>2. \A u \in Users : tpc[u] = "use" => u = t
      BY <2>1 DEF CallAt
    <2> QED
      BY <2>1, <2>2
  <1>6. ASSUME NEW t \in Users, ReadRoll(t) \/ ReadValue(t) \/ Zero(t) PROVE OneOwner'
    BY <1>6 DEF ReadRoll, ReadValue, Zero, Go, entries
  <1>7. ASSUME NEW t \in Users, Store(t) PROVE OneOwner'
    BY <1>7 DEF Store, Go
  <1>8. ASSUME NEW t \in Users, Enable(t) PROVE OneOwner'
    BY <1>8 DEF Enable, Forget, Go, entries
  <1>9. CASE Count
    BY <1>9 DEF Count
  <1>10. CASE UNCHANGED tVars
    BY <1>10 DEF tVars, entries
  <1> QED
    BY <1>1, <1>2, <1>3, <1>4, <1>5, <1>6, <1>7, <1>8, <1>9, <1>10 DEF TimersNext, RunTimer

\* A step that leaves a task's locals and its entry alone.
LEMMA ReadingKept ==
  ASSUME NEW u \in Users, TimerType, CallAt, Reading(u), val' = val,
         tpc'[u] = tpc[u], op'[u] = op[u], hTimer'[u] = hTimer[u], truth'[u] = truth[u],
         counts'[u] = counts[u], timeMs'[u] = timeMs[u],
         hTimer[u] # NoTimer =>
             /\ age'[hTimer[u]] = age[hTimer[u]] /\ drift'[hTimer[u]] = drift[hTimer[u]]
             /\ lastValue'[hTimer[u]] = lastValue[hTimer[u]]
             /\ rollOver'[hTimer[u]] = rollOver[hTimer[u]]
  PROVE  Reading(u)'
  BY DEF Reading, Clocked, Measured, CallAt, Measuring

\* A step of the clock itself.
LEMMA ReadingCounts ==
  ASSUME NEW u \in Users, TimerType, CallAt, OneOwner, OneInside, Reading(u), Count
  PROVE  Reading(u)'
  <1> DEFINE k == hTimer[u]
  <1>1. UNCHANGED <<tickInt, inUse, lastValue, tpc, op, hTimer, timeMs, counts, truth>>
    BY DEF Count, readings
  <1>2. ASSUME k # NoTimer, tpc[u] \notin Clearing
        PROVE  Clocked(u)'
    <2>1. k \in Timers /\ inUse[k]
      BY <1>2 DEF TimerType, OneOwner
    <2>2. /\ age[k] \in Int /\ drift[k] \in Int /\ rollOver[k] \in Int /\ lastValue[k] \in Int
          /\ val \in Int /\ Period \in Int
      BY <2>1, PeriodIs, SMT DEF TimerType
    <2>3. age[k] + Period * drift[k] = (lastValue[k] - val) + Period * rollOver[k]
      BY <1>2 DEF Reading, Clocked
    <2>4. age'[k] = age[k] + 1
      BY <2>1 DEF Count
    <2> DEFINE a == age[k]
               d == Period * drift[k]
               l == lastValue[k]
               r == Period * rollOver[k]
    <2>5. a \in Int /\ d \in Int /\ l \in Int /\ r \in Int /\ a + d = (l - val) + r
      BY <2>2, <2>3, Periods
    <2>6. CASE val = 0 /\ tickInt
      <3>1. val' = Period - 1 /\ rollOver'[k] = rollOver[k] + 1 /\ drift'[k] = drift[k] - 0
        BY <2>1, <2>6 DEF Count
      <3>2. Period * rollOver'[k] = r + Period /\ Period * drift'[k] = d
        <4>1. Period * rollOver'[k] = r + Period
          BY <2>2, <3>1, Periods
        <4>2. Period * drift'[k] = d
          BY <2>2, <3>1, SMT
        <4> QED
          BY <4>1, <4>2
      <3> HIDE DEF a, d, l, r
      <3>3. val = 0
        BY <2>6
      <3>4. (a + 1) + d = (l - (Period - 1)) + (r + Period)
        BY <2>2, <2>5, <3>3, SMT
      <3> QED
        BY <1>1, <2>4, <3>1, <3>2, <3>4 DEF Clocked, a, l
    <2>7. CASE val = 0 /\ ~tickInt
      <3>1. val' = Period - 1 /\ rollOver'[k] = rollOver[k] + 0 /\ drift'[k] = drift[k] - 1
        BY <2>1, <2>7 DEF Count
      <3>2. Period * rollOver'[k] = r /\ Period * drift'[k] = d - Period
        <4>1. Period * rollOver'[k] = r
          BY <2>2, <3>1, SMT
        <4>2. Period * drift'[k] = d - Period
          BY <2>2, <3>1, Periods
        <4> QED
          BY <4>1, <4>2
      <3> HIDE DEF a, d, l, r
      <3>3. (a + 1) + (d - Period) = (l - (Period - 1)) + r
        BY <2>2, <2>5, <2>7, SMT
      <3> QED
        BY <1>1, <2>4, <3>1, <3>2, <3>3 DEF Clocked, a, l
    <2>8. CASE val # 0
      <3>1. val' = val - 1 /\ rollOver'[k] = rollOver[k] + 0 /\ drift'[k] = drift[k] - 0
        BY <2>1, <2>8 DEF Count
      <3>2. Period * rollOver'[k] = r /\ Period * drift'[k] = d
        BY <2>2, <3>1, SMT
      <3> HIDE DEF a, d, l, r
      <3>3. (a + 1) + d = (l - (val - 1)) + r
        BY <2>2, <2>5, SMT
      <3> QED
        BY <1>1, <2>4, <3>1, <3>2, <3>3 DEF Clocked, a, l
    <2> QED
      BY <2>6, <2>7, <2>8 DEF TimerType
  <1>3. ASSUME tpc[u] = "value"
        PROVE  rollOver'[k] = rollOver[k]
    <2>1. ~tickInt /\ k \in Timers
      BY <1>3 DEF CallAt, Measuring, OneInside, Inside, TimerType
    <2>2. rollOver'[k] = rollOver[k] + 0 /\ rollOver[k] \in Nat
      BY <2>1 DEF Count, TimerType
    <2> QED
      BY <2>2, SMT
  <1> QED
    BY <1>1, <1>2, <1>3 DEF Reading, Measured

LEMMA ReadingStep ==
  ASSUME TimerType, CallAt, nested = {}, OneOwner, OneInside, [TimersNext]_tVars,
         NEW u \in Users, Reading(u)
  PROVE  Reading(u)'
  <1>1. CASE Count
    BY <1>1, ReadingCounts
  <1>2. ASSUME NEW t \in Users, Open(t) \/ Scan(t)
        PROVE  Reading(u)'
    <2>1. CASE t # u
      BY <1>2, <2>1, ReadingKept DEF Open, Scan, Go, sysTick, entries, readings, history, TimerType
    <2>2. CASE t = u
      <3>1. hTimer[u] = NoTimer /\ hTimer' = hTimer /\ tpc'[u] \in {"scan", "use", "idle"}
        BY <1>2, <2>2 DEF Open, Scan, Go, CallAt, TimerType
      <3> QED
        BY <3>1 DEF Reading, Clearing
    <2> QED
      BY <2>1, <2>2
  <1>3. ASSUME NEW t \in Users, Use(t)
        PROVE  Reading(u)'
    <2>1. CASE t # u
      BY <1>3, <2>1, ReadingKept DEF Use, Go, sysTick, readings, history, TimerType
    <2>2. CASE t = u
      <3>1. tpc'[u] = "zero" /\ op'[u] = "open"
        BY <1>3, <2>2 DEF Use, Go, CallAt, TimerType
      <3> QED
        BY <3>1 DEF Reading, Clearing
    <2> QED
      BY <2>1, <2>2
  <1>4. ASSUME NEW t \in Users, Close(t)
        PROVE  Reading(u)'
    <2>1. CASE t # u
      <3>1. hTimer[t] # NoTimer
        BY <1>4 DEF Close
      <3>2. hTimer[u] # hTimer[t]
        BY <2>1, <3>1 DEF OneOwner
      <3> QED
        BY <1>4, <2>1, <3>2, ReadingKept DEF Close, sysTick, readings, TimerType
    <2>2. CASE t = u
      <3>1. tpc'[u] = "idle" /\ hTimer'[u] = NoTimer
        BY <1>4, <2>2 DEF Close, TimerType
      <3> QED
        BY <3>1 DEF Reading, Clearing
    <2> QED
      BY <2>1, <2>2
  <1>5. ASSUME NEW t \in Users, Disable(t)
        PROVE  Reading(u)'
    <2>1. PICK o \in {"get", "getAndClear", "clear"} :
              /\ op' = [op EXCEPT ![t] = o]
              /\ Go(t, "idle", IF o = "clear" THEN "zero" ELSE "roll")
      BY <1>5, Calling
    <2>2. CASE t # u
      BY <1>5, <2>1, <2>2, ReadingKept DEF Disable, Go, entries, readings, TimerType
    <2>3. CASE t = u
      <3>1. /\ tpc[u] = "idle" /\ (tpc'[u] = "roll" \/ (tpc'[u] = "zero" /\ op'[u] = "clear"))
            /\ UNCHANGED <<val, hTimer, rollOver, lastValue, age, drift>>
        BY <1>5, <2>1, <2>3 DEF Disable, Go, entries, TimerType
      <3> QED
        BY <3>1 DEF Reading, Clearing, Clocked
    <2> QED
      BY <2>2, <2>3
  <1>6. ASSUME NEW t \in Users, ReadRoll(t)
        PROVE  Reading(u)'
    <2>1. CASE t # u
      BY <1>6, <2>1, ReadingKept DEF ReadRoll, Go, sysTick, entries, history, TimerType
    <2>2. CASE t = u
      <3>1. /\ tpc[u] = "roll" /\ tpc'[u] = "value" /\ timeMs'[u] = rollOver[hTimer[u]]
            /\ UNCHANGED <<val, hTimer, rollOver, lastValue, age, drift>>
        BY <1>6, <2>2 DEF ReadRoll, Go, sysTick, entries, history, TimerType
      <3> QED
        BY <3>1 DEF Reading, Clearing, Clocked
    <2> QED
      BY <2>1, <2>2
  <1>7. ASSUME NEW t \in Users, ReadValue(t)
        PROVE  Reading(u)'
    <2>1. CASE t # u
      BY <1>7, <2>1, ReadingKept DEF ReadValue, Go, sysTick, entries, TimerType
    <2>2. CASE t = u
      <3> DEFINE k == hTimer[u]
      <3>1. /\ tpc[u] = "value" /\ op[u] \in {"get", "getAndClear"} /\ k \in Timers
            /\ tpc'[u] \in {"zero", "enable"} /\ op' = op
            /\ counts'[u] = lastValue[k] - val
            /\ truth'[u] = age[k] + Period * drift[k] /\ timeMs' = timeMs
            /\ UNCHANGED <<val, hTimer, rollOver, lastValue, age, drift>>
        BY <1>7, <2>2 DEF ReadValue, Go, sysTick, entries, TimerType, CallAt, Measuring
      <3>2. Clocked(u) /\ timeMs[u] = rollOver[k]
        BY <3>1, TimersAre DEF Reading, Clearing
      <3>3. truth'[u] = counts'[u] + Period * timeMs'[u]
        BY <3>1, <3>2 DEF Clocked
      <3>4. -Period < counts'[u] /\ counts'[u] < Period
        <4>1. lastValue[k] \in 0 .. Period - 1 /\ val \in 0 .. Period - 1
          BY <3>1 DEF TimerType
        <4> QED
          BY <3>1, <4>1, PeriodIs, SMT
      <3> QED
        BY <3>1, <3>2, <3>3, <3>4 DEF Reading, Measured, Clocked
    <2> QED
      BY <2>1, <2>2
  <1>8. ASSUME NEW t \in Users, Zero(t) \/ Store(t), t # u
        PROVE  Reading(u)'
    <2>1. hTimer[t] # NoTimer
      BY <1>8 DEF Zero, Store, Go, CallAt, Clearing
    <2>2. hTimer[u] # hTimer[t]
      BY <1>8, <2>1 DEF OneOwner
    <2> QED
      BY <1>8, <2>2, ReadingKept DEF Zero, Store, Go, sysTick, readings, history, TimerType
  <1>9. CASE Zero(u)
    <2>1. /\ tpc[u] = "zero" /\ tpc'[u] = "store"
          /\ UNCHANGED <<op, counts, timeMs, truth>>
      BY <1>9 DEF Zero, Go, readings, history, TimerType
    <2> QED
      BY <2>1 DEF Reading, Clearing, Measured
  <1>10. CASE Store(u)
    <2> DEFINE k == hTimer[u]
    <2>1. /\ tpc[u] = "store" /\ tpc'[u] \in {"idle", "enable"} /\ k \in Timers
          /\ op'[u] \in {"none", op[u]}
          /\ lastValue'[k] = val /\ age'[k] = 0 /\ drift'[k] = rollOver[k]
          /\ UNCHANGED <<val, hTimer, rollOver, counts, timeMs, truth>>
      BY <1>10 DEF Store, Go, sysTick, readings, TimerType, CallAt, Clearing
    <2>2. 0 + Period * rollOver[k] = (val - val) + Period * rollOver[k]
      <3>1. rollOver[k] \in Nat /\ val \in 0 .. Period - 1
        BY <2>1 DEF TimerType
      <3> QED
        BY <3>1, PeriodIs, SMT
    <2> QED
      BY <2>1, <2>2 DEF Reading, Clearing, Measured, Clocked
  <1>11. ASSUME NEW t \in Users, Enable(t)
         PROVE  Reading(u)'
    <2>1. CASE t # u
      BY <1>11, <2>1, ReadingKept DEF Enable, Forget, Go, entries, TimerType
    <2>2. CASE t = u
      <3>1. /\ tpc[u] = "enable" /\ tpc'[u] = "idle"
            /\ UNCHANGED <<val, hTimer, rollOver, lastValue, age, drift>>
        BY <1>11, <2>2 DEF Enable, Go, entries, TimerType
      <3> QED
        BY <3>1 DEF Reading, Clearing, Clocked
    <2> QED
      BY <2>1, <2>2
  <1>12. CASE UNCHANGED tVars
    BY <1>12, ReadingKept DEF tVars, sysTick, entries, readings, history
  <1> QED
    BY <1>1, <1>2, <1>3, <1>4, <1>5, <1>6, <1>7, <1>8, <1>9, <1>10, <1>11, <1>12
    DEF TimersNext, RunTimer

LEMMA UnnestedStep ==
  TimerType /\ CallAt /\ Unnested /\ [TimersNext]_tVars => Unnested'
  <1> SUFFICES ASSUME TimerType, CallAt, Unnested, [TimersNext]_tVars, nested' = {}
               PROVE  OneOwner' /\ OneInside' /\ \A u \in Users : Reading(u)'
    BY DEF Unnested
  <1>1. nested = {} /\ OneInside'
    BY OneInsideStep DEF Unnested
  <1>2. OneOwner /\ OneInside /\ \A u \in Users : Reading(u)
    BY <1>1 DEF Unnested
  <1> QED
    BY <1>1, <1>2, OneOwnerStep, ReadingStep

LEMMA TimersInvHolds == TimersSpec => []TimersInv
  <1>1. TimersInv /\ [TimersNext]_tVars => TimersInv'
    BY TimerTypeStep, CallAtStep, SomeoneInsideStep, UnnestedStep DEF TimersInv
  <1> QED
    BY TimersBegin, <1>1, PTL DEF TimersSpec

-----------------------------------------------------------------------------
(***************************************************************************)
(* softTimers_get.  Dividing the counts before the ticks are added costs   *)
(* less than a microsecond, an int32_t does not wrap on what fits it, and  *)
(* a time below zero stays one through the division.                       *)
(***************************************************************************)
LEMMA DivFacts ==
  ASSUME NEW n \in Nat, NEW d \in Nat, d > 0
  PROVE  n \div d \in Nat /\ d * (n \div d) <= n /\ n < d * (n \div d) + d
  BY SMT

\* A number that fits an int32_t is stored as it is.
LEMMA Fits == \A n \in Int : -HalfRange <= n /\ n < HalfRange => Int32(n) = n
  BY SoftTimersAssumption, SMT DEF SoftTimersAssumption, Int32

\* q stands for the counts divided by the clock, m for the ticks.
LEMMA QuotientFacts ==
  ASSUME NEW c \in Int, -Period < c, c < Period
  PROVE  LET q == Quotient(c, ClockMhz) IN
         /\ q \in Int
         /\ ClockMhz * q < c + ClockMhz /\ c < ClockMhz * q + ClockMhz
         /\ c >= 0 => ClockMhz * q <= c
         /\ c < 0 => c <= ClockMhz * q
         /\ -TickUs < q
  <1>0. ClockMhz \in Nat /\ ClockMhz > 0 /\ TickUs \in Nat /\ TickUs > 0
    BY SoftTimersAssumption, SMT DEF SoftTimersAssumption
  <1> DEFINE q == Quotient(c, ClockMhz)
  <1>1. CASE c >= 0
    <2>1. q = c \div ClockMhz /\ c \in Nat
      BY <1>1, SMT DEF Quotient
    <2>2. q \in Nat /\ ClockMhz * q <= c /\ c < ClockMhz * q + ClockMhz
      BY <1>0, <2>1, DivFacts
    <2>3. ClockMhz * q \in Nat
      BY <1>0, <2>2, SMT
    <2> HIDE DEF q
    <2> QED
      BY <1>0, <1>1, <2>2, <2>3, SMT DEF q
  <1>2. CASE ~(c >= 0)
    <2> DEFINE r == (-c) \div ClockMhz
    <2>1. q = -r /\ -c \in Nat
      BY <1>2, SMT DEF Quotient
    <2>2. r \in Nat /\ ClockMhz * r <= -c /\ -c < ClockMhz * r + ClockMhz
      BY <1>0, <2>1, DivFacts
    <2>3. ClockMhz * r \in Nat /\ ClockMhz * (-r) = -(ClockMhz * r)
      BY <1>0, <2>2, SMT
    <2>4. r < TickUs
      <3>1. ClockMhz * r < ClockMhz * TickUs
        BY <1>0, <2>2, <2>3, SMT DEF Period
      <3> QED
        BY <1>0, <2>2, <3>1, SMT
    <2> HIDE DEF q, r
    <2>5. ClockMhz * q = -(ClockMhz * r)
      BY <2>1, <2>3
    <2> QED
      BY <1>0, <1>2, <2>1, <2>2, <2>3, <2>4, <2>5, SMT DEF q
  <1> QED
    BY <1>1, <1>2

LEMMA Scaled ==
  ASSUME NEW n \in Nat, n > 0
  PROVE  /\ \A x, y \in Int : n * x < n * y => x < y
         /\ \A x, y \in Int : x <= y => n * x <= n * y
         /\ \A x, y \in Int : n * (x + y) = n * x + n * y
         /\ \A x \in Int : n * x \in Int
  BY SMT

\* What get computes before it divides by the base, against the time in counts.
LEMMA SumFacts ==
  ASSUME NEW c \in Int, NEW m \in Nat, -Period < c, c < Period
  PROVE  LET sum   == m * TickUs + Quotient(c, ClockMhz)
             total == c + Period * m IN
         /\ sum \in Int /\ total \in Int
         /\ ClockMhz * sum < total + ClockMhz
         /\ total < ClockMhz * sum + ClockMhz
         /\ -HalfRange <= sum
  <1>0. /\ ClockMhz \in Nat /\ ClockMhz > 0 /\ TickUs \in Nat /\ HalfRange \in Nat
        /\ TickUs <= HalfRange
    BY SoftTimersAssumption, SMT DEF SoftTimersAssumption
  <1> DEFINE q == Quotient(c, ClockMhz)
             u == m * TickUs
             cq == ClockMhz * q
             cu == ClockMhz * u
  <1>1. /\ q \in Int /\ cq < c + ClockMhz /\ c < cq + ClockMhz /\ -TickUs < q
    BY QuotientFacts
  <1>2. u \in Nat /\ cu \in Nat /\ cu = Period * m
    BY <1>0, SMT DEF Period
  <1>3. ClockMhz * (u + q) = cu + cq /\ cq \in Int
    BY <1>0, <1>1, <1>2, Scaled
  <1> HIDE DEF q, u, cq, cu
  <1>4. /\ u + q \in Int /\ c + cu \in Int
        /\ cu + cq < (c + cu) + ClockMhz
        /\ c + cu < (cu + cq) + ClockMhz
        /\ -HalfRange <= u + q
    BY <1>0, <1>1, <1>2, <1>3, SMT
  <1> QED
    BY <1>2, <1>3, <1>4 DEF q, u

\* From what was read to what the call returns.
LEMMA ElapsedFacts ==
  ASSUME NEW sum \in Int, NEW total \in Int, NEW base \in Nat, base > 0,
         ClockMhz * sum < total + ClockMhz, total < ClockMhz * sum + ClockMhz,
         -HalfRange <= sum
  PROVE  LET due == IF total < 0 THEN 0 ELSE total
             e   == IF Int32(sum) < 0 THEN 0 ELSE Int32(sum) \div base IN
         due < (HalfRange - 1) * ClockMhz =>
             /\ e * (ClockMhz * base) < due + ClockMhz
             /\ due < (e + 1) * (ClockMhz * base)
  <1>0. ClockMhz \in Nat /\ ClockMhz > 0 /\ HalfRange \in Nat /\ HalfRange > 0
    BY SoftTimersAssumption, SMT DEF SoftTimersAssumption
  <1> DEFINE due == IF total < 0 THEN 0 ELSE total
             e   == IF Int32(sum) < 0 THEN 0 ELSE Int32(sum) \div base
  <1> SUFFICES ASSUME due < (HalfRange - 1) * ClockMhz
               PROVE  /\ e * (ClockMhz * base) < due + ClockMhz
                      /\ due < (e + 1) * (ClockMhz * base)
    OBVIOUS
  <1>1. sum < HalfRange
    <2>1. (HalfRange - 1) * ClockMhz + ClockMhz = ClockMhz * HalfRange
      BY <1>0, SMT
    <2>2. (HalfRange - 1) * ClockMhz \in Int /\ due \in Int /\ total <= due /\ ClockMhz * sum \in Int
      BY <1>0, SMT
    <2> HIDE DEF due
    <2>3. ClockMhz * sum < ClockMhz * HalfRange
      BY <1>0, <2>1, <2>2, SMT
    <2> QED
      BY <1>0, <2>3, Scaled
  <1>2. Int32(sum) = sum
    BY <1>1, Fits
  <1>3. ClockMhz * base \in Nat /\ ClockMhz * base > 0
    BY <1>0, SMT
  <1>4. CASE total < 0
    <2>1. ClockMhz * sum < ClockMhz * 1
      BY <1>0, <1>4, SMT
    <2>2. sum < 1
      BY <1>0, <2>1, Scaled
    <2>3. e = 0
      <3>1. sum < 0 \/ sum = 0
        BY <2>2, SMT
      <3>2. 0 \div base = 0
        BY SMT
      <3> QED
        BY <1>2, <3>1, <3>2
    <2>4. due = 0
      BY <1>4
    <2> HIDE DEF e, due
    <2> QED
      BY <1>0, <1>3, <2>3, <2>4, SMT
  <1>5. CASE ~(total < 0)
    <2>1. ClockMhz * 0 < ClockMhz * (sum + 1)
      <3>1. ClockMhz * (sum + 1) = ClockMhz * sum + ClockMhz /\ ClockMhz * 0 = 0
        BY <1>0, SMT
      <3> QED
        BY <1>0, <1>5, <3>1, SMT
    <2>2. sum \in Nat
      <3>1. 0 < sum + 1
        BY <1>0, <2>1, Scaled
      <3> QED
        BY <3>1, SMT
    <2>3. e = sum \div base /\ due = total
      BY <1>2, <1>5, <2>2, SMT
    <2>4. e \in Nat /\ base * e <= sum /\ sum < base * e + base
      BY <2>2, <2>3, DivFacts
    <2> HIDE DEF e, due
    <2>5. ClockMhz * (base * e) <= ClockMhz * sum
      <3>1. base * e \in Int
        BY <2>4, SMT
      <3> QED
        BY <1>0, <2>4, <3>1, Scaled
    <2>6. ClockMhz * (sum + 1) <= ClockMhz * (base * e + base)
      <3>1. base * e + base \in Int /\ sum + 1 <= base * e + base
        BY <2>4, SMT
      <3> QED
        BY <1>0, <3>1, Scaled
    <2>7. /\ ClockMhz * (sum + 1) = ClockMhz * sum + ClockMhz
          /\ ClockMhz * (base * e) = e * (ClockMhz * base)
          /\ ClockMhz * (base * e + base) = (e + 1) * (ClockMhz * base)
      BY <1>0, <2>4, SMT
    <2>8. ClockMhz * sum \in Int /\ e * (ClockMhz * base) \in Int /\ (e + 1) * (ClockMhz * base) \in Int
      BY <1>0, <2>4, SMT
    <2>9. e * (ClockMhz * base) <= ClockMhz * sum
          /\ ClockMhz * sum + ClockMhz <= (e + 1) * (ClockMhz * base)
      BY <2>5, <2>6, <2>7
    <2> QED
      BY <1>0, <2>3, <2>8, <2>9, SMT
  <1> QED
    BY <1>4, <1>5

(***************************************************************************)
(* softTimers_get returns the time since the timer was opened or cleared,  *)
(* to the microsecond and then to the base, less what the ticks it kept    *)
(* off were worth: for any number of tasks, timers and bases, any clock    *)
(* and any length of a tick, while calls have not overlapped.              *)
(***************************************************************************)
THEOREM TimeIsAccounted == TimersSpec => []ElapsedAccounted
  <1>1. TimersInv => ElapsedAccounted
    <2> SUFFICES ASSUME TimersInv, NEW t \in Users,
                        tpc[t] = "enable", op[t] # "clear", nested = {}
                 PROVE  LET k     == hTimer[t]
                            scale == ClockMhz * baseTimeuS[k]
                            due   == IF truth[t] < 0 THEN 0 ELSE truth[t]
                        IN due < (HalfRange - 1) * ClockMhz =>
                             /\ Elapsed(t) * scale < due + ClockMhz
                             /\ due < (Elapsed(t) + 1) * scale
      BY DEF ElapsedAccounted
    <2>1. op[t] \in {"get", "getAndClear"} /\ hTimer[t] \in Timers /\ baseTimeuS[hTimer[t]] > 0
      BY DEF TimersInv, TimerType, CallAt
    <2>2. /\ truth[t] = counts[t] + Period * timeMs[t]
          /\ -Period < counts[t] /\ counts[t] < Period
      BY <2>1 DEF TimersInv, Unnested, Reading, Measured
    <2>3. counts[t] \in Int /\ timeMs[t] \in Nat /\ baseTimeuS[hTimer[t]] \in Nat
      BY <2>1 DEF TimersInv, TimerType
    <2> DEFINE sum == timeMs[t] * TickUs + Quotient(counts[t], ClockMhz)
    <2>4. /\ sum \in Int /\ truth[t] \in Int
          /\ ClockMhz * sum < truth[t] + ClockMhz
          /\ truth[t] < ClockMhz * sum + ClockMhz
          /\ -HalfRange <= sum
      BY <2>2, <2>3, SumFacts
    <2>5. Elapsed(t) = IF Int32(sum) < 0 THEN 0 ELSE Int32(sum) \div baseTimeuS[hTimer[t]]
      BY DEF Elapsed
    <2> HIDE DEF sum
    <2> QED
      BY <2>1, <2>3, <2>4, <2>5, ElapsedFacts
  <1> QED
    BY <1>1, TimersInvHolds, PTL

-----------------------------------------------------------------------------
(***************************************************************************)
(* EfHalPwm: any tasks, outputs and entries.  That a call finds an entry   *)
(* when there is one for every task is a matter of counting (Room): of the *)
(* tasks past an entry, each has left another behind at every entry        *)
(* before.                                                                 *)
(***************************************************************************)

\* The locations of a call that claims an entry, and of one that has it.
Claiming == {"scan", "setId", "setHandle"}
Owning   == {"clear", "take", "blocked", "woken", "release"}

\* The type invariant.
PwmType ==
    /\ ppc \in [PwmTasks -> {"idle"} \cup Claiming \cup Owning]
    /\ output \in [PwmTasks -> Outputs \cup {Free}]
    /\ entry \in [PwmTasks -> 1 .. NEntries + 1]
    /\ pntf \in [PwmTasks -> Notification({0, 1})]
    /\ handle \in [Entries -> PwmTasks \cup {Free}]
    /\ pwmId \in [Entries -> Outputs]
    /\ fired \in [PwmTasks -> BOOLEAN]
    /\ raced \in BOOLEAN /\ smashed \in BOOLEAN

\* Where a task stands in the table.
Standing ==
    \A t \in PwmTasks :
        /\ ppc[t] = "idle" => entry[t] = 1
        /\ ppc[t] # "idle" => <<t, output[t]>> \in WaitsOn
        /\ ppc[t] \in Claiming \cup {"clear"} => entry[t] \in Entries
        /\ ppc[t] = "blocked" => pntf[t].state = Waiting

\* A handle in the table is that of a task that stands at its entry.
Holders ==
    \A e \in Entries :
        handle[e] # Free => entry[handle[e]] = e /\ ppc[handle[e]] \in Owning

\* The tasks that have passed entry e: each left another behind at every
\* entry before.
Beyond(e) == {t \in PwmTasks : entry[t] > e}

\* So a table with an entry for every task has one left for each.
Room ==
    IsFiniteSet(PwmTasks) =>
        \A e \in 0 .. Cardinality(PwmTasks) :
            Cardinality(Beyond(e)) <= Cardinality(PwmTasks) - e

\* No call has written past a table that has an entry for every task.
Unsmashed == EnoughEntries => ~smashed

\* As long as claims have not overlapped.
OneClaim == \A t, u \in PwmTasks : Claims(t) /\ Claims(u) => t = u

\* From the test of an entry to its release it is the call's own.
EntryIsOwn ==
    \A t \in PwmTasks :
        /\ ppc[t] \in {"setId", "setHandle"} => handle[entry[t]] = Free
        /\ ppc[t] = "setHandle" => pwmId[entry[t]] = output[t]
        /\ Listed(t) => handle[entry[t]] = t /\ pwmId[entry[t]] = output[t]

\* No entry before its own holds the output of a task alone with it.
FirstIsOwn ==
    \A t \in PwmTasks : ppc[t] # "idle" /\ Alone(t) =>
        \A e \in Entries : e < entry[t] => pwmId[e] # output[t]

\* A task whose output has fired has a count, or is past its wait.
NotForgotten ==
    \A t \in PwmTasks : Listed(t) /\ Alone(t) /\ fired[t] =>
        /\ ppc[t] \in {"clear", "take"} => pntf[t].value # 0
        /\ ppc[t] # "blocked"

Unraced == ~raced => OneClaim /\ EntryIsOwn /\ FirstIsOwn /\ NotForgotten

\* The inductive invariant.
PwmInv == PwmType /\ Standing /\ Holders /\ Room /\ Unsmashed /\ Unraced

-----------------------------------------------------------------------------
\* A task of WaitsOn waits for an output.
LEMMA WaitsOnFacts ==
  ASSUME NEW t, NEW o, <<t, o>> \in WaitsOn
  PROVE  t \in PwmTasks /\ o \in Outputs
  BY PwmAssumption

\* What an interrupt may do: it gives to one task and wakes it.
LEMMA InterruptFacts ==
  ASSUME PwmType, NEW o \in Outputs, PwmInterrupt(o)
  PROVE  /\ ppc' \in [PwmTasks -> {"idle"} \cup Claiming \cup Owning]
         /\ pntf' \in [PwmTasks -> Notification({0, 1})]
         /\ \A t \in PwmTasks :
               /\ ppc'[t] = ppc[t] \/ (ppc[t] = "blocked" /\ ppc'[t] = "woken")
               /\ pntf'[t] = pntf[t] \/ pntf'[t] = Give(pntf[t])
               /\ pntf'[t] # pntf[t] /\ ppc[t] = "blocked" /\ pntf[t].state = Waiting
                     => ppc'[t] = "woken"
<1>1. CASE UNCHANGED <<pntf, ppc>>
  BY <1>1 DEF PwmType
<1>2. CASE \E e \in Entries :
             LET t == handle[e] IN
             /\ t # Free
             /\ pntf' = [pntf EXCEPT ![t] = Give(@)]
             /\ ppc' = IF Wakes(pntf[t]) /\ ppc[t] = "blocked"
                       THEN [ppc EXCEPT ![t] = "woken"] ELSE ppc
  <2>1. PICK e \in Entries :
             /\ handle[e] # Free
             /\ pntf' = [pntf EXCEPT ![handle[e]] = Give(@)]
             /\ ppc' = IF Wakes(pntf[handle[e]]) /\ ppc[handle[e]] = "blocked"
                       THEN [ppc EXCEPT ![handle[e]] = "woken"] ELSE ppc
    BY <1>2
  <2>2. handle[e] \in PwmTasks
    BY <2>1 DEF PwmType
  <2>3. Give(pntf[handle[e]]) \in Notification({0, 1})
    BY <2>2, GiveFacts DEF PwmType
  <2>4. ppc' \in [PwmTasks -> {"idle"} \cup Claiming \cup Owning]
    BY <2>1, <2>2 DEF PwmType, Owning
  <2>5. pntf' \in [PwmTasks -> Notification({0, 1})]
    BY <2>1, <2>2, <2>3 DEF PwmType
  <2> QED
    BY <2>1, <2>2, <2>4, <2>5 DEF PwmType, Wakes
<1> QED
  BY <1>1, <1>2 DEF PwmInterrupt

\* The parts of the invariant, one after the other.
LEMMA PwmTypeInit == PwmInit => PwmType
<1>1. NotifyInit \in Notification({0, 1})
  BY InitFacts
<1> SUFFICES ASSUME PwmInit PROVE PwmType
  OBVIOUS
<1>2. 1 \in 1 .. NEntries + 1
  BY PwmAssumption
<1> QED
  BY <1>1, <1>2, PwmAssumption DEF PwmInit, PwmType

LEMMA PwmTypeStep ==
  ASSUME PwmType, Standing, [PwmNext]_pVars
  PROVE  PwmType'
<1> USE PwmAssumption DEF PwmType, Claiming, Owning
<1>1. ASSUME NEW t \in PwmTasks, NEW o \in Outputs, WaitForInt(t, o)
      PROVE  PwmType'
  <2>1. (\E u \in PwmTasks : Claims(u)) \in BOOLEAN
    OBVIOUS
  <2> QED
    BY <1>1, <2>1 DEF WaitForInt, To
<1>2. ASSUME NEW t \in PwmTasks, ScanEntry(t)
      PROVE  PwmType'
  <2>1. entry[t] \in 1 .. NEntries
    BY <1>2 DEF ScanEntry, Standing, Entries
  <2>2. entry[t] + 1 \in 1 .. NEntries + 1
    BY <2>1
  <2> QED
    BY <1>2, <2>2 DEF ScanEntry
<1>3. ASSUME NEW t \in PwmTasks, StoreId(t)
      PROVE  PwmType'
  <2>1. output[t] \in Outputs
    BY <1>3 DEF StoreId, To, Standing
  <2> QED
    BY <1>3, <2>1 DEF StoreId, To
<1>4. ASSUME NEW t \in PwmTasks, StoreHandle(t)
      PROVE  PwmType'
  BY <1>4 DEF StoreHandle, To
<1>5. ASSUME NEW t \in PwmTasks, Clear(t)
      PROVE  PwmType'
  <2> DEFINE h == IF handle[entry[t]] = Free THEN t ELSE handle[entry[t]]
  <2>1. h \in PwmTasks
    BY <1>5 DEF Clear, To, Standing
  <2>2. StateClear(pntf[h]) \in Notification({0, 1})
    BY <2>1, ClearFacts
  <2>3. pntf' = [pntf EXCEPT ![h] = StateClear(@)]
    BY <1>5 DEF Clear
  <2> HIDE DEF h
  <2>4. pntf' \in [PwmTasks -> Notification({0, 1})]
    BY <2>1, <2>2, <2>3
  <2> QED
    BY <1>5, <2>4 DEF Clear, To
<1>6. ASSUME NEW t \in PwmTasks, Sleep(t)
      PROVE  PwmType'
  <2>1. TakeEnter(pntf[t]) \in Notification({0, 1})
    BY TakeFacts
  <2> QED
    BY <1>6, <2>1 DEF Sleep, To
<1>7. ASSUME NEW t \in PwmTasks, TimeOut(t)
      PROVE  PwmType'
  BY <1>7 DEF TimeOut, To
<1>8. ASSUME NEW t \in PwmTasks, Woken(t)
      PROVE  PwmType'
  <2>1. TakeExit(pntf[t]) \in Notification({0, 1})
    BY TakeFacts
  <2> QED
    BY <1>8, <2>1 DEF Woken, To
<1>9. ASSUME NEW t \in PwmTasks, Release(t)
      PROVE  PwmType'
  <2>1. handle' \in [Entries -> PwmTasks \cup {Free}] /\ smashed' \in BOOLEAN
    BY <1>9 DEF Release
  <2>2. 1 \in 1 .. NEntries + 1
    OBVIOUS
  <2> QED
    BY <1>9, <2>1, <2>2 DEF Release, To
<1>10. ASSUME NEW o \in Outputs, PwmInterrupt(o)
      PROVE  PwmType'
  <2>1. fired' \in [PwmTasks -> BOOLEAN]
    <3>1. \A t \in PwmTasks : (fired[t] \/ (Listed(t) /\ output[t] = o)) \in BOOLEAN
      OBVIOUS
    <3> QED
      BY <1>10, <3>1 DEF PwmInterrupt
  <2> QED
    BY <1>10, <2>1, InterruptFacts DEF PwmInterrupt
<1>11. CASE UNCHANGED pVars
  BY <1>11 DEF pVars
<1> QED
  BY <1>1, <1>2, <1>3, <1>4, <1>5, <1>6, <1>7, <1>8, <1>9, <1>10, <1>11
     DEF PwmNext, RunPwm

\* The notification of a task that sleeps: only a Give reaches it, and wakes it.
LEMMA StandingStep ==
  ASSUME PwmType, PwmType', Standing, [PwmNext]_pVars
  PROVE  Standing'
<1> USE PwmAssumption DEF PwmType, Claiming, Owning, Standing
<1>1. ASSUME NEW t \in PwmTasks, NEW o \in Outputs, WaitForInt(t, o)
      PROVE  Standing'
  <2>1. 1 \in Entries
    BY DEF Entries
  <2>2. <<t, output'[t]>> \in WaitsOn /\ entry[t] = 1 /\ ppc'[t] = "scan"
    BY <1>1 DEF WaitForInt, To
  <2>3. /\ entry' = entry /\ pntf' = pntf
        /\ \A u \in PwmTasks : u # t => ppc'[u] = ppc[u] /\ output'[u] = output[u]
    BY <1>1 DEF WaitForInt, To
  <2> QED
    BY <2>1, <2>2, <2>3
<1>2. ASSUME NEW t \in PwmTasks, ScanEntry(t)
      PROVE  Standing'
  BY <1>2 DEF ScanEntry
<1>3. ASSUME NEW t \in PwmTasks, StoreId(t)
      PROVE  Standing'
  BY <1>3 DEF StoreId, To
<1>4. ASSUME NEW t \in PwmTasks, StoreHandle(t)
      PROVE  Standing'
  BY <1>4 DEF StoreHandle, To
<1>5. ASSUME NEW t \in PwmTasks, Clear(t)
      PROVE  Standing'
  <2>1. \A u \in PwmTasks : pntf[u].state = Waiting => pntf'[u] = pntf[u]
    <3> DEFINE h == IF handle[entry[t]] = Free THEN t ELSE handle[entry[t]]
    <3>1. h \in PwmTasks
      BY <1>5 DEF Clear, To
    <3>2. pntf[h].state = Waiting => StateClear(pntf[h]) = pntf[h]
      BY <3>1, ClearFacts
    <3>3. pntf' = [pntf EXCEPT ![h] = StateClear(@)]
      BY <1>5 DEF Clear
    <3> HIDE DEF h
    <3> QED
      BY <3>1, <3>2, <3>3
  <2> QED
    BY <1>5, <2>1 DEF Clear, To
<1>6. ASSUME NEW t \in PwmTasks, Sleep(t)
      PROVE  Standing'
  <2>1. TakeMustBlock(pntf[t]) => TakeEnter(pntf[t]).state = Waiting
    BY TakeFacts
  <2> QED
    BY <1>6, <2>1 DEF Sleep, To
<1>7. ASSUME NEW t \in PwmTasks, TimeOut(t)
      PROVE  Standing'
  BY <1>7 DEF TimeOut, To
<1>8. ASSUME NEW t \in PwmTasks, Woken(t)
      PROVE  Standing'
  BY <1>8 DEF Woken, To
<1>9. ASSUME NEW t \in PwmTasks, Release(t)
      PROVE  Standing'
  BY <1>9 DEF Release, To
<1>10. ASSUME NEW o \in Outputs, PwmInterrupt(o)
      PROVE  Standing'
  <2>1. output' = output /\ entry' = entry
    BY <1>10 DEF PwmInterrupt
  <2>2. \A u \in PwmTasks : pntf'[u] # pntf[u] /\ ppc[u] = "blocked" => ppc'[u] = "woken"
    BY <1>10, InterruptFacts
  <2> QED
    BY <1>10, <2>1, <2>2, InterruptFacts
<1>11. CASE UNCHANGED pVars
  BY <1>11 DEF pVars
<1> QED
  BY <1>1, <1>2, <1>3, <1>4, <1>5, <1>6, <1>7, <1>8, <1>9, <1>10, <1>11
     DEF PwmNext, RunPwm

\* A task leaves its entry only when it gives it back.
LEMMA HoldersStep ==
  ASSUME PwmType, PwmType', Standing, Holders, [PwmNext]_pVars
  PROVE  Holders'
<1> USE PwmAssumption DEF PwmType, Claiming, Owning, Holders
<1>1. ASSUME NEW t \in PwmTasks, NEW o \in Outputs, WaitForInt(t, o)
      PROVE  Holders'
  BY <1>1 DEF WaitForInt, To
<1>2. ASSUME NEW t \in PwmTasks, ScanEntry(t)
      PROVE  Holders'
  <2>1. \A e \in Entries : handle[e] # t
    BY <1>2 DEF ScanEntry
  <2> QED
    BY <1>2, <2>1 DEF ScanEntry
<1>3. ASSUME NEW t \in PwmTasks, StoreId(t)
      PROVE  Holders'
  BY <1>3 DEF StoreId, To
<1>4. ASSUME NEW t \in PwmTasks, StoreHandle(t)
      PROVE  Holders'
  BY <1>4 DEF StoreHandle, To, Standing
<1>5. ASSUME NEW t \in PwmTasks, Clear(t)
      PROVE  Holders'
  BY <1>5 DEF Clear, To
<1>6. ASSUME NEW t \in PwmTasks, Sleep(t)
      PROVE  Holders'
  BY <1>6 DEF Sleep, To
<1>7. ASSUME NEW t \in PwmTasks, TimeOut(t)
      PROVE  Holders'
  BY <1>7 DEF TimeOut, To
<1>8. ASSUME NEW t \in PwmTasks, Woken(t)
      PROVE  Holders'
  BY <1>8 DEF Woken, To
<1>9. ASSUME NEW t \in PwmTasks, Release(t)
      PROVE  Holders'
  <2>1. \A e \in Entries : handle'[e] # Free => handle'[e] = handle[e] /\ handle[e] # t
    BY <1>9 DEF Release
  <2> QED
    BY <1>9, <2>1 DEF Release, To
<1>10. ASSUME NEW o \in Outputs, PwmInterrupt(o)
      PROVE  Holders'
  <2>1. handle' = handle /\ entry' = entry
    BY <1>10 DEF PwmInterrupt
  <2>2. \A u \in PwmTasks : ppc[u] \in Owning => ppc'[u] \in Owning
    BY <1>10, InterruptFacts
  <2> QED
    BY <2>1, <2>2
<1>11. CASE UNCHANGED pVars
  BY <1>11 DEF pVars
<1> QED
  BY <1>1, <1>2, <1>3, <1>4, <1>5, <1>6, <1>7, <1>8, <1>9, <1>10, <1>11
     DEF PwmNext, RunPwm

\* A task that goes past entry e leaves the holder of e behind.
LEMMA RoomStep ==
  ASSUME PwmType, PwmType', Standing, Holders, Room, [PwmNext]_pVars
  PROVE  Room'
<1> USE DEF PwmType
<1> DEFINE n == Cardinality(PwmTasks)
<1> SUFFICES ASSUME IsFiniteSet(PwmTasks), NEW e \in 0 .. n
             PROVE  Cardinality(Beyond(e)') <= n - e
  BY DEF Room
<1>1. n \in Nat
  BY FS_CardinalityType
<1>2. /\ IsFiniteSet(Beyond(e)) /\ Cardinality(Beyond(e)) \in Nat
      /\ Cardinality(Beyond(e)) <= n - e
  BY FS_Subset, FS_CardinalityType DEF Room, Beyond
<1>3. ASSUME \A u \in PwmTasks : entry'[u] = entry[u] \/ entry'[u] = 1
      PROVE  Cardinality(Beyond(e)') <= n - e
  <2>1. CASE e = 0
    <3>1. Beyond(e)' \subseteq PwmTasks
      BY DEF Beyond
    <3>2. Cardinality(Beyond(e)') <= n
      BY <3>1, FS_Subset
    <3> QED
      BY <3>2, <2>1, <1>1
  <2>2. CASE e # 0
    <3>1. Beyond(e)' \subseteq Beyond(e)
      BY <1>3, <2>2 DEF Beyond
    <3>2. Cardinality(Beyond(e)') <= Cardinality(Beyond(e)) /\ Cardinality(Beyond(e)') \in Nat
      BY <3>1, <1>2, FS_Subset, FS_CardinalityType
    <3> QED
      BY <3>2, <1>1, <1>2
  <2> QED
    BY <2>1, <2>2
<1>4. ASSUME NEW t \in PwmTasks, ScanEntry(t), entry[t] = e, entry'[t] = e + 1
      PROVE  Cardinality(Beyond(e)') <= n - e
  <2> DEFINE u == handle[e]
  <2>1. e \in Entries /\ e - 1 \in 0 .. n
    BY <1>4, <1>1, PwmAssumption DEF ScanEntry, Standing, Entries, Claiming
  <2>2. u # Free /\ u \in PwmTasks
    BY <1>4, <2>1 DEF ScanEntry
  <2>3. entry[u] = e /\ u # t
    BY <1>4, <2>1, <2>2 DEF ScanEntry, Holders, Owning
  <2>4. \A v \in PwmTasks : v # t => entry'[v] = entry[v]
    BY <1>4 DEF ScanEntry
  <2> HIDE DEF u
  <2>5. Beyond(e)' \subseteq Beyond(e - 1) \ {u} /\ u \in Beyond(e - 1)
    BY <1>4, <2>2, <2>3, <2>4 DEF Beyond
  <2>6. IsFiniteSet(Beyond(e - 1))
    BY FS_Subset DEF Beyond
  <2>7. Cardinality(Beyond(e - 1)) <= n - (e - 1) /\ Cardinality(Beyond(e - 1)) \in Nat
    BY <2>1, <2>6, FS_CardinalityType DEF Room
  <2>8. /\ Cardinality(Beyond(e - 1) \ {u}) = Cardinality(Beyond(e - 1)) - 1
        /\ IsFiniteSet(Beyond(e - 1) \ {u})
    BY <2>5, <2>6, FS_RemoveElement
  <2>9. Cardinality(Beyond(e)') <= Cardinality(Beyond(e - 1)) - 1 /\ Cardinality(Beyond(e)') \in Nat
    BY <2>5, <2>8, FS_Subset, FS_CardinalityType
  <2> QED
    BY <2>7, <2>9, <1>1
<1>5. ASSUME NEW t \in PwmTasks, ScanEntry(t), ~(entry[t] = e /\ entry'[t] = e + 1)
      PROVE  Cardinality(Beyond(e)') <= n - e
  <2>1. Beyond(e)' = Beyond(e)
    BY <1>5 DEF Beyond, ScanEntry
  <2> QED
    BY <2>1, <1>2
<1>6. ASSUME NEW t \in PwmTasks, RunPwm(t), ~ScanEntry(t)
      PROVE  \A u \in PwmTasks : entry'[u] = entry[u] \/ entry'[u] = 1
  BY <1>6 DEF RunPwm, StoreId, StoreHandle, Clear, Sleep, TimeOut, Woken, Release
<1>7. ASSUME NEW t \in PwmTasks, NEW o \in Outputs, WaitForInt(t, o)
      PROVE  entry' = entry
  BY <1>7 DEF WaitForInt
<1>8. ASSUME NEW o \in Outputs, PwmInterrupt(o)
      PROVE  entry' = entry
  BY <1>8 DEF PwmInterrupt
<1>9. UNCHANGED pVars => entry' = entry
  BY DEF pVars
<1> QED
  BY <1>3, <1>4, <1>5, <1>6, <1>7, <1>8, <1>9 DEF PwmNext

\* With an entry for every task, room means that no task is past the table.
LEMMA RoomFits ==
  ASSUME PwmType, Room, EnoughEntries
  PROVE  \A t \in PwmTasks : entry[t] \in Entries
<1> USE PwmAssumption DEF PwmType, Entries
<1> DEFINE n == Cardinality(PwmTasks)
<1>1. PICK f \in [PwmTasks -> Entries] : \A t, u \in PwmTasks : f[t] = f[u] => t = u
  BY DEF EnoughEntries
<1>2. IsFiniteSet(Entries) /\ Cardinality(Entries) = NEntries
  BY FS_Interval
<1>3. f \in Injection(PwmTasks, Entries)
  BY <1>1 DEF Injection, IsInjective
<1>4. IsFiniteSet(PwmTasks) /\ n <= NEntries /\ n \in Nat
  BY <1>2, <1>3, FS_Injection, FS_CardinalityType
<1>5. Cardinality(Beyond(n)) <= 0
  BY <1>4 DEF Room
<1>6. Beyond(n) = {}
  <2>1. IsFiniteSet(Beyond(n))
    BY <1>4, FS_Subset DEF Beyond
  <2>2. Cardinality(Beyond(n)) \in Nat
    BY <2>1, FS_CardinalityType
  <2>3. Cardinality(Beyond(n)) = 0
    BY <2>2, <1>5
  <2> QED
    BY <2>1, <2>3, FS_EmptySet
<1> QED
  BY <1>4, <1>6 DEF Beyond

LEMMA UnsmashedStep ==
  ASSUME PwmType, Room, Unsmashed, [PwmNext]_pVars
  PROVE  Unsmashed'
<1> SUFFICES ASSUME EnoughEntries, ~smashed PROVE ~smashed'
  BY DEF Unsmashed, EnoughEntries
<1>1. \A t \in PwmTasks : entry[t] \in Entries
  BY RoomFits
<1> QED
  BY <1>1 DEF PwmNext, RunPwm, WaitForInt, ScanEntry, StoreId, StoreHandle, Clear, Sleep,
     TimeOut, Woken, Release, PwmInterrupt, pVars

\* No other task waits for the output of a task that is alone with it.
LEMMA OtherOutput ==
  ASSUME Standing, NEW t \in PwmTasks, NEW u \in PwmTasks,
         Alone(t), u # t, ppc[u] # "idle"
  PROVE  output[u] # output[t]
  BY DEF Standing, Alone

\* A step that keeps every task among the claiming, the listed or the rest,
\* and the table: the first three parts.
LEMMA KeepsEntries ==
  ASSUME OneClaim, EntryIsOwn, FirstIsOwn,
         UNCHANGED <<output, entry, handle, pwmId>>,
         \A u \in PwmTasks : ppc'[u] = ppc[u] \/ (ppc[u] \in Owning /\ ppc'[u] \in Owning)
  PROVE  OneClaim' /\ EntryIsOwn' /\ FirstIsOwn'
<1>1. output' = output /\ entry' = entry /\ handle' = handle /\ pwmId' = pwmId
  OBVIOUS
<1>2. OneClaim'
  BY DEF OneClaim, Claims, Owning
<1>3. EntryIsOwn'
  BY <1>1 DEF EntryIsOwn, Listed, Owning
<1>4. FirstIsOwn'
  BY <1>1 DEF FirstIsOwn, Alone, Owning
<1> QED
  BY <1>2, <1>3, <1>4

\* The interrupt of a task that is alone with its output gives to that task.
LEMMA OwnInterrupt ==
  ASSUME PwmType, EntryIsOwn, FirstIsOwn, NEW t \in PwmTasks, Listed(t), Alone(t),
         PwmInterrupt(output[t])
  PROVE  /\ pntf' = [pntf EXCEPT ![t] = Give(@)]
         /\ Wakes(pntf[t]) /\ ppc[t] = "blocked" => ppc'[t] = "woken"
<1> DEFINE o == output[t]
           Holds(e) == pwmId[e] = o /\ \A f \in Entries : f < e => pwmId[f] # o
<1>1. entry[t] \in Entries /\ handle[entry[t]] = t /\ pwmId[entry[t]] = o
  BY DEF Listed, EntryIsOwn
<1>2. Holds(entry[t])
  BY <1>1 DEF FirstIsOwn, Listed
<1>3. \A e \in Entries : Holds(e) => e = entry[t]
  <2> SUFFICES ASSUME NEW e \in Entries, Holds(e) PROVE e = entry[t]
    OBVIOUS
  <2>1. ~(e < entry[t]) /\ ~(entry[t] < e)
    BY <1>1, <1>2
  <2>2. e \in Int /\ entry[t] \in Int
    BY <1>1, PwmAssumption DEF Entries
  <2> QED
    BY <2>1, <2>2
<1>4. t # Free
  BY PwmAssumption
<1>5. PICK e \in Entries :
         /\ Holds(e) /\ handle[e] # Free
         /\ pntf' = [pntf EXCEPT ![handle[e]] = Give(@)]
         /\ ppc' = IF Wakes(pntf[handle[e]]) /\ ppc[handle[e]] = "blocked"
                   THEN [ppc EXCEPT ![handle[e]] = "woken"] ELSE ppc
  BY <1>1, <1>2, <1>4 DEF PwmInterrupt
<1>6. handle[e] = t
  BY <1>1, <1>3, <1>5
<1> QED
  BY <1>5, <1>6 DEF PwmType

\* The parts that hold while claims have not overlapped.
LEMMA UnracedStep ==
  ASSUME PwmType, PwmType', Standing, Holders, Unraced, [PwmNext]_pVars
  PROVE  Unraced'
<1> SUFFICES ASSUME ~raced'
             PROVE  OneClaim' /\ EntryIsOwn' /\ FirstIsOwn' /\ NotForgotten'
  BY DEF Unraced
<1>0. ~raced
  BY DEF PwmNext, RunPwm, WaitForInt, ScanEntry, StoreId, StoreHandle, Clear, Sleep,
     TimeOut, Woken, Release, PwmInterrupt, pVars
<1> OneClaim /\ EntryIsOwn /\ FirstIsOwn /\ NotForgotten
  BY <1>0 DEF Unraced
<1> USE PwmAssumption DEF PwmType
<1>1. ASSUME NEW t \in PwmTasks, NEW o \in Outputs, WaitForInt(t, o)
      PROVE  OneClaim' /\ EntryIsOwn' /\ FirstIsOwn' /\ NotForgotten'
  <2>1. \A u \in PwmTasks : ~Claims(u)
    BY <1>1 DEF WaitForInt
  <2>2. /\ ppc[t] = "idle" /\ ppc'[t] = "scan" /\ entry[t] = 1
        /\ \A u \in PwmTasks : u # t => ppc'[u] = ppc[u] /\ output'[u] = output[u]
        /\ UNCHANGED <<entry, pntf, handle, pwmId, fired>>
    BY <1>1 DEF WaitForInt, To, Standing
  <2>3. OneClaim'
    BY <2>1, <2>2 DEF OneClaim, Claims
  <2>4. EntryIsOwn'
    BY <2>2 DEF EntryIsOwn, Listed
  <2>5. FirstIsOwn'
    <3>1. \A e \in Entries : ~(e < 1)
      BY DEF Entries
    <3> QED
      BY <2>2, <3>1 DEF FirstIsOwn, Alone
  <2>6. NotForgotten'
    BY <2>2 DEF NotForgotten, Listed, Alone
  <2> QED
    BY <2>3, <2>4, <2>5, <2>6
<1>2. ASSUME NEW t \in PwmTasks, ScanEntry(t)
      PROVE  OneClaim' /\ EntryIsOwn' /\ FirstIsOwn' /\ NotForgotten'
  <2>1. /\ ppc[t] = "scan" /\ ~Listed(t)' /\ ppc'[t] # "setHandle"
        /\ ppc'[t] = "setId" => handle[entry'[t]] = Free
        /\ \A u \in PwmTasks : u # t => ppc'[u] = ppc[u] /\ entry'[u] = entry[u]
        /\ UNCHANGED <<output, pntf, handle, pwmId, fired>>
    BY <1>2 DEF ScanEntry, Listed
  <2>2. OneClaim'
    BY <2>1 DEF OneClaim, Claims
  <2>3. EntryIsOwn'
    BY <2>1 DEF EntryIsOwn, Listed
  <2>4. FirstIsOwn'
    <3> SUFFICES ASSUME NEW u \in PwmTasks, Alone(u), ppc'[u] # "idle",
                        NEW e \in Entries, e < entry'[u]
                 PROVE  pwmId[e] # output[u]
      BY <2>1 DEF FirstIsOwn, Alone
    <3>1. CASE e < entry[u]
      BY <3>1, <2>1 DEF FirstIsOwn
    <3>2. CASE ~(e < entry[u])
      <4>1. u = t /\ entry[t] \in Int /\ e \in Int
        BY <3>2, <2>1 DEF Entries
      <4>2. e = entry[t] /\ handle[e] # Free
        BY <1>2, <3>2, <4>1 DEF ScanEntry
      <4> DEFINE v == handle[e]
      <4>3. v \in PwmTasks /\ entry[v] = e /\ ppc[v] \in Owning
        BY <4>2 DEF Holders
      <4>4. Listed(v) /\ v # t /\ ppc[v] # "idle"
        BY <4>3, <2>1 DEF Listed, Owning
      <4>5. pwmId[e] = output[v]
        BY <4>3, <4>4 DEF EntryIsOwn
      <4> QED
        BY <4>1, <4>3, <4>4, <4>5, OtherOutput
    <3> QED
      BY <3>1, <3>2
  <2>5. NotForgotten'
    BY <2>1 DEF NotForgotten, Listed, Alone
  <2> QED
    BY <2>2, <2>3, <2>4, <2>5
<1>3. ASSUME NEW t \in PwmTasks, StoreId(t)
      PROVE  OneClaim' /\ EntryIsOwn' /\ FirstIsOwn' /\ NotForgotten'
  <2>1. /\ ppc[t] = "setId" /\ ppc'[t] = "setHandle"
        /\ \A u \in PwmTasks : u # t => ppc'[u] = ppc[u]
        /\ pwmId' = [pwmId EXCEPT ![entry[t]] = output[t]]
        /\ UNCHANGED <<output, entry, pntf, handle, fired>>
    BY <1>3 DEF StoreId, To
  <2>2. entry[t] \in Entries /\ handle[entry[t]] = Free
    BY <2>1 DEF Standing, EntryIsOwn, Claiming
  <2>3. OneClaim'
    BY <2>1 DEF OneClaim, Claims
  <2>4. EntryIsOwn'
    <3>1. \A u \in PwmTasks : ppc'[u] \in {"setId", "setHandle"} => u = t
      BY <2>1 DEF OneClaim, Claims
    <3>2. \A u \in PwmTasks : Listed(u)' => u # t /\ Listed(u) /\ entry[u] # entry[t]
      BY <2>1, <2>2 DEF Listed, EntryIsOwn
    <3> QED
      BY <2>1, <2>2, <3>1, <3>2 DEF EntryIsOwn
  <2>5. FirstIsOwn'
    <3> SUFFICES ASSUME NEW u \in PwmTasks, Alone(u), ppc'[u] # "idle",
                        NEW e \in Entries, e < entry[u]
                 PROVE  pwmId'[e] # output[u]
      BY <2>1 DEF FirstIsOwn, Alone
    <3>1. pwmId[e] # output[u]
      BY <2>1 DEF FirstIsOwn
    <3>2. CASE e # entry[t]
      BY <2>1, <3>1, <3>2
    <3>3. CASE e = entry[t]
      <4>1. u # t
        BY <3>3
      <4>2. output[t] # output[u]
        BY <4>1, <2>1, OtherOutput
      <4> QED
        BY <2>1, <3>3, <4>2
    <3> QED
      BY <3>2, <3>3
  <2>6. NotForgotten'
    BY <2>1 DEF NotForgotten, Listed, Alone
  <2> QED
    BY <2>3, <2>4, <2>5, <2>6
<1>4. ASSUME NEW t \in PwmTasks, StoreHandle(t)
      PROVE  OneClaim' /\ EntryIsOwn' /\ FirstIsOwn' /\ NotForgotten'
  <2>1. /\ ppc[t] = "setHandle" /\ ppc'[t] = "clear" /\ ~fired'[t]
        /\ \A u \in PwmTasks : u # t => ppc'[u] = ppc[u] /\ fired'[u] = fired[u]
        /\ handle' = [handle EXCEPT ![entry[t]] = t]
        /\ UNCHANGED <<output, entry, pntf, pwmId>>
    BY <1>4 DEF StoreHandle, To
  <2>2. entry[t] \in Entries /\ handle[entry[t]] = Free /\ pwmId[entry[t]] = output[t]
    BY <2>1 DEF Standing, EntryIsOwn, Claiming
  <2>3. OneClaim'
    BY <2>1 DEF OneClaim, Claims
  <2>4. EntryIsOwn'
    <3>1. \A u \in PwmTasks : ppc'[u] \notin {"setId", "setHandle"}
      BY <2>1 DEF OneClaim, Claims
    <3>2. \A u \in PwmTasks : u # t /\ Listed(u)' => Listed(u) /\ entry[u] # entry[t]
      BY <2>1, <2>2 DEF Listed, EntryIsOwn
    <3> QED
      BY <2>1, <2>2, <3>1, <3>2 DEF EntryIsOwn, Listed
  <2>5. FirstIsOwn'
    BY <2>1 DEF FirstIsOwn, Alone
  <2>6. NotForgotten'
    BY <2>1 DEF NotForgotten, Listed, Alone
  <2> QED
    BY <2>3, <2>4, <2>5, <2>6
<1>5. ASSUME NEW t \in PwmTasks, Clear(t)
      PROVE  OneClaim' /\ EntryIsOwn' /\ FirstIsOwn' /\ NotForgotten'
  <2>1. \A u \in PwmTasks : pntf'[u].value = pntf[u].value
    <3> DEFINE h == IF handle[entry[t]] = Free THEN t ELSE handle[entry[t]]
    <3>1. h \in PwmTasks
      BY <1>5 DEF Clear, To, Standing
    <3>2. StateClear(pntf[h]).value = pntf[h].value
      BY <3>1, ClearFacts
    <3>3. pntf' = [pntf EXCEPT ![h] = StateClear(@)]
      BY <1>5 DEF Clear
    <3> HIDE DEF h
    <3> QED
      BY <3>1, <3>2, <3>3
  <2>2. /\ ppc[t] = "clear" /\ ppc'[t] = "take"
        /\ \A u \in PwmTasks : u # t => ppc'[u] = ppc[u]
        /\ UNCHANGED <<output, entry, handle, pwmId, fired>>
    BY <1>5 DEF Clear, To
  <2>3. OneClaim' /\ EntryIsOwn' /\ FirstIsOwn'
    BY <2>2, KeepsEntries DEF Owning
  <2>4. NotForgotten'
    BY <2>1, <2>2 DEF NotForgotten, Listed, Alone
  <2> QED
    BY <2>3, <2>4
<1>6. ASSUME NEW t \in PwmTasks, Sleep(t)
      PROVE  OneClaim' /\ EntryIsOwn' /\ FirstIsOwn' /\ NotForgotten'
  <2>1. /\ ppc[t] = "take" /\ ppc'[t] \in {"blocked", "woken"}
        /\ ppc'[t] = "blocked" => TakeMustBlock(pntf[t])
        /\ \A u \in PwmTasks : u # t => ppc'[u] = ppc[u] /\ pntf'[u] = pntf[u]
        /\ UNCHANGED <<output, entry, handle, pwmId, fired>>
    BY <1>6 DEF Sleep, To
  <2>2. TakeMustBlock(pntf[t]) => pntf[t].value = 0
    BY TakeFacts
  <2>3. OneClaim' /\ EntryIsOwn' /\ FirstIsOwn'
    BY <2>1, KeepsEntries DEF Owning
  <2>4. NotForgotten'
    BY <2>1, <2>2 DEF NotForgotten, Listed, Alone
  <2> QED
    BY <2>3, <2>4
<1>7. ASSUME NEW t \in PwmTasks, TimeOut(t) \/ Woken(t)
      PROVE  OneClaim' /\ EntryIsOwn' /\ FirstIsOwn' /\ NotForgotten'
  <2>1. /\ ppc[t] \in {"blocked", "woken"} /\ ppc'[t] \in {"woken", "release"}
        /\ \A u \in PwmTasks : u # t => ppc'[u] = ppc[u] /\ pntf'[u] = pntf[u]
        /\ UNCHANGED <<output, entry, handle, pwmId, fired>>
    BY <1>7 DEF TimeOut, Woken, To
  <2>2. OneClaim' /\ EntryIsOwn' /\ FirstIsOwn'
    BY <2>1, KeepsEntries DEF Owning
  <2>3. NotForgotten'
    BY <2>1 DEF NotForgotten, Listed, Alone
  <2> QED
    BY <2>2, <2>3
<1>8. ASSUME NEW t \in PwmTasks, Release(t)
      PROVE  OneClaim' /\ EntryIsOwn' /\ FirstIsOwn' /\ NotForgotten'
  <2>1. /\ ppc[t] = "release" /\ ppc'[t] = "idle"
        /\ \A u \in PwmTasks : u # t => /\ ppc'[u] = ppc[u] /\ entry'[u] = entry[u]
                                        /\ output'[u] = output[u] /\ fired'[u] = fired[u]
        /\ UNCHANGED <<pntf, pwmId>>
    BY <1>8 DEF Release, To
  <2>2. \A e \in Entries : handle'[e] = handle[e] \/ (handle'[e] = Free /\ e = entry[t])
    BY <1>8 DEF Release
  <2>3. OneClaim'
    BY <2>1 DEF OneClaim, Claims
  <2>4. EntryIsOwn'
    <3>1. \A u \in PwmTasks : Listed(u)' => u # t /\ Listed(u) /\ entry[u] \in Entries
      BY <2>1 DEF Listed
    <3>2. \A u \in PwmTasks : Listed(u)' => entry[u] # entry[t]
      <4> SUFFICES ASSUME NEW u \in PwmTasks, Listed(u)', entry[u] = entry[t]
                   PROVE  FALSE
        OBVIOUS
      <4>1. Listed(t)
        BY <2>1, <3>1 DEF Listed
      <4> QED
        BY <4>1, <3>1 DEF EntryIsOwn
    <3>3. \A u \in PwmTasks : ppc'[u] \in {"setId", "setHandle"} =>
             u # t /\ entry[u] \in Entries /\ handle[entry[u]] = Free
      BY <2>1 DEF EntryIsOwn, Standing, Claiming
    <3> QED
      BY <2>1, <2>2, <3>1, <3>2, <3>3 DEF EntryIsOwn
  <2>5. FirstIsOwn'
    BY <2>1 DEF FirstIsOwn, Alone
  <2>6. NotForgotten'
    BY <2>1 DEF NotForgotten, Listed, Alone
  <2> QED
    BY <2>3, <2>4, <2>5, <2>6
<1>9. ASSUME NEW o \in Outputs, PwmInterrupt(o)
      PROVE  OneClaim' /\ EntryIsOwn' /\ FirstIsOwn' /\ NotForgotten'
  <2>1. /\ UNCHANGED <<output, entry, handle, pwmId>>
        /\ fired' = [t \in PwmTasks |-> fired[t] \/ (Listed(t) /\ output[t] = o)]
    BY <1>9 DEF PwmInterrupt
  <2>2. \A u \in PwmTasks : ppc'[u] = ppc[u] \/ (ppc[u] = "blocked" /\ ppc'[u] = "woken")
    BY <1>9, InterruptFacts
  <2>3. OneClaim' /\ EntryIsOwn' /\ FirstIsOwn'
    BY <2>1, <2>2, KeepsEntries DEF Owning
  <2>4. NotForgotten'
    <3> SUFFICES ASSUME NEW t \in PwmTasks, Listed(t), Alone(t), fired'[t]
                 PROVE  /\ ppc'[t] \in {"clear", "take"} => pntf'[t].value # 0
                        /\ ppc'[t] # "blocked"
      BY <2>1, <2>2 DEF NotForgotten, Listed, Alone
    <3>1. Give(pntf[t]).value = 1
      BY GiveFacts
    <3>2. CASE fired[t]
      <4>1. pntf'[t] = pntf[t] \/ pntf'[t] = Give(pntf[t])
        BY <1>9, InterruptFacts
      <4> QED
        BY <2>2, <3>1, <3>2, <4>1 DEF NotForgotten
    <3>3. CASE ~fired[t]
      <4>1. output[t] = o
        BY <2>1, <3>3
      <4>2. /\ pntf' = [pntf EXCEPT ![t] = Give(@)]
            /\ Wakes(pntf[t]) /\ ppc[t] = "blocked" => ppc'[t] = "woken"
        BY <1>9, <4>1, OwnInterrupt
      <4>3. ppc[t] = "blocked" => Wakes(pntf[t])
        BY DEF Standing, Wakes
      <4> QED
        BY <2>2, <3>1, <4>2, <4>3
    <3> QED
      BY <3>2, <3>3
  <2> QED
    BY <2>3, <2>4
<1>10. CASE UNCHANGED pVars
  BY <1>10 DEF pVars, OneClaim, EntryIsOwn, FirstIsOwn, NotForgotten, Claims, Listed, Alone
<1> QED
  BY <1>1, <1>2, <1>3, <1>4, <1>5, <1>6, <1>7, <1>8, <1>9, <1>10 DEF PwmNext, RunPwm

LEMMA PwmInvInit == PwmInit => PwmInv
<1> SUFFICES ASSUME PwmInit PROVE PwmInv
  OBVIOUS
<1>1. PwmType
  BY PwmTypeInit
<1>2. Standing /\ Holders /\ Unsmashed
  BY PwmAssumption DEF PwmInit, Standing, Holders, Unsmashed, Claiming
<1>3. Room
  <2> SUFFICES ASSUME IsFiniteSet(PwmTasks), NEW e \in 0 .. Cardinality(PwmTasks)
               PROVE  Cardinality(Beyond(e)) <= Cardinality(PwmTasks) - e
    BY DEF Room
  <2>1. Cardinality(PwmTasks) \in Nat
    BY FS_CardinalityType
  <2>2. CASE e = 0
    <3>1. Beyond(e) = PwmTasks
      BY <2>2 DEF PwmInit, Beyond
    <3> QED
      BY <2>1, <2>2, <3>1
  <2>3. CASE e # 0
    <3>1. Beyond(e) = {}
      BY <2>1, <2>3 DEF PwmInit, Beyond
    <3> QED
      BY <2>1, <3>1, FS_EmptySet
  <2> QED
    BY <2>2, <2>3
<1>4. Unraced
  BY DEF PwmInit, Unraced, OneClaim, EntryIsOwn, FirstIsOwn, NotForgotten, Claims, Listed
<1> QED
  BY <1>1, <1>2, <1>3, <1>4 DEF PwmInv

LEMMA PwmInvStep == PwmInv /\ [PwmNext]_pVars => PwmInv'
<1> SUFFICES ASSUME PwmInv, [PwmNext]_pVars PROVE PwmInv'
  OBVIOUS
<1> USE DEF PwmInv
<1>1. PwmType'
  BY PwmTypeStep
<1>2. Standing' /\ Holders' /\ Room' /\ Unraced'
  BY <1>1, StandingStep, HoldersStep, RoomStep, UnracedStep
<1>3. Unsmashed'
  BY UnsmashedStep
<1> QED
  BY <1>1, <1>2, <1>3

\* efHal_pwm.c:153-187, for any number of tasks, outputs and entries: with an
\* entry for every task the table is never left and never written past, and
\* a task alone with its output is not asleep once its interrupt has come, as
\* long as claims have not overlapped.
THEOREM OwnOutputIsServed == PwmSpec => []OwnOutputServed
<1>1. PwmInv => OwnOutputServed
  <2> SUFFICES ASSUME PwmInv PROVE OwnOutputServed
    OBVIOUS
  <2>1. EnoughEntries => ~smashed /\ \A t \in PwmTasks : entry[t] \in Entries
    BY RoomFits DEF PwmInv, Unsmashed
  <2>2. ~raced => \A t \in PwmTasks :
                    ppc[t] = "blocked" /\ Listed(t) /\ Alone(t) => ~fired[t]
    BY DEF PwmInv, Unraced, NotForgotten
  <2> QED
    BY <2>1, <2>2 DEF OwnOutputServed
<1> QED
  BY PwmInvInit, PwmInvStep, <1>1, PTL DEF PwmSpec

-----------------------------------------------------------------------------
(***************************************************************************)
(* EfLeds: any LEDs and any times of the sequences.  The invariant follows *)
(* one LED through the stores of efLeds_msg and the callbacks between      *)
(* them.                                                                   *)
(***************************************************************************)

\* The type invariant.
LedsType ==
    /\ pSec \in [Leds -> Secs \cup {Null}]
    /\ secIndex \in [Leds -> Nat]
    /\ timOut \in [Leds -> Nat]
    /\ lit \in [Leds -> BOOLEAN]
    /\ mpc \in [Leds -> {"idle", "stop", "timOut", "secIndex", "pin", "pSec"}]
    /\ msg \in [Leds -> Msgs]
    /\ waited \in [Leds -> Nat]
    /\ starved \in [Leds -> BOOLEAN]

\* A location of efLeds_msg fits the message, and counts callbacks only there.
MsgAt(l) ==
    /\ mpc[l] \in {"timOut", "secIndex", "pSec"} => msg[l] \in Secs
    /\ mpc[l] = "stop" => msg[l] \in {"off", "on"}
    /\ ~Storing(l) => waited[l] = 0

\* While a new sequence is stored, the old one only counts down its first time.
Counted(l) ==
    Storing(l) =>
        /\ waited[l] <= Time[msg[l]][1]
        /\ timOut[l] <= Time[msg[l]][1]
        /\ pSec[l] # Null => timOut[l] = Time[msg[l]][1] - waited[l]
        /\ mpc[l] # "secIndex" => secIndex[l] = 0
        /\ mpc[l] = "pSec" => lit[l]

\* ON and OFF have stopped the sequence before they set the pin.
Stopped(l) == mpc[l] = "pin" /\ msg[l] \notin Secs => pSec[l] = Null

\* What LedFollows says of one LED that a sequence drives, and of one at rest.
InPhase(l) ==
    /\ msg[l] = pSec[l]
    /\ secIndex[l] \in 0 .. Len(Time[pSec[l]]) - 1
    /\ timOut[l] <= Time[pSec[l]][secIndex[l] + 1]
    /\ lit[l] <=> secIndex[l] % 2 = 0

AtRest(l) == msg[l] \in {"off", "on", "pulse"} /\ (lit[l] <=> msg[l] = "on")

Shows(l) ==
    mpc[l] = "idle" => /\ pSec[l] # Null => InPhase(l)
                       /\ pSec[l] = Null => AtRest(l)

\* All of it, for an LED whose messages have not been kept waiting.
Served(l) == ~starved[l] => Counted(l) /\ Stopped(l) /\ Shows(l)

\* The inductive invariant.
LedsInv == LedsType /\ \A l \in Leds : MsgAt(l) /\ Served(l)
-----------------------------------------------------------------------------
\* A sequence has a first time, and as many lit positions as dark ones.
LEMMA TimesAre ==
  ASSUME NEW s \in Secs
  PROVE  /\ Len(Time[s]) \in Nat /\ Len(Time[s]) >= 2 /\ Len(Time[s]) % 2 = 0
         /\ \A n \in 1 .. Len(Time[s]) : Time[s][n] \in Nat /\ Time[s][n] > 0
         /\ s # Null
<1>1. Time[s] \in Seq(Nat \ {0}) /\ Time[s] # <<>> /\ Len(Time[s]) % 2 = 0
  BY LedsAssumption
<1>2. Len(Time[s]) \in Nat /\ Len(Time[s]) # 0
  BY <1>1
<1>3. Len(Time[s]) >= 2
  <2>1. \A n \in Nat : n # 0 /\ n % 2 = 0 => n >= 2
    OBVIOUS
  <2> QED
    BY <1>1, <1>2, <2>1
<1>4. \A n \in 1 .. Len(Time[s]) : Time[s][n] \in Nat /\ Time[s][n] > 0
  <2>1. \A n \in Nat \ {0} : n > 0
    OBVIOUS
  <2> QED
    BY <1>1, <2>1
<1>5. s # Null
  BY LedsAssumption DEF Msgs
<1> QED
  BY <1>1, <1>2, <1>3, <1>4, <1>5

LEMMA FirstTime ==
  ASSUME NEW s \in Secs
  PROVE  Time[s][1] \in Nat /\ Time[s][1] > 0
<1>1. /\ Len(Time[s]) \in Nat /\ Len(Time[s]) >= 2
      /\ \A n \in 1 .. Len(Time[s]) : Time[s][n] \in Nat /\ Time[s][n] > 0
  BY TimesAre
<1>2. 1 \in 1 .. Len(Time[s])
  BY <1>1
<1> QED
  BY <1>1, <1>2

\* Whatever lies there, the callback reads a natural number.
LEMMA TimeAtFacts ==
  ASSUME NEW s \in Secs, NEW n \in Nat
  PROVE  /\ \A tm \in TimeAt(s, n) : tm \in Nat
         /\ n < Len(Time[s]) => TimeAt(s, n) = {Time[s][n + 1]} /\ Time[s][n + 1] > 0
         /\ n = Len(Time[s]) => TimeAt(s, n) = {0}
<1>1. CASE n < Len(Time[s])
  <2>1. n + 1 \in 1 .. Len(Time[s])
    BY <1>1, TimesAre
  <2>2. TimeAt(s, n) = {Time[s][n + 1]}
    BY <1>1 DEF TimeAt
  <2>3. Time[s][n + 1] \in Nat /\ Time[s][n + 1] > 0
    BY <2>1, TimesAre
  <2>4. \A tm \in TimeAt(s, n) : tm \in Nat
    BY <2>2, <2>3
  <2>5. n # Len(Time[s])
    BY <1>1, TimesAre
  <2> QED
    BY <2>2, <2>3, <2>4, <2>5
<1>2. CASE ~(n < Len(Time[s]))
  <2>1. TimeAt(s, n) \subseteq {0, 1}
    BY <1>2 DEF TimeAt
  <2>2. n = Len(Time[s]) => TimeAt(s, n) = {0}
    BY <1>2 DEF TimeAt
  <2> QED
    BY <1>2, <2>1, <2>2
<1> QED
  BY <1>1, <1>2

\* The positions of a sequence alternate.
LEMMA Alternate ==
  ASSUME NEW n \in Nat
  PROVE  (n + 1) % 2 = 0 <=> ~(n % 2 = 0)
  OBVIOUS

\* One turn of the callback's loop, from wherever it starts.
LEMMA AfterType ==
  ASSUME LedsType, NEW l \in Leds, NEW r \in After(l)
  PROVE  r.pSec \in Secs \cup {Null} /\ r.secIndex \in Nat /\ r.timOut \in Nat /\ r.lit \in BOOLEAN
<1> USE DEF LedsType
<1>1. CASE pSec[l] = Null
  BY <1>1 DEF After
<1>2. CASE pSec[l] # Null
  <2>1. pSec[l] \in Secs /\ r \in Turn(l)
    BY <1>2 DEF After
  <2>2. CASE timOut[l] > 0
    <3>1. r = [pSec |-> pSec[l], secIndex |-> secIndex[l], timOut |-> timOut[l] - 1, lit |-> lit[l]]
      BY <2>1, <2>2 DEF Turn
    <3> QED
      BY <2>1, <2>2, <3>1
  <2>3. CASE ~(timOut[l] > 0)
    <3>1. \E n \in {0, secIndex[l] + 1} : \E tm \in TimeAt(pSec[l], n) :
             r = [pSec |-> IF tm # 0 THEN pSec[l] ELSE Null,
                  secIndex |-> IF tm # 0 THEN n ELSE 0,
                  timOut |-> IF tm # 0 THEN tm ELSE timOut[l],
                  lit |-> IF tm # 0 THEN ~lit[l] ELSE lit[l]]
      BY <2>1, <2>3 DEF Turn
    <3>2. PICK n \in {0, secIndex[l] + 1} : \E tm \in TimeAt(pSec[l], n) :
             r = [pSec |-> IF tm # 0 THEN pSec[l] ELSE Null,
                  secIndex |-> IF tm # 0 THEN n ELSE 0,
                  timOut |-> IF tm # 0 THEN tm ELSE timOut[l],
                  lit |-> IF tm # 0 THEN ~lit[l] ELSE lit[l]]
      BY <3>1
    <3>3. n \in Nat /\ \A tm \in TimeAt(pSec[l], n) : tm \in Nat
      BY <2>1, TimeAtFacts
    <3>4. PICK tm \in Nat :
             r = [pSec |-> IF tm # 0 THEN pSec[l] ELSE Null,
                  secIndex |-> IF tm # 0 THEN n ELSE 0,
                  timOut |-> IF tm # 0 THEN tm ELSE timOut[l],
                  lit |-> IF tm # 0 THEN ~lit[l] ELSE lit[l]]
      BY <3>2, <3>3
    <3>5. r.pSec \in Secs \cup {Null} /\ r.secIndex \in Nat /\ r.timOut \in Nat
      BY <3>3, <3>4, <2>1
    <3>6. r.lit \in BOOLEAN
      BY <3>4
    <3> QED
      BY <3>5, <3>6
  <2> QED
    BY <2>2, <2>3
<1> QED
  BY <1>1, <1>2

\* An LED without a sequence stays as it is, and one with time left counts it.
LEMMA AfterCounts ==
  ASSUME LedsType, NEW l \in Leds, NEW r \in After(l)
  PROVE  /\ pSec[l] = Null =>
              r.pSec = Null /\ r.secIndex = secIndex[l] /\ r.timOut = timOut[l] /\ r.lit = lit[l]
         /\ pSec[l] # Null /\ timOut[l] > 0 =>
              /\ r.pSec = pSec[l] /\ r.secIndex = secIndex[l]
              /\ r.timOut = timOut[l] - 1 /\ r.lit = lit[l]
  BY DEF After, Turn

\* At the end of a time inside its sequence the LED changes and goes to the
\* next position; a sequence that repeats goes back to its first one, and a
\* pulse ends.
LEMMA AfterMoves ==
  ASSUME LedsType, NEW l \in Leds, NEW r \in After(l),
         pSec[l] # Null, ~(timOut[l] > 0), secIndex[l] \in 0 .. Len(Time[pSec[l]]) - 1
  PROVE  \/ /\ secIndex[l] + 1 < Len(Time[pSec[l]])
            /\ r.pSec = pSec[l] /\ r.secIndex = secIndex[l] + 1
            /\ r.timOut = Time[pSec[l]][secIndex[l] + 2] /\ r.lit = ~lit[l]
         \/ /\ secIndex[l] + 1 = Len(Time[pSec[l]])
            /\ r.pSec = pSec[l] /\ r.secIndex = 0
            /\ r.timOut = Time[pSec[l]][1] /\ r.lit = ~lit[l]
         \/ /\ secIndex[l] + 1 = Len(Time[pSec[l]]) /\ pSec[l] = "pulse"
            /\ r.pSec = Null /\ r.lit = lit[l]
<1> DEFINE s == pSec[l]
           n == secIndex[l] + 1
           At(k) == {[pSec |-> IF tm # 0 THEN s ELSE Null,
                   secIndex |-> IF tm # 0 THEN k ELSE 0,
                   timOut |-> IF tm # 0 THEN tm ELSE timOut[l],
                   lit |-> IF tm # 0 THEN ~lit[l] ELSE lit[l]] : tm \in TimeAt(s, k)}
<1>1. s \in Secs /\ n \in Nat /\ n <= Len(Time[s]) /\ n + 1 = secIndex[l] + 2
  BY TimesAre DEF LedsType
<1>2. r \in (IF Repeats(s) /\ 0 \in TimeAt(s, n) THEN At(0) ELSE {})
            \cup {q \in At(n) : Repeats(s) => q.pSec # Null}
  BY <1>1 DEF After, Turn
<1>3. 0 < Len(Time[s]) /\ 0 + 1 = 1
  BY <1>1, TimesAre
<1>4. CASE n < Len(Time[s])
  <2>1. TimeAt(s, n) = {Time[s][n + 1]} /\ Time[s][n + 1] > 0 /\ Time[s][n + 1] \in Nat
    BY <1>1, <1>4, TimeAtFacts
  <2>2. r \in At(n)
    BY <1>2, <2>1
  <2>3. r.pSec = s /\ r.secIndex = n /\ r.timOut = Time[s][n + 1] /\ r.lit = ~lit[l]
    BY <2>1, <2>2
  <2> QED
    BY <1>1, <1>4, <2>3
<1>5. CASE n = Len(Time[s])
  <2>1. TimeAt(s, n) = {0}
    BY <1>1, <1>5, TimeAtFacts
  <2>2. CASE Repeats(s)
    <3>1. TimeAt(s, 0) = {Time[s][1]} /\ Time[s][1] > 0 /\ Time[s][1] \in Nat
      BY <1>1, <1>3, TimeAtFacts
    <3>2. r \in At(0)
      BY <1>2, <2>1, <2>2
    <3>3. r.pSec = s /\ r.secIndex = 0 /\ r.timOut = Time[s][1] /\ r.lit = ~lit[l]
      BY <3>1, <3>2
    <3> QED
      BY <1>5, <3>3
  <2>3. CASE ~Repeats(s)
    <3>1. r \in At(n)
      BY <1>2, <2>3
    <3>2. r.pSec = Null /\ r.lit = lit[l]
      BY <2>1, <3>1
    <3> QED
      BY <1>5, <2>3, <3>2 DEF Repeats
  <2> QED
    BY <2>2, <2>3
<1> QED
  BY <1>1, <1>4, <1>5

\* What the timer's callback does to every LED.
LEMMA CallBackFacts ==
  ASSUME LedsType, CallBack, NEW l \in Leds
  PROVE  /\ mpc' = mpc /\ msg' = msg
         /\ \E r \in After(l) : /\ pSec'[l] = r.pSec /\ secIndex'[l] = r.secIndex
                               /\ timOut'[l] = r.timOut /\ lit'[l] = r.lit
         /\ starved'[l] = (starved[l] \/ (Storing(l) /\ waited[l] = Time[msg[l]][1]))
         /\ waited'[l] = IF Storing(l) /\ waited[l] < Time[msg[l]][1]
                         THEN waited[l] + 1 ELSE waited[l]
  BY DEF CallBack, LedsType

\* A step of the task that sends to l leaves the other LEDs alone.
LEMMA Untouched ==
  ASSUME NEW k \in Leds, MsgAt(k), Served(k),
         mpc'[k] = mpc[k], msg'[k] = msg[k], pSec'[k] = pSec[k], secIndex'[k] = secIndex[k],
         timOut'[k] = timOut[k], lit'[k] = lit[k], waited'[k] = waited[k], starved'[k] = starved[k]
  PROVE  MsgAt(k)' /\ Served(k)'
  BY DEF MsgAt, Served, Counted, Stopped, Shows, InPhase, AtRest, Storing

\* The invariant holds at first, and its type through every step.
LEMMA LedsBegin == LedsInit => LedsInv
  BY DEF LedsInit, LedsInv, LedsType, MsgAt, Served, Counted, Stopped, Shows, InPhase, AtRest,
     Storing, Msgs, Secs

LEMMA LedsTypeStep == LedsInv /\ [LedsNext]_lVars => LedsType'
<1> SUFFICES ASSUME LedsInv, [LedsNext]_lVars PROVE LedsType'
  OBVIOUS
<1> USE DEF LedsInv, LedsType
<1>1. ASSUME NEW l \in Leds, NEW m \in Msgs, Msg(l, m)
      PROVE  LedsType'
  BY <1>1 DEF Msg, Step
<1>2. ASSUME NEW l \in Leds, Stop(l) \/ StoreIndex(l) \/ SetPin(l)
      PROVE  LedsType'
  <2>1. CASE Stop(l) \/ StoreIndex(l)
    BY <2>1 DEF Stop, StoreIndex, Step
  <2>2. CASE SetPin(l)
    <3>1. (msg[l] # "off") \in BOOLEAN
      OBVIOUS
    <3>2. lit' \in [Leds -> BOOLEAN]
      BY <2>2, <3>1 DEF SetPin
    <3> QED
      BY <2>2, <3>2 DEF SetPin, Step
  <2> QED
    BY <1>2, <2>1, <2>2
<1>3. ASSUME NEW l \in Leds, StoreTimOut(l)
      PROVE  LedsType'
  <2>1. Time[msg[l]][1] \in Nat
    BY <1>3, FirstTime DEF StoreTimOut, Step, MsgAt
  <2> QED
    BY <1>3, <2>1 DEF StoreTimOut, Step
<1>4. ASSUME NEW l \in Leds, StoreSec(l)
      PROVE  LedsType'
  <2>1. msg[l] \in Secs
    BY <1>4 DEF StoreSec, Step, MsgAt
  <2> QED
    BY <1>4, <2>1 DEF StoreSec, Step
<1>5. CASE CallBack
  <2>1. \A l \in Leds : /\ pSec'[l] \in Secs \cup {Null} /\ secIndex'[l] \in Nat
                        /\ timOut'[l] \in Nat /\ lit'[l] \in BOOLEAN
    <3> SUFFICES ASSUME NEW l \in Leds
                 PROVE  /\ pSec'[l] \in Secs \cup {Null} /\ secIndex'[l] \in Nat
                        /\ timOut'[l] \in Nat /\ lit'[l] \in BOOLEAN
      OBVIOUS
    <3>1. PICK r \in After(l) : /\ pSec'[l] = r.pSec /\ secIndex'[l] = r.secIndex
                               /\ timOut'[l] = r.timOut /\ lit'[l] = r.lit
      BY <1>5, CallBackFacts
    <3> QED
      BY <3>1, AfterType
  <2>2. \A l \in Leds : starved'[l] \in BOOLEAN /\ waited'[l] \in Nat
    <3> SUFFICES ASSUME NEW l \in Leds
                 PROVE  starved'[l] \in BOOLEAN /\ waited'[l] \in Nat
      OBVIOUS
    <3>1. /\ starved'[l] = (starved[l] \/ (Storing(l) /\ waited[l] = Time[msg[l]][1]))
          /\ waited'[l] = IF Storing(l) /\ waited[l] < Time[msg[l]][1]
                          THEN waited[l] + 1 ELSE waited[l]
      BY <1>5, CallBackFacts
    <3>2. waited'[l] \in {waited[l], waited[l] + 1} /\ waited[l] \in Nat
      BY <3>1
    <3> QED
      BY <3>1, <3>2
  <2>3. mpc' = mpc /\ msg' = msg
    BY <1>5 DEF CallBack
  <2>4. /\ pSec' = [l \in Leds |-> pSec'[l]] /\ secIndex' = [l \in Leds |-> secIndex'[l]]
        /\ timOut' = [l \in Leds |-> timOut'[l]] /\ lit' = [l \in Leds |-> lit'[l]]
        /\ starved' = [l \in Leds |-> starved'[l]] /\ waited' = [l \in Leds |-> waited'[l]]
    BY <1>5 DEF CallBack
  <2> QED
    BY <2>1, <2>2, <2>3, <2>4
<1>6. CASE UNCHANGED lVars
  BY <1>6 DEF lVars
<1> QED
  BY <1>1, <1>2, <1>3, <1>4, <1>5, <1>6 DEF LedsNext, RunMsg

\* The steps of efLeds_msg, on the LED it is called for.
LEMMA MessageStep ==
  ASSUME LedsInv, NEW l \in Leds, RunMsg(l) \/ \E m \in Msgs : Msg(l, m)
  PROVE  MsgAt(l)' /\ Served(l)'
<1> USE DEF LedsInv, LedsType
<1>0. MsgAt(l) /\ Served(l)
  OBVIOUS
<1>1. ASSUME NEW m \in Msgs, Msg(l, m)
      PROVE  MsgAt(l)' /\ Served(l)'
  <2>1. /\ mpc[l] = "idle" /\ msg'[l] = m
        /\ mpc'[l] = IF m = pSec[l] /\ m # "heartBeat" THEN "idle"
                     ELSE IF m \in Secs THEN "timOut" ELSE "stop"
        /\ UNCHANGED <<pSec, secIndex, timOut, lit, waited, starved>>
    BY <1>1 DEF Msg, Step
  <2>2. m = pSec[l] => m # Null
    BY LedsAssumption
  <2>3. MsgAt(l)'
    BY <1>0, <2>1 DEF MsgAt, Storing, Msgs
  <2>4. Counted(l)' /\ Stopped(l)'
    BY <2>1 DEF Counted, Stopped, Storing
  <2>5. ~starved[l] => Shows(l)'
    BY <1>0, <2>1, <2>2 DEF Served, Shows, InPhase
  <2> QED
    BY <2>1, <2>3, <2>4, <2>5 DEF Served
<1>2. CASE Stop(l)
  <2>1. /\ mpc[l] = "stop" /\ mpc'[l] = "pin" /\ pSec'[l] = Null
        /\ UNCHANGED <<secIndex, timOut, lit, msg, waited, starved>>
    BY <1>2 DEF Stop, Step
  <2>2. msg[l] \notin Secs
    BY <1>0, <2>1 DEF MsgAt, Secs
  <2> QED
    BY <1>0, <2>1, <2>2 DEF MsgAt, Served, Counted, Stopped, Shows, Storing
<1>3. CASE StoreTimOut(l)
  <2>1. /\ mpc[l] = "timOut" /\ mpc'[l] = "secIndex" /\ timOut'[l] = Time[msg[l]][1]
        /\ UNCHANGED <<pSec, secIndex, lit, msg, waited, starved>>
    BY <1>3 DEF StoreTimOut, Step
  <2>2. msg[l] \in Secs /\ waited[l] = 0 /\ Time[msg[l]][1] \in Nat
    BY <1>0, <2>1, FirstTime DEF MsgAt, Storing
  <2>3. MsgAt(l)'
    BY <2>1, <2>2 DEF MsgAt, Storing
  <2>4. Counted(l)'
    <3> DEFINE n == Time[msg[l]][1]
    <3>1. n \in Nat => 0 <= n /\ n <= n /\ n = n - 0
      OBVIOUS
    <3> QED
      BY <2>1, <2>2, <3>1 DEF Counted
  <2> QED
    BY <2>1, <2>3, <2>4 DEF Served, Stopped, Shows
<1>4. CASE StoreIndex(l)
  <2>1. /\ mpc[l] = "secIndex" /\ mpc'[l] = "pin" /\ secIndex'[l] = 0
        /\ UNCHANGED <<pSec, timOut, lit, msg, waited, starved>>
    BY <1>4 DEF StoreIndex, Step
  <2>2. msg[l] \in Secs
    BY <1>0, <2>1 DEF MsgAt
  <2> QED
    BY <1>0, <2>1, <2>2 DEF MsgAt, Served, Counted, Stopped, Shows, Storing
<1>5. CASE SetPin(l)
  <2>1. /\ mpc[l] = "pin" /\ mpc'[l] = IF msg[l] \in Secs THEN "pSec" ELSE "idle"
        /\ lit'[l] = (msg[l] # "off")
        /\ UNCHANGED <<pSec, secIndex, timOut, msg, waited, starved>>
    BY <1>5 DEF SetPin, Step
  <2>2. CASE msg[l] \in Secs
    <3>1. lit'[l]
      BY <2>1, <2>2 DEF Secs
    <3> QED
      BY <1>0, <2>1, <2>2, <3>1 DEF MsgAt, Served, Counted, Stopped, Shows, Storing
  <2>3. CASE msg[l] \notin Secs
    <3>1. msg[l] \in {"off", "on"}
      BY <2>3 DEF Msgs
    <3>2. ~starved[l] => pSec[l] = Null
      BY <1>0, <2>1, <2>3 DEF Served, Stopped
    <3>3. AtRest(l)'
      BY <2>1, <3>1 DEF AtRest
    <3> QED
      BY <1>0, <2>1, <2>3, <3>1, <3>2, <3>3 DEF MsgAt, Served, Counted, Stopped, Shows, Storing
  <2> QED
    BY <2>2, <2>3
<1>6. CASE StoreSec(l)
  <2>1. /\ mpc[l] = "pSec" /\ mpc'[l] = "idle" /\ pSec'[l] = msg[l] /\ waited'[l] = 0
        /\ UNCHANGED <<secIndex, timOut, lit, msg, starved>>
    BY <1>6 DEF StoreSec, Step
  <2>2. msg[l] \in Secs /\ msg[l] # Null
    BY <1>0, <2>1, TimesAre DEF MsgAt
  <2>3. ~starved[l] => secIndex[l] = 0 /\ timOut[l] <= Time[msg[l]][1] /\ lit[l]
    BY <1>0, <2>1, <2>2 DEF Served, Counted, Storing
  <2>4. 0 \in 0 .. Len(Time[msg[l]]) - 1 /\ 0 + 1 = 1 /\ 0 % 2 = 0
    <3>1. Len(Time[msg[l]]) \in Nat /\ Len(Time[msg[l]]) >= 2
      BY <2>2, TimesAre
    <3> QED
      BY <3>1
  <2>5. ~starved[l] => InPhase(l)'
    BY <2>1, <2>3, <2>4 DEF InPhase
  <2> QED
    BY <2>1, <2>2, <2>5 DEF MsgAt, Served, Counted, Stopped, Shows, Storing
<1> QED
  BY <1>1, <1>2, <1>3, <1>4, <1>5, <1>6 DEF RunMsg

\* The callback, on any LED: one that is shown goes on in phase or comes to
\* rest, one in the middle of a message counts towards its first time.
LEMMA CallBackStep ==
  ASSUME LedsInv, CallBack, NEW l \in Leds
  PROVE  MsgAt(l)' /\ Served(l)'
<1> USE DEF LedsInv, LedsType
<1>0. MsgAt(l) /\ Served(l)
  OBVIOUS
<1>1. /\ mpc' = mpc /\ msg' = msg
      /\ starved'[l] = (starved[l] \/ (Storing(l) /\ waited[l] = Time[msg[l]][1]))
      /\ waited'[l] = IF Storing(l) /\ waited[l] < Time[msg[l]][1]
                      THEN waited[l] + 1 ELSE waited[l]
  BY CallBackFacts
<1>2. PICK r \in After(l) : /\ pSec'[l] = r.pSec /\ secIndex'[l] = r.secIndex
                           /\ timOut'[l] = r.timOut /\ lit'[l] = r.lit
  BY CallBackFacts
<1>3. MsgAt(l)'
  BY <1>0, <1>1 DEF MsgAt, Storing
<1> SUFFICES ASSUME ~starved'[l] PROVE Counted(l)' /\ Stopped(l)' /\ Shows(l)'
  BY <1>3 DEF Served
<1>4. ~starved[l] /\ ~(Storing(l) /\ waited[l] = Time[msg[l]][1])
  BY <1>1
<1>5. Counted(l) /\ Stopped(l) /\ Shows(l)
  BY <1>0, <1>4 DEF Served
<1>6. /\ pSec[l] = Null =>
              pSec'[l] = Null /\ secIndex'[l] = secIndex[l] /\ timOut'[l] = timOut[l] /\ lit'[l] = lit[l]
      /\ pSec[l] # Null /\ timOut[l] > 0 =>
              /\ pSec'[l] = pSec[l] /\ secIndex'[l] = secIndex[l]
              /\ timOut'[l] = timOut[l] - 1 /\ lit'[l] = lit[l]
  BY <1>2, AfterCounts
<1>7. Counted(l)'
  <2> SUFFICES ASSUME Storing(l) PROVE Counted(l)'
    BY <1>1 DEF Counted, Storing
  <2> DEFINE n == Time[msg[l]][1]
  <2>1. n \in Nat
    BY FirstTime DEF Storing
  <2>2. waited[l] <= n /\ waited[l] # n /\ timOut[l] <= n
    BY <1>4, <1>5 DEF Counted
  <2>3. waited'[l] = waited[l] + 1 /\ waited'[l] <= n
    BY <1>1, <2>1, <2>2
  <2>4. CASE pSec[l] = Null
    BY <1>1, <1>5, <1>6, <2>2, <2>3, <2>4 DEF Counted
  <2>5. CASE pSec[l] # Null
    <3>1. timOut[l] = n - waited[l]
      BY <1>5, <2>5 DEF Counted
    <3> HIDE DEF n
    <3>2. timOut[l] > 0 /\ timOut[l] - 1 <= n /\ timOut[l] - 1 = n - (waited[l] + 1)
      BY <2>1, <2>2, <3>1
    <3>3. /\ pSec'[l] = pSec[l] /\ secIndex'[l] = secIndex[l]
          /\ timOut'[l] = timOut[l] - 1 /\ lit'[l] = lit[l]
      BY <1>6, <2>5, <3>2
    <3>4. timOut'[l] <= n /\ timOut'[l] = n - waited'[l]
      BY <2>3, <3>2, <3>3
    <3> QED
      BY <1>1, <1>5, <2>3, <3>3, <3>4 DEF Counted, n
  <2> QED
    BY <2>4, <2>5
<1>8. Stopped(l)'
  BY <1>1, <1>5, <1>6 DEF Stopped
<1>9. Shows(l)'
  <2> SUFFICES ASSUME mpc[l] = "idle" PROVE Shows(l)'
    BY <1>1 DEF Shows
  <2>1. CASE pSec[l] = Null
    BY <1>1, <1>5, <1>6, <2>1 DEF Shows, AtRest
  <2>2. CASE pSec[l] # Null
    <3> DEFINE s == pSec[l]
    <3>1. InPhase(l) /\ s \in Secs
      BY <1>5, <2>2 DEF Shows
    <3>2. s # Null /\ Len(Time[s]) \in Nat /\ Len(Time[s]) >= 2 /\ Len(Time[s]) % 2 = 0
      BY <3>1, TimesAre
    <3>3. CASE timOut[l] > 0
      <4>1. timOut'[l] <= timOut[l] /\ timOut'[l] \in Nat
        <5>1. timOut'[l] = timOut[l] - 1 /\ timOut[l] \in Nat
          BY <1>6, <2>2, <3>3
        <5> QED
          BY <3>3, <5>1
      <4>2. Time[s][secIndex[l] + 1] \in Nat
        <5>1. secIndex[l] + 1 \in 1 .. Len(Time[s])
          BY <3>1, <3>2 DEF InPhase
        <5> QED
          BY <3>1, <5>1, TimesAre
      <4>3. timOut'[l] <= Time[s][secIndex[l] + 1]
        BY <3>1, <4>1, <4>2 DEF InPhase
      <4>4. pSec'[l] = s /\ secIndex'[l] = secIndex[l] /\ lit'[l] = lit[l]
        BY <1>6, <2>2, <3>3
      <4>5. InPhase(l)'
        BY <1>1, <3>1, <4>3, <4>4 DEF InPhase
      <4> QED
        BY <3>2, <4>4, <4>5 DEF Shows
    <3>4. CASE ~(timOut[l] > 0)
      <4>0. secIndex[l] \in 0 .. Len(Time[s]) - 1
        BY <3>1 DEF InPhase
      <4>1. secIndex[l] \in Nat /\ ((secIndex[l] + 1) % 2 = 0 <=> ~(secIndex[l] % 2 = 0))
        BY Alternate
      <4>2. \A n \in 0 .. Len(Time[s]) - 1 : Time[s][n + 1] \in Nat /\ Time[s][n + 1] <= Time[s][n + 1]
        <5> SUFFICES ASSUME NEW n \in 0 .. Len(Time[s]) - 1
                     PROVE  Time[s][n + 1] \in Nat /\ Time[s][n + 1] <= Time[s][n + 1]
          OBVIOUS
        <5>1. n + 1 \in 1 .. Len(Time[s])
          BY <3>2
        <5>2. Time[s][n + 1] \in Nat
          BY <3>1, <5>1, TimesAre
        <5> QED
          BY <5>2
      <4>3. CASE /\ secIndex[l] + 1 < Len(Time[s])
                 /\ r.pSec = s /\ r.secIndex = secIndex[l] + 1
                 /\ r.timOut = Time[s][secIndex[l] + 2] /\ r.lit = ~lit[l]
        <5>1. secIndex[l] + 1 \in 0 .. Len(Time[s]) - 1 /\ (secIndex[l] + 1) + 1 = secIndex[l] + 2
          BY <3>2, <4>1, <4>3
        <5>2. timOut'[l] <= Time[s][secIndex'[l] + 1]
          BY <1>2, <4>2, <4>3, <5>1
        <5>3. lit'[l] <=> secIndex'[l] % 2 = 0
          <6>1. lit[l] <=> secIndex[l] % 2 = 0
            BY <3>1 DEF InPhase
          <6>2. secIndex'[l] = secIndex[l] + 1 /\ lit'[l] = ~lit[l]
            BY <1>2, <4>3
          <6>3. CASE lit[l]
            BY <4>1, <6>1, <6>2, <6>3
          <6>4. CASE ~lit[l]
            BY <4>1, <6>1, <6>2, <6>4
          <6> QED
            BY <6>3, <6>4
        <5>4. InPhase(l)'
          BY <1>1, <1>2, <3>1, <4>3, <5>1, <5>2, <5>3 DEF InPhase
        <5> QED
          BY <1>2, <3>2, <4>3, <5>4 DEF Shows
      <4>4. CASE /\ secIndex[l] + 1 = Len(Time[s])
                 /\ r.pSec = s /\ r.secIndex = 0
                 /\ r.timOut = Time[s][1] /\ r.lit = ~lit[l]
        <5>1. 0 \in 0 .. Len(Time[s]) - 1 /\ 0 + 1 = 1 /\ 0 % 2 = 0
          BY <3>2
        <5>2. timOut'[l] <= Time[s][secIndex'[l] + 1]
          BY <1>2, <4>2, <4>4, <5>1
        <5>3. ~lit[l]
          BY <3>1, <3>2, <4>1, <4>4 DEF InPhase
        <5>4. lit'[l]
          BY <1>2, <4>4, <5>3
        <5>5. InPhase(l)'
          BY <1>1, <1>2, <3>1, <4>4, <5>1, <5>2, <5>4 DEF InPhase
        <5> QED
          BY <1>2, <3>2, <4>4, <5>5 DEF Shows
      <4>5. CASE /\ secIndex[l] + 1 = Len(Time[s]) /\ s = "pulse"
                 /\ r.pSec = Null /\ r.lit = lit[l]
        <5>1. ~lit[l]
          BY <3>1, <3>2, <4>1, <4>5 DEF InPhase
        <5>2. msg[l] = "pulse"
          BY <3>1, <4>5 DEF InPhase
        <5>3. AtRest(l)'
          BY <1>1, <1>2, <4>5, <5>1, <5>2 DEF AtRest
        <5> QED
          BY <1>2, <4>5, <5>3 DEF Shows
      <4> QED
        BY <2>2, <3>4, <4>0, <4>3, <4>4, <4>5, AfterMoves
    <3> QED
      BY <3>3, <3>4
  <2> QED
    BY <2>1, <2>2
<1> QED
  BY <1>7, <1>8, <1>9

\* An LED that does not move keeps its part; the one that does restores it.
LEMMA LedsStep == LedsInv /\ [LedsNext]_lVars => LedsInv'
<1> SUFFICES ASSUME LedsInv, [LedsNext]_lVars PROVE LedsInv'
  OBVIOUS
<1>1. LedsType'
  BY LedsTypeStep
<1> SUFFICES ASSUME NEW k \in Leds PROVE MsgAt(k)' /\ Served(k)'
  BY <1>1 DEF LedsInv
<1>2. ASSUME NEW l \in Leds, RunMsg(l) \/ \E m \in Msgs : Msg(l, m)
      PROVE  MsgAt(k)' /\ Served(k)'
  <2>1. CASE k = l
    BY <1>2, <2>1, MessageStep
  <2>2. CASE k # l
    <3>1. /\ mpc'[k] = mpc[k] /\ msg'[k] = msg[k] /\ pSec'[k] = pSec[k]
          /\ secIndex'[k] = secIndex[k] /\ timOut'[k] = timOut[k] /\ lit'[k] = lit[k]
          /\ waited'[k] = waited[k] /\ starved'[k] = starved[k]
      BY <1>2, <2>2 DEF RunMsg, Msg, Stop, StoreTimOut, StoreIndex, SetPin, StoreSec, Step,
         LedsInv, LedsType
    <3> QED
      BY <3>1, Untouched DEF LedsInv
  <2> QED
    BY <2>1, <2>2
<1>3. CASE CallBack
  BY <1>3, CallBackStep
<1>4. CASE UNCHANGED lVars
  <2>1. /\ mpc'[k] = mpc[k] /\ msg'[k] = msg[k] /\ pSec'[k] = pSec[k]
        /\ secIndex'[k] = secIndex[k] /\ timOut'[k] = timOut[k] /\ lit'[k] = lit[k]
        /\ waited'[k] = waited[k] /\ starved'[k] = starved[k]
    BY <1>4 DEF lVars
  <2> QED
    BY <2>1, Untouched DEF LedsInv
<1> QED
  BY <1>2, <1>3, <1>4 DEF LedsNext

\* efLeds.c:118-153, :184-238: whatever the sequences, an LED between messages
\* shows the last one it was sent, unless a message was kept waiting.
THEOREM LedShowsMessage == LedsSpec => []LedFollows
<1>1. LedsInv => LedFollows
  BY DEF LedsInv, LedsType, LedFollows, Served, Shows, InPhase, AtRest
<1> QED
  BY LedsBegin, LedsStep, <1>1, PTL DEF LedsSpec

-----------------------------------------------------------------------------
(***************************************************************************)
(* Mma8451: any tasks, any rates, and transfers that may fail or not.      *)
(***************************************************************************)

\* The locations without the mutex and with it, and the functions of the driver.
Outside      == {"idle", "loadRate", "storeRate", "copy", "take"}
Held      == {"assign", "test", "loadLow", "storeLow", "sendLow", "data",
              "loadHigh", "storeHigh", "sendHigh", "give"}
Functions == {"setDataRate", "setCtrlReg1", "setCtrlReg45", "getAccIntCount"}
Lows      == {"loadLow", "storeLow", "sendLow"}
Writes1   == {"setDataRate", "setCtrlReg1"}

\* The type invariant.
AccType ==
    /\ reg1 \in Regs1 /\ chip1 \in Regs1 /\ xMutexAcc \in Callers \cup {Nobody}
    /\ apc \in [Callers -> Outside \cup Held]
    /\ call \in [Callers -> Functions \cup {"none"}]
    /\ reg \in [Callers -> Regs1] /\ tmp \in [Callers -> Regs1]
    /\ prevActive \in [Callers -> BOOLEAN]
    /\ asked \in BOOLEAN /\ disturbed \in BOOLEAN /\ failed \in BOOLEAN

\* The mutex is held where it should be, and a location fits its function.
Located ==
    \A t \in Callers :
        /\ apc[t] \in Held => xMutexAcc = t
        /\ apc[t] = "idle" => call[t] = "none"
        /\ apc[t] \in {"loadRate", "storeRate", "copy"} => call[t] = "setDataRate"
        /\ apc[t] = "take" => call[t] \in Functions
        /\ apc[t] = "assign" => call[t] \in Writes1
        /\ apc[t] \in Held \ {"assign", "give"} => call[t] \in Functions \ {"getAccIntCount"}
        /\ apc[t] \in Lows => prevActive[t] = TRUE

(***************************************************************************)
(* Task t has a transfer of CTRL_REG1 ahead of it that makes good for what *)
(* it has done, or is about to do, to the copy.                            *)
(***************************************************************************)
Owes(t) ==
    \/ apc[t] \in {"copy", "assign"}
    \/ apc[t] = "take" /\ call[t] = "setDataRate"
    \/ apc[t] \in {"loadLow", "storeLow", "sendLow", "loadHigh", "storeHigh", "sendHigh"}
    \/ apc[t] = "data" /\ prevActive[t]
    \/ apc[t] \in {"test", "data"} /\ call[t] \in Writes1

\* The last transfer of t, if it is the parameter that goes out, and not reg1.
LastIsParameter(t) ==
    /\ call[t] \in Writes1
    /\ apc[t] = "test" \/ (apc[t] = "data" /\ ~prevActive[t])

\* Who owes nothing leaves the sensor with what the copy holds.
Debts ==
    ~failed =>
        /\ (\A t \in Callers : ~Owes(t)) => chip1 = reg1
        /\ \A t \in Callers : LastIsParameter(t) =>
               reg1 = reg[t] \/ \E u \in Callers \ {t} : Owes(u)

\* The inductive invariant of the first theorem.
AccInv == AccType /\ Located /\ Debts

-----------------------------------------------------------------------------
\* It holds at first; Located through every step, with the type.
LEMMA InvInit == AccInit => AccInv
  <1> SUFFICES ASSUME AccInit PROVE AccInv
    OBVIOUS
  <1> USE AccAssumption DEF AccInit, AccAssumption
  <1>1. Reset \in Regs1
    BY DEF Reset, Regs1
  <1>2. AccType
    BY <1>1 DEF AccType, Outside
  <1>3. Located /\ Debts
    BY DEF Located, Held, Lows, Debts, LastIsParameter
  <1> QED
    BY <1>2, <1>3 DEF AccInv

\* The types and the locations, step by step.
LEMMA LocatedStep == AccType /\ Located /\ [AccNext]_aVars => AccType' /\ Located'
  <1> SUFFICES ASSUME AccType, Located, [AccNext]_aVars PROVE AccType' /\ Located'
    OBVIOUS
  <1> USE AccAssumption DEF AccAssumption, AccType, Located, Outside, Held, Functions,
          Writes1, Lows, Move, shared, locals
  <1>0. Reset \in Regs1
    BY DEF Reset, Regs1
  <1>1. ASSUME NEW t \in Callers, NEW rate \in Rates, SetDataRate(t, rate)
        PROVE  AccType' /\ Located'
    <2>1. reg' \in [Callers -> Regs1]
      BY <1>1 DEF SetDataRate, Regs1
    <2> QED BY <1>1, <2>1 DEF SetDataRate, Begin
  <1>2. ASSUME NEW t \in Callers, NEW value \in Regs1, SetCtrlReg1(t, value)
        PROVE  AccType' /\ Located'
    BY <1>2 DEF SetCtrlReg1, Begin
  <1>3. ASSUME NEW t \in Callers, SetCtrlReg45(t) \/ GetAccIntCount(t)
        PROVE  AccType' /\ Located'
    <2>1. CASE SetCtrlReg45(t)
      BY <2>1 DEF SetCtrlReg45, Begin
    <2>2. CASE GetAccIntCount(t)
      BY <2>2 DEF GetAccIntCount, Begin
    <2> QED BY <1>3, <2>1, <2>2
  <1>4. ASSUME NEW t \in Callers, LoadRate(t)
        PROVE  AccType' /\ Located'
    <2>1. tmp' \in [Callers -> Regs1]
      BY <1>4 DEF LoadRate, Regs1
    <2> QED BY <1>4, <2>1 DEF LoadRate
  <1>5. ASSUME NEW t \in Callers, StoreRate(t) \/ Copy(t) \/ Assign(t)
        PROVE  AccType' /\ Located'
    <2>1. CASE StoreRate(t)
      BY <2>1 DEF StoreRate
    <2>2. CASE Copy(t)
      BY <2>2 DEF Copy
    <2>3. CASE Assign(t)
      <3>1. reg[t].ACTIVE \in BOOLEAN
        BY DEF Regs1
      <3>2. asked' \in BOOLEAN
        BY <2>3, <3>1, Zenon DEF Assign
      <3> QED BY <2>3, <3>2 DEF Assign
    <2> QED BY <1>5, <2>1, <2>2, <2>3
  <1>6. ASSUME NEW t \in Callers, Take(t)
        PROVE  AccType' /\ Located'
    BY <1>6 DEF Take
  <1>7. ASSUME NEW t \in Callers, Test(t)
        PROVE  AccType' /\ Located'
    <2>1. reg1.ACTIVE \in BOOLEAN
      BY DEF Regs1
    <2> QED BY <1>7, <2>1 DEF Test
  <1>8. ASSUME NEW t \in Callers, Lower(t) \/ Raise(t)
        PROVE  AccType' /\ Located'
    <2>1. \A b \in BOOLEAN : [reg1 EXCEPT !.ACTIVE = b] \in Regs1
      BY DEF Regs1
    <2>2. ASSUME NEW from \in Held, NEW to \in Held \ {"assign"}, NEW b \in BOOLEAN,
                 from \notin {"assign", "give"}, to \in Lows => from \in Lows,
                 LoadActive(t, from, to, b)
          PROVE  AccType' /\ Located'
      BY <2>1, <2>2 DEF LoadActive
    <2>3. ASSUME NEW from \in Held, NEW to \in Held \ {"assign"},
                 from \notin {"assign", "give"}, to \in Lows => from \in Lows,
                 StoreActive(t, from, to)
          PROVE  AccType' /\ Located'
      BY <2>3 DEF StoreActive
    <2>4. ASSUME NEW from \in Held, NEW to \in Held \ {"assign"},
                 from \notin {"assign", "give"}, to \in Lows => from \in Lows,
                 SendReg1(t, from, to)
          PROVE  AccType' /\ Located'
      <3>1. failed' \in BOOLEAN
        <4>1. failed \in BOOLEAN
          OBVIOUS
        <4> HIDE DEF AccType, Located
        <4> QED BY <2>4, <4>1, Zenon DEF SendReg1, Send
      <3>2. chip1' \in Regs1
        BY <2>4 DEF SendReg1, Send
      <3> QED BY <2>4, <3>1, <3>2 DEF SendReg1
    <2> QED BY <1>8, <2>2, <2>3, <2>4 DEF Lower, Raise
  <1>9. ASSUME NEW t \in Callers, SendData(t) \/ GiveMutex(t)
        PROVE  AccType' /\ Located'
    <2>1. CASE SendData(t)
      <3>1. /\ chip1' = chip1 \/ chip1' = reg[t]
            /\ failed' = failed \/ failed' = TRUE
        BY <2>1, Zenon DEF SendData, Send
      <3>2. apc' = [apc EXCEPT ![t] = IF prevActive[t] THEN "loadHigh" ELSE "give"]
            /\ apc[t] = "data" /\ UNCHANGED <<reg1, xMutexAcc, locals, asked, disturbed>>
        BY <2>1, Zenon DEF SendData
      <3>3. failed' \in BOOLEAN
        <4>1. failed \in BOOLEAN
          OBVIOUS
        <4> HIDE DEF AccType, Located
        <4> QED BY <3>1, <4>1, Zenon
      <3>4. chip1' \in Regs1
        BY <3>1
      <3>5. AccType'
        BY <3>2, <3>3, <3>4, SMT
      <3>6. Located'
        BY <3>2, SMT
      <3> QED BY <3>5, <3>6, Zenon
    <2>2. CASE GiveMutex(t)
      <3>1. AccType'
        BY <2>2, <1>0, SMT DEF GiveMutex
      <3>2. Located'
        <4>1. xMutexAcc = t /\ apc' = [apc EXCEPT ![t] = "idle"]
              /\ call' = [call EXCEPT ![t] = "none"]
          BY <2>2 DEF GiveMutex
        <4>2. \A u \in Callers \ {t} :
                 apc[u] \notin Held /\ apc'[u] = apc[u] /\ call'[u] = call[u]
          BY <4>1
        <4>3. apc'[t] = "idle" /\ call'[t] = "none"
          BY <4>1
        <4> QED BY <4>2, <4>3
      <3> QED BY <3>1, <3>2, Zenon
    <2> QED BY <1>9, <2>1, <2>2
  <1>10. CASE UNCHANGED aVars
    BY <1>10 DEF aVars
  <1> QED
    BY <1>1, <1>2, <1>3, <1>4, <1>5, <1>6, <1>7, <1>8, <1>9, <1>10 DEF AccNext, RunAcc

-----------------------------------------------------------------------------
(***************************************************************************)
(* Of two tasks only one is inside the mutex, so what the last transfer of *)
(* a task does to the sensor is not undone by another's.                   *)
(***************************************************************************)
LEMMA OneHolder ==
  ASSUME AccType, Located, NEW t \in Callers, apc[t] \in Held
  PROVE  \A u \in Callers \ {t} : apc[u] \in Outside
  BY DEF AccType, Located, Held, Outside

\* A step of t that leaves it in debt, and the copy changed by nobody else's.
LEMMA StillOwing ==
  ASSUME AccType, Located, AccType', Debts, NEW t \in Callers,
         \A u \in Callers \ {t} : apc'[u] = apc[u] /\ call'[u] = call[u]
                   /\ reg'[u] = reg[u] /\ prevActive'[u] = prevActive[u],
         Owes(t)', ~LastIsParameter(t)' \/ reg1' = reg'[t],
         failed => failed'
  PROVE  Debts'
  <1>1. \A u \in Callers \ {t} : LastIsParameter(u)' => t \in Callers \ {u}
    OBVIOUS
  <1> QED BY <1>1 DEF Debts

\* A step of t that has no debt before and after it, and changes neither the
\* copy nor the sensor.
LEMMA NothingOwed ==
  ASSUME AccType, Located, AccType', Debts, NEW t \in Callers,
         \A u \in Callers \ {t} : apc'[u] = apc[u] /\ call'[u] = call[u]
                   /\ reg'[u] = reg[u] /\ prevActive'[u] = prevActive[u],
         ~Owes(t), ~Owes(t)', UNCHANGED <<reg1, chip1>>, failed => failed'
  PROVE  Debts'
  <1>1. \A u \in Callers : Owes(u)' <=> Owes(u)
    BY DEF Owes
  <1>2. \A u \in Callers : LastIsParameter(u)' => LastIsParameter(u) /\ reg'[u] = reg[u]
    BY DEF LastIsParameter, Owes
  <1> QED BY <1>1, <1>2 DEF Debts

\* A step that ends the debt of t with a transfer of what the copy holds.
LEMMA Settled ==
  ASSUME AccType, Located, AccType', Debts, NEW t \in Callers, apc[t] \in Held,
         \A u \in Callers \ {t} : apc'[u] = apc[u],
         ~Owes(t)',
         ~failed' => chip1' = reg1' \/ \E u \in Callers \ {t} : Owes(u)'
  PROVE  Debts'
  <1>1. \A u \in Callers \ {t} : apc'[u] \in Outside
    BY OneHolder
  <1>2. \A u \in Callers : ~LastIsParameter(u)'
    BY <1>1 DEF LastIsParameter, Owes, Outside
  <1> QED BY <1>2 DEF Debts

LEMMA DebtsStep == AccInv /\ [AccNext]_aVars => Debts'
  <1> SUFFICES ASSUME AccInv, [AccNext]_aVars PROVE Debts'
    OBVIOUS
  <1>0. AccType /\ Located /\ Debts /\ AccType' /\ Located'
    BY LocatedStep DEF AccInv
  <1> USE <1>0
  <1>1. ASSUME NEW t \in Callers, NEW rate \in Rates, SetDataRate(t, rate)
        PROVE  Debts'
    <2>1. ~Owes(t) /\ ~Owes(t)'
      BY <1>1 DEF SetDataRate, Owes, Move, AccType
    <2> QED BY <1>1, <2>1, NothingOwed DEF SetDataRate, Move, AccType, shared, Begin
  <1>2. ASSUME NEW t \in Callers, NEW value \in Regs1, SetCtrlReg1(t, value)
        PROVE  Debts'
    <2>1. ~Owes(t) /\ ~Owes(t)'
      BY <1>2 DEF SetCtrlReg1, Owes, Move, AccType, Begin
    <2> QED BY <1>2, <2>1, NothingOwed DEF SetCtrlReg1, Move, AccType, shared, Begin
  <1>3. ASSUME NEW t \in Callers, NEW name \in {"setCtrlReg45", "getAccIntCount"},
               Move(t, "idle", "take"), Begin(t, name),
               UNCHANGED <<shared, reg, prevActive, failed>>
        PROVE  Debts'
    <2>1. ~Owes(t) /\ ~Owes(t)'
      BY <1>3 DEF Owes, Move, AccType, Begin
    <2> QED BY <1>3, <2>1, NothingOwed DEF Move, AccType, shared, Begin
  <1>4. ASSUME NEW t \in Callers, LoadRate(t)
        PROVE  Debts'
    <2>1. ~Owes(t) /\ ~Owes(t)'
      BY <1>4 DEF LoadRate, Owes, Move, AccType
    <2> QED BY <1>4, <2>1, NothingOwed DEF LoadRate, Move, AccType, shared
  <1>5. ASSUME NEW t \in Callers, StoreRate(t)
        PROVE  Debts'
    <2>1. Owes(t)' /\ ~LastIsParameter(t)'
      BY <1>5 DEF StoreRate, Owes, LastIsParameter, Move, AccType
    <2> QED BY <1>5, <2>1, StillOwing DEF StoreRate, Move, AccType, locals
  <1>6. ASSUME NEW t \in Callers, Copy(t)
        PROVE  Debts'
    <2>1. Owes(t)' /\ ~LastIsParameter(t)'
      BY <1>6 DEF Copy, Owes, LastIsParameter, Move, AccType, Located
    <2> QED BY <1>6, <2>1, StillOwing DEF Copy, Move, AccType
  <1>7. ASSUME NEW t \in Callers, Take(t)
        PROVE  Debts'
    <2>1. CASE call[t] \in Writes1
      <3>1. apc'[t] = "assign"
        BY <1>7, <2>1 DEF Take, Move, AccType, Writes1
      <3>2. Owes(t)' /\ ~LastIsParameter(t)'
        BY <3>1 DEF Owes, LastIsParameter
      <3> QED BY <1>7, <3>2, StillOwing DEF Take, Move, AccType, locals
    <2>2. CASE call[t] \notin Writes1
      <3>1. apc[t] = "take" /\ apc'[t] \in {"test", "give"} /\ call'[t] = call[t]
        BY <1>7, <2>2 DEF Take, Move, AccType, Writes1, Located, Functions, locals
      <3>2. ~Owes(t) /\ ~Owes(t)'
        BY <2>2, <3>1 DEF Owes, Writes1
      <3> QED BY <1>7, <3>2, NothingOwed DEF Take, Move, AccType, locals
    <2> QED BY <2>1, <2>2
  <1>8. ASSUME NEW t \in Callers, Assign(t)
        PROVE  Debts'
    <2>1. Owes(t)' /\ reg1' = reg'[t]
      BY <1>8 DEF Assign, Owes, Move, AccType, locals, Located
    <2> QED BY <1>8, <2>1, StillOwing DEF Assign, Move, AccType, locals
  <1>9. ASSUME NEW t \in Callers, Test(t)
        PROVE  Debts'
    <2> USE <1>9
    <2>1. CASE reg1.ACTIVE
      <3>1. Owes(t)' /\ ~LastIsParameter(t)'
        BY <2>1 DEF Test, Owes, LastIsParameter, Move, AccType
      <3> QED BY <3>1, StillOwing DEF Test, Move, AccType, locals
    <2>2. CASE ~reg1.ACTIVE
      <3>1. apc[t] = "test" /\ apc'[t] = "data" /\ ~prevActive'[t]
            /\ call'[t] = call[t] /\ reg'[t] = reg[t]
        BY <2>2 DEF Test, Move, AccType
      <3>2. \A u \in Callers : Owes(u)' <=> Owes(u)
        BY <3>1 DEF Owes, Test, Move, AccType
      <3>3. \A u \in Callers : LastIsParameter(u)' => LastIsParameter(u) /\ reg'[u] = reg[u]
        BY <3>1 DEF LastIsParameter, Test, Move, AccType
      <3> QED BY <3>2, <3>3 DEF Debts, Test, shared
    <2> QED BY <2>1, <2>2
  <1>10. ASSUME NEW t \in Callers, Lower(t) \/ Raise(t)
         PROVE  Debts'
    <2>1. ASSUME NEW from, NEW to \in {"storeLow", "storeHigh"}, NEW b,
                 LoadActive(t, from, to, b)
          PROVE  Debts'
      <3>1. Owes(t)' /\ ~LastIsParameter(t)'
        BY <2>1 DEF LoadActive, Owes, LastIsParameter, Move, AccType
      <3> QED BY <2>1, <3>1, StillOwing DEF LoadActive, Move, AccType
    <2>2. ASSUME NEW from, NEW to \in {"sendLow", "sendHigh"}, StoreActive(t, from, to)
          PROVE  Debts'
      <3>1. Owes(t)' /\ ~LastIsParameter(t)'
        BY <2>2 DEF StoreActive, Owes, LastIsParameter, Move, AccType
      <3> QED BY <2>2, <3>1, StillOwing DEF StoreActive, Move, AccType, locals
    <2>3. CASE SendReg1(t, "sendLow", "data")
      <3>1. Owes(t)' /\ ~LastIsParameter(t)'
        BY <2>3 DEF SendReg1, Owes, LastIsParameter, Move, AccType, Located, Lows, locals
      <3>2. failed => failed'
        BY <2>3, Zenon DEF SendReg1, Send
      <3> QED BY <2>3, <3>1, <3>2, StillOwing DEF SendReg1, Move, AccType, locals
    <2>4. CASE SendReg1(t, "sendHigh", "give")
      <3>1. apc[t] \in Held /\ ~Owes(t)'
        BY <2>4 DEF SendReg1, Owes, Move, AccType, Held
      <3>2. ~failed' => chip1' = reg1'
        BY <2>4, Zenon DEF SendReg1, Send
      <3> QED BY <2>4, <3>1, <3>2, Settled DEF SendReg1, Move, AccType
    <2> QED BY <1>10, <2>1, <2>2, <2>3, <2>4 DEF Lower, Raise
  <1>11. ASSUME NEW t \in Callers, SendData(t)
         PROVE  Debts'
    <2>0. (failed => failed') /\ (call[t] # "setCtrlReg45" /\ ~failed' => chip1' = reg[t])
          /\ (call[t] = "setCtrlReg45" => chip1' = chip1)
      BY <1>11, Zenon DEF SendData, Send
    <2>1. CASE prevActive[t]
      <3>1. Owes(t)' /\ ~LastIsParameter(t)'
        BY <1>11, <2>1 DEF SendData, Owes, LastIsParameter, Move, AccType
      <3> QED BY <1>11, <2>0, <3>1, StillOwing DEF SendData, Move, AccType, locals
    <2>2. CASE ~prevActive[t] /\ call[t] = "setCtrlReg45"
      <3>1. ~Owes(t) /\ ~Owes(t)'
        BY <1>11, <2>2 DEF SendData, Owes, Move, AccType, Writes1
      <3> QED BY <1>11, <2>0, <2>2, <3>1, NothingOwed DEF SendData, Move, AccType, locals
    <2>3. CASE ~prevActive[t] /\ call[t] # "setCtrlReg45"
      <3>1. apc[t] \in Held /\ ~Owes(t)'
        BY <1>11, <2>3 DEF SendData, Owes, Move, AccType, Held
      <3>2. LastIsParameter(t)
        BY <1>11, <2>3 DEF SendData, Move, LastIsParameter, AccType, Located, Held,
              Functions, Writes1
      <3>3. ~failed' => reg1' = reg[t] \/ \E u \in Callers \ {t} : Owes(u)
        BY <1>11, <2>0, <3>2 DEF Debts, SendData
      <3>4. \A u \in Callers \ {t} : Owes(u)' <=> Owes(u)
        BY <1>11 DEF SendData, Owes, Move, AccType, locals
      <3> QED BY <1>11, <2>0, <2>3, <3>1, <3>3, <3>4, Settled DEF SendData, Move, AccType
    <2> QED BY <2>1, <2>2, <2>3
  <1>12. ASSUME NEW t \in Callers, GiveMutex(t)
         PROVE  Debts'
    <2>1. ~Owes(t) /\ ~Owes(t)'
      BY <1>12 DEF GiveMutex, Owes, Move, AccType
    <2> QED BY <1>12, <2>1, NothingOwed DEF GiveMutex, Move, AccType
  <1>13. CASE UNCHANGED aVars
    BY <1>13 DEF aVars, shared, locals, Debts, Owes, LastIsParameter
  <1> QED
    <2>1. ASSUME NEW t \in Callers, SetCtrlReg45(t) \/ GetAccIntCount(t) PROVE Debts'
      BY <1>3, <2>1 DEF SetCtrlReg45, GetAccIntCount
    <2> QED
      BY <1>1, <1>2, <2>1, <1>4, <1>5, <1>6, <1>7, <1>8, <1>9, <1>10, <1>11, <1>12, <1>13
         DEF AccNext, RunAcc

LEMMA InvHolds == AccSpec => []AccInv
  <1>1. AccInv /\ [AccNext]_aVars => AccInv'
    BY LocatedStep, DebtsStep DEF AccInv
  <1> QED
    BY InvInit, <1>1, PTL DEF AccSpec

(***************************************************************************)
(* When every call of the accelerometer driver has returned and no         *)
(* transfer has failed, the sensor's CTRL_REG1 is what mma8451.c keeps in  *)
(* reg1, however the calls of setDataRate have raced with the others.      *)
(***************************************************************************)
THEOREM CopyStaysTrue == AccSpec => []CopyIsTrue
  <1>1. AccInv => CopyIsTrue
    <2> SUFFICES ASSUME AccInv, \A t \in Callers : apc[t] = "idle", ~failed
                 PROVE  chip1 = reg1
      BY DEF CopyIsTrue
    <2>1. \A t \in Callers : ~Owes(t)
      BY DEF Owes
    <2> QED BY <2>1 DEF AccInv, Debts
  <1> QED
    BY InvHolds, <1>1, PTL

-----------------------------------------------------------------------------
(***************************************************************************)
(* While no call overlaps a setDataRate, the bit ACTIVE goes round with    *)
(* the task that is in the mutex; Phase says where the copy, the sensor    *)
(* and the task's locals have it at each location.                         *)
(***************************************************************************)
Phase(t) ==
    /\ apc[t] \in {"loadRate", "storeRate", "copy", "assign"} => chip1.ACTIVE = asked
    /\ apc[t] \in {"loadRate", "storeRate", "copy"} => reg1.ACTIVE = asked
    /\ apc[t] = "storeRate" => tmp[t].ACTIVE = asked
    /\ apc[t] \in {"take", "assign"} /\ call[t] = "setDataRate" => reg[t].ACTIVE = asked
    /\ apc[t] \in {"test", "loadLow", "give"} => reg1.ACTIVE = asked
    /\ apc[t] \in {"test", "data"} \cup Lows /\ call[t] \in Writes1 => reg[t].ACTIVE = asked
    /\ apc[t] \in {"test", "data"} /\ call[t] = "setCtrlReg45" =>
           chip1.ACTIVE = IF apc[t] = "test" THEN asked ELSE FALSE
    /\ apc[t] \in Lows \cup {"loadHigh", "storeHigh", "sendHigh"} => asked = TRUE
    /\ apc[t] = "storeLow" => tmp[t].ACTIVE = FALSE
    /\ apc[t] = "sendLow" => reg1.ACTIVE = FALSE
    /\ apc[t] = "data" =>
           IF prevActive[t] THEN chip1.ACTIVE = FALSE /\ asked = TRUE
                            ELSE reg1.ACTIVE = asked /\ asked = FALSE
    /\ apc[t] = "storeHigh" => tmp[t].ACTIVE = TRUE
    /\ apc[t] = "sendHigh" => reg1.ACTIVE = TRUE
    /\ apc[t] = "give" => chip1.ACTIVE = asked

\* A call of setDataRate that nothing overlaps is alone.
RateAlone ==
    \A t, u \in Callers :
        t # u /\ call[t] = "setDataRate" => apc[u] = "idle"

\* The bit is where it was asked to be when nobody is in the mutex.
Standby ==
    ~disturbed /\ ~failed =>
        /\ RateAlone
        /\ \A t \in Callers : Phase(t)
        /\ (\A t \in Callers : apc[t] \in {"idle", "take"}) =>
               chip1.ACTIVE = asked /\ reg1.ACTIVE = asked

LEMMA StandbyInit == AccInit => Standby
  BY DEF AccInit, Standby, RateAlone, Phase, Lows, Reset

(***************************************************************************)
(* While a task is in the mutex, or in setDataRate, the others are idle or *)
(* wait for the mutex in a function that has changed nothing yet, and      *)
(* Phase says nothing of them.                                             *)
(***************************************************************************)
Calm(t) ==
    \A u \in Callers \ {t} :
        apc[u] = "idle" \/ (apc[u] = "take" /\ call[u] # "setDataRate")

LEMMA OthersCalm ==
  ASSUME AccType, Located, RateAlone, NEW t \in Callers,
         apc[t] \in Held \/ (call[t] = "setDataRate" /\ apc[t] # "idle")
  PROVE  Calm(t)
  <1> SUFFICES ASSUME NEW u \in Callers \ {t}
               PROVE  apc[u] = "idle" \/ (apc[u] = "take" /\ call[u] # "setDataRate")
    BY DEF Calm
  <1>1. apc[t] # "idle"
    BY DEF Held
  <1>2. call[u] # "setDataRate"
    BY <1>1 DEF RateAlone
  <1>3. CASE apc[t] \in Held
    BY <1>2, <1>3, OneHolder DEF Outside, Located
  <1>4. CASE call[t] = "setDataRate"
    BY <1>4 DEF RateAlone
  <1> QED BY <1>3, <1>4

\* What is left to show of a step of such a task.
LEMMA OnlyItsPhase ==
  ASSUME AccType, Located, Standby, NEW t \in Callers,
         RateAlone => Calm(t),
         disturbed' = disturbed, failed => failed', call' = call,
         \A u \in Callers \ {t} : apc'[u] = apc[u],
         apc[t] # "idle", apc'[t] # "idle",
         ~disturbed /\ ~failed /\ ~failed' /\ apc'[t] = "take" =>
             chip1'.ACTIVE = asked' /\ reg1'.ACTIVE = asked',
         ~disturbed /\ ~failed /\ ~failed' => Phase(t)'
  PROVE  Standby'
  <1> SUFFICES ASSUME ~disturbed', ~failed'
               PROVE  /\ RateAlone' /\ \A u \in Callers : Phase(u)'
                      /\ (\A u \in Callers : apc'[u] \in {"idle", "take"}) =>
                             chip1'.ACTIVE = asked' /\ reg1'.ACTIVE = asked'
    BY DEF Standby
  <1>1. RateAlone
    BY DEF Standby
  <1>2. RateAlone'
    BY <1>1 DEF RateAlone
  <1>3. \A u \in Callers \ {t} : Phase(u)'
    BY <1>1 DEF Calm, Phase, Lows
  <1> QED BY <1>2, <1>3

\* Beginning a call.
LEMMA BeginStep ==
  ASSUME AccType, Located, Standby, NEW t \in Callers, NEW name \in Functions,
         NEW to \in {"loadRate", "take"},
         to = "loadRate" <=> name = "setDataRate",
         Move(t, "idle", to), Begin(t, name),
         UNCHANGED <<shared, tmp, prevActive, asked, failed>>,
         \A u \in Callers \ {t} : reg'[u] = reg[u]
  PROVE  Standby'
  <1> SUFFICES ASSUME ~disturbed', ~failed'
               PROVE  /\ RateAlone' /\ \A u \in Callers : Phase(u)'
                      /\ (\A u \in Callers : apc'[u] \in {"idle", "take"}) =>
                             chip1'.ACTIVE = asked' /\ reg1'.ACTIVE = asked'
    BY DEF Standby
  <1>1. ~disturbed /\ ~failed
        /\ \A u \in Callers \ {t} : apc[u] # "idle" =>
               name # "setDataRate" /\ call[u] # "setDataRate"
    BY Zenon DEF Begin
  <1>2. /\ apc[t] = "idle" /\ apc'[t] = to /\ call'[t] = name
        /\ \A u \in Callers \ {t} :
               apc'[u] = apc[u] /\ call'[u] = call[u] /\ prevActive'[u] = prevActive[u]
    BY DEF Move, Begin, AccType
  <1>3. RateAlone /\ (\A u \in Callers : Phase(u))
        /\ ((\A u \in Callers : apc[u] \in {"idle", "take"}) =>
               chip1.ACTIVE = asked /\ reg1.ACTIVE = asked)
    BY <1>1 DEF Standby
  <1>4. RateAlone'
    BY <1>1, <1>2, <1>3 DEF RateAlone, Located
  <1>5. \A u \in Callers \ {t} : Phase(u)'
    <2> SUFFICES ASSUME NEW u \in Callers \ {t} PROVE Phase(u)'
      OBVIOUS
    <2>1. Phase(u)
      BY <1>3
    <2>2. /\ reg1' = reg1 /\ chip1' = chip1 /\ asked' = asked /\ tmp' = tmp
          /\ apc'[u] = apc[u] /\ call'[u] = call[u] /\ prevActive' = prevActive
          /\ reg'[u] = reg[u]
      BY <1>2 DEF shared
    <2> QED BY <2>1, <2>2, Zenon DEF Phase
  <1>6. Phase(t)'
    <2>1. CASE name = "setDataRate"
      <3>1. \A u \in Callers : apc[u] = "idle"
        BY <1>1, <1>2, <2>1
      <3> QED BY <3>1, <1>2, <1>3, <2>1 DEF Phase, Lows, shared
    <2>2. CASE name # "setDataRate"
      BY <1>2, <2>2 DEF Phase, Lows
    <2> QED BY <2>1, <2>2
  <1>7. ASSUME \A u \in Callers : apc'[u] \in {"idle", "take"}
        PROVE  chip1'.ACTIVE = asked' /\ reg1'.ACTIVE = asked'
    BY <1>2, <1>3, <1>7 DEF shared
  <1> QED BY <1>4, <1>5, <1>6, <1>7

\* Where the invariant is used.
LEMMA StandbyHolds ==
  ASSUME Standby, ~disturbed, ~failed
  PROVE  /\ RateAlone /\ \A t \in Callers : Phase(t)
         /\ (\A t \in Callers : apc[t] \in {"idle", "take"}) =>
                chip1.ACTIVE = asked /\ reg1.ACTIVE = asked
  BY DEF Standby

LEMMA StandbyStep == AccInv /\ Standby /\ [AccNext]_aVars => Standby'
  <1> SUFFICES ASSUME AccInv, Standby, [AccNext]_aVars PROVE Standby'
    OBVIOUS
  <1>0. AccType /\ Located /\ AccType' /\ Located'
    BY LocatedStep DEF AccInv
  <1> USE <1>0
  <1>1. ASSUME NEW t \in Callers, NEW rate \in Rates, SetDataRate(t, rate)
        PROVE  Standby'
    BY <1>1, BeginStep DEF SetDataRate, AccType, Functions
  <1>2. ASSUME NEW t \in Callers, NEW value \in Regs1, SetCtrlReg1(t, value)
        PROVE  Standby'
    BY <1>2, BeginStep DEF SetCtrlReg1, AccType, Functions
  <1>3. ASSUME NEW t \in Callers, SetCtrlReg45(t) \/ GetAccIntCount(t)
        PROVE  Standby'
    BY <1>3, BeginStep DEF SetCtrlReg45, GetAccIntCount, AccType, Functions
  <1>4. ASSUME NEW t \in Callers, LoadRate(t)
        PROVE  Standby'
    <2>1. RateAlone => Calm(t)
      BY <1>4, OthersCalm DEF LoadRate, Move, Located
    <2>2. apc[t] = "loadRate" /\ apc'[t] = "storeRate" /\ tmp'[t].ACTIVE = reg1.ACTIVE
      BY <1>4 DEF LoadRate, Move, AccType, Regs1
    <2>3. Phase(t) => Phase(t)'
      BY <1>4, <2>2 DEF LoadRate, Phase, Lows, shared
    <2> QED
      BY <1>4, <2>1, <2>2, <2>3, StandbyHolds, OnlyItsPhase DEF LoadRate, Move, AccType
  <1>5. ASSUME NEW t \in Callers, StoreRate(t)
        PROVE  Standby'
    <2>1. RateAlone => Calm(t)
      BY <1>5, OthersCalm DEF StoreRate, Move, Located
    <2>2. apc[t] = "storeRate" /\ apc'[t] = "copy"
      BY <1>5 DEF StoreRate, Move, AccType
    <2>3. Phase(t) => Phase(t)'
      BY <1>5, <2>2 DEF StoreRate, Phase, Lows, locals
    <2> QED
      BY <1>5, <2>1, <2>2, <2>3, StandbyHolds, OnlyItsPhase DEF StoreRate, Move, AccType, locals
  <1>6. ASSUME NEW t \in Callers, Copy(t)
        PROVE  Standby'
    <2>1. RateAlone => Calm(t)
      BY <1>6, OthersCalm DEF Copy, Move, Located
    <2>2. apc[t] = "copy" /\ apc'[t] = "take" /\ reg'[t] = reg1
      BY <1>6 DEF Copy, Move, AccType
    <2>3. Phase(t) => Phase(t)' /\ chip1'.ACTIVE = asked' /\ reg1'.ACTIVE = asked'
      BY <1>6, <2>2 DEF Copy, Phase, Lows, shared
    <2> QED
      BY <1>6, <2>1, <2>2, <2>3, StandbyHolds, OnlyItsPhase DEF Copy, Move, AccType
  <1>7. ASSUME NEW t \in Callers, Take(t)
        PROVE  Standby'
    <2>1. ASSUME RateAlone PROVE Calm(t)
      <3> SUFFICES ASSUME NEW u \in Callers \ {t}
                   PROVE  apc[u] = "idle" \/ (apc[u] = "take" /\ call[u] # "setDataRate")
        BY DEF Calm
      <3>1. call[u] # "setDataRate"
        BY <1>7, <2>1 DEF Take, Move, RateAlone
      <3>2. apc[u] \in Outside
        BY <1>7, AccAssumption DEF Take, Located, AccType, AccAssumption
      <3> QED BY <3>1, <3>2 DEF Outside, Located
    <2>2. /\ apc[t] = "take" /\ call[t] \in Functions /\ call' = call /\ reg' = reg
          /\ apc'[t] = CASE call[t] = "setCtrlReg45" -> "test"
                         [] call[t] = "getAccIntCount" -> "give"
                         [] OTHER -> "assign"
      BY <1>7 DEF Take, Move, AccType, Located, locals
    <2>3. ASSUME ~disturbed, ~failed PROVE Phase(t)'
      <3>1. RateAlone /\ Phase(t)
        BY <2>3, StandbyHolds
      <3>2. \A u \in Callers : apc[u] \in {"idle", "take"}
        BY <2>1, <2>2, <3>1 DEF Calm
      <3>3. chip1.ACTIVE = asked /\ reg1.ACTIVE = asked
        BY <2>3, <3>2, StandbyHolds
      <3>4. CASE call[t] = "setCtrlReg45"
        BY <1>7, <2>2, <3>3, <3>4 DEF Take, Phase, Lows, Writes1
      <3>5. CASE call[t] = "getAccIntCount"
        BY <1>7, <2>2, <3>3, <3>5 DEF Take, Phase, Lows
      <3>6. CASE call[t] \in Writes1
        BY <1>7, <2>2, <3>1, <3>3, <3>6 DEF Take, Phase, Lows, Writes1
      <3> QED BY <2>2, <3>4, <3>5, <3>6 DEF Functions, Writes1
    <2>4. apc'[t] \notin {"idle", "take"}
      BY <2>2 DEF Functions
    <2> QED
      BY <1>7, <2>1, <2>2, <2>3, <2>4, OnlyItsPhase DEF Take, Move, AccType, locals
  <1>8. ASSUME NEW t \in Callers, Assign(t)
        PROVE  Standby'
    <2>1. apc[t] = "assign" /\ apc'[t] = "test" /\ call[t] \in Writes1
          /\ call' = call /\ reg' = reg /\ reg1' = reg[t] /\ chip1' = chip1
      BY <1>8 DEF Assign, Move, AccType, Located, locals
    <2>2. RateAlone => Calm(t)
      BY <2>1, OthersCalm DEF Held
    <2>3. ASSUME Phase(t) PROVE reg'[t].ACTIVE = asked'
      <3>1. CASE call[t] = "setDataRate"
        BY <1>8, <2>1, <2>3, <3>1 DEF Assign, Phase
      <3>2. CASE call[t] = "setCtrlReg1"
        BY <1>8, <2>1, <3>2 DEF Assign
      <3> QED BY <2>1, <3>1, <3>2 DEF Writes1
    <2>4. Phase(t) => Phase(t)'
      BY <2>1, <2>3 DEF Phase, Lows, Writes1
    <2> QED
      BY <1>8, <2>1, <2>2, <2>4, StandbyHolds, OnlyItsPhase DEF Assign, Move, AccType
  <1>9. ASSUME NEW t \in Callers, Test(t)
        PROVE  Standby'
    <2>1. /\ apc[t] = "test" /\ call' = call /\ reg' = reg /\ tmp' = tmp
          /\ apc'[t] = IF reg1.ACTIVE THEN "loadLow" ELSE "data"
          /\ prevActive'[t] = reg1.ACTIVE
          /\ UNCHANGED <<reg1, chip1, asked, disturbed, failed>>
      BY <1>9 DEF Test, Move, AccType, locals, shared
    <2>2. RateAlone => Calm(t)
      BY <2>1, OthersCalm DEF Held
    <2>3. ASSUME Phase(t) PROVE Phase(t)'
      <3>1. reg1.ACTIVE = asked /\ asked \in BOOLEAN
        BY <2>1, <2>3 DEF Phase, AccType
      <3>2. CASE asked = TRUE
        <4>1. apc'[t] = "loadLow"
          BY <2>1, <3>1, <3>2
        <4> QED BY <2>1, <2>3, <3>1, <3>2, <4>1 DEF Phase, Lows
      <3>3. CASE asked = FALSE
        <4>1. apc'[t] = "data" /\ prevActive'[t] = FALSE
          BY <2>1, <3>1, <3>3
        <4> QED BY <2>1, <2>3, <3>1, <3>3, <4>1 DEF Phase, Lows
      <3> QED BY <3>1, <3>2, <3>3
    <2>4. apc'[t] \notin {"idle", "take"}
      BY <2>1
    <2> QED
      BY <1>9, <2>1, <2>2, <2>3, <2>4, StandbyHolds, OnlyItsPhase DEF Test, Move, AccType
  <1>10. ASSUME NEW t \in Callers, Lower(t) \/ Raise(t)
         PROVE  Standby'
    <2>0. ASSUME NEW from \in Held, NEW to \in Held, Move(t, from, to), call' = call,
                 disturbed' = disturbed, failed => failed',
                 Phase(t) /\ ~failed' => Phase(t)'
          PROVE  Standby'
      <3>1. /\ apc[t] = from /\ apc'[t] = to
            /\ \A u \in Callers \ {t} : apc'[u] = apc[u]
        BY <2>0 DEF Move, AccType
      <3>2. RateAlone => Calm(t)
        BY <3>1, OthersCalm
      <3> QED BY <2>0, <3>1, <3>2, StandbyHolds, OnlyItsPhase DEF Held
    <2> USE DEF Move, AccType, Phase, Lows, Writes1
    <2>1. CASE LoadActive(t, "loadLow", "storeLow", FALSE)
      <3>1. tmp'[t].ACTIVE = FALSE
        BY <2>1 DEF LoadActive, Regs1
      <3> QED BY <2>0, <2>1, <3>1 DEF LoadActive, Held, shared
    <2>2. CASE StoreActive(t, "storeLow", "sendLow")
      BY <2>0, <2>2 DEF StoreActive, Held, locals
    <2>3. CASE SendReg1(t, "sendLow", "data")
      <3>1. prevActive[t] = TRUE
        BY <2>3 DEF SendReg1, Located
      <3>2. (failed => failed') /\ (~failed' => chip1' = reg1)
        BY <2>3, Zenon DEF SendReg1, Send
      <3>3. apc[t] = "sendLow" /\ apc'[t] = "data" /\ call' = call /\ prevActive'[t] = TRUE
            /\ reg' = reg /\ asked' = asked
        BY <2>3, <3>1 DEF SendReg1, locals
      <3>4. ASSUME Phase(t), ~failed' PROVE Phase(t)'
        BY <3>2, <3>3, <3>4
      <3> QED BY <2>0, <2>3, <3>2, <3>4 DEF SendReg1, Held, locals
    <2>4. CASE LoadActive(t, "loadHigh", "storeHigh", TRUE)
      <3>1. tmp'[t].ACTIVE = TRUE
        BY <2>4 DEF LoadActive, Regs1
      <3> QED BY <2>0, <2>4, <3>1 DEF LoadActive, Held, shared
    <2>5. CASE StoreActive(t, "storeHigh", "sendHigh")
      BY <2>0, <2>5 DEF StoreActive, Held, locals
    <2>6. CASE SendReg1(t, "sendHigh", "give")
      <3>1. (failed => failed') /\ (~failed' => chip1' = reg1)
        BY <2>6, Zenon DEF SendReg1, Send
      <3> QED BY <2>0, <2>6, <3>1 DEF SendReg1, Held, locals
    <2> QED BY <1>10, <2>1, <2>2, <2>3, <2>4, <2>5, <2>6, Zenon DEF Lower, Raise
  <1>11. ASSUME NEW t \in Callers, SendData(t)
         PROVE  Standby'
    <2>1. /\ apc[t] = "data" /\ UNCHANGED <<reg1, call, reg, prevActive, asked, disturbed>>
          /\ apc'[t] = IF prevActive[t] THEN "loadHigh" ELSE "give"
      BY <1>11 DEF SendData, Move, AccType, locals
    <2>2. (failed => failed') /\ (call[t] # "setCtrlReg45" /\ ~failed' => chip1' = reg[t])
          /\ (call[t] = "setCtrlReg45" => chip1' = chip1)
      BY <1>11, Zenon DEF SendData, Send
    <2>3. RateAlone => Calm(t)
      BY <2>1, OthersCalm DEF Held
    <2>4. ASSUME Phase(t), ~failed' PROVE Phase(t)'
      <3>1. CASE prevActive[t]
        BY <2>1, <2>4, <3>1 DEF Phase, Lows
      <3>2. CASE ~prevActive[t]
        <4>1. chip1'.ACTIVE = asked
          BY <2>1, <2>2, <2>4, <3>2 DEF Phase, Located, Held, Functions, Writes1
        <4> QED BY <2>1, <2>4, <3>2, <4>1 DEF Phase, Lows
      <3> QED BY <3>1, <3>2
    <2>5. apc'[t] \notin {"idle", "take"}
      BY <2>1
    <2> QED
      BY <1>11, <2>1, <2>2, <2>3, <2>4, <2>5, StandbyHolds, OnlyItsPhase
         DEF SendData, Move, AccType
  <1>12. ASSUME NEW t \in Callers, GiveMutex(t)
         PROVE  Standby'
    <2> SUFFICES ASSUME ~disturbed', ~failed'
                 PROVE  /\ RateAlone' /\ \A u \in Callers : Phase(u)'
                        /\ chip1'.ACTIVE = asked' /\ reg1'.ACTIVE = asked'
      BY DEF Standby
    <2>1. /\ apc[t] = "give" /\ apc'[t] = "idle" /\ call'[t] = "none"
          /\ \A u \in Callers \ {t} : apc'[u] = apc[u] /\ call'[u] = call[u]
          /\ UNCHANGED <<reg1, chip1, asked, disturbed, failed>>
      BY <1>12 DEF GiveMutex, Move, AccType
    <2>2. RateAlone /\ Phase(t)
      BY <2>1, StandbyHolds
    <2>3. Calm(t)
      BY <2>1, <2>2, OthersCalm DEF Held
    <2>4. RateAlone'
      BY <2>1, <2>2 DEF RateAlone
    <2>5. \A u \in Callers : Phase(u)'
      BY <2>1, <2>3 DEF Phase, Calm, Lows
    <2> QED BY <2>1, <2>2, <2>4, <2>5 DEF Phase
  <1>13. CASE UNCHANGED aVars
    BY <1>13 DEF aVars, shared, locals, Standby, RateAlone, Phase
  <1> QED
    BY <1>1, <1>2, <1>3, <1>4, <1>5, <1>6, <1>7, <1>8, <1>9, <1>10, <1>11, <1>12, <1>13
       DEF AccNext, RunAcc

(***************************************************************************)
(* As long as no call overlaps a setDataRate and no transfer fails,        *)
(* writeRegWithActiveLow writes another register in standby only, and the  *)
(* sensor measures again when its callers are done, if it was asked to.    *)
(***************************************************************************)
THEOREM StandbyStaysBrief == AccSpec => []StandbyIsBrief
  <1>1. AccInv /\ Standby => StandbyIsBrief
    <2> SUFFICES ASSUME AccInv, Standby, ~disturbed, ~failed
                 PROVE  /\ \A t \in Callers : apc[t] = "data" /\ chip1.ACTIVE =>
                               call[t] # "setCtrlReg45" /\ ~reg[t].ACTIVE
                        /\ (\A t \in Callers : apc[t] \in {"idle", "take"}) =>
                               (chip1.ACTIVE <=> asked)
      BY DEF StandbyIsBrief
    <2>1. /\ \A t \in Callers : Phase(t)
          /\ (\A t \in Callers : apc[t] \in {"idle", "take"}) => chip1.ACTIVE = asked
      BY StandbyHolds
    <2>2. ASSUME NEW t \in Callers, apc[t] = "data", chip1.ACTIVE
          PROVE  call[t] # "setCtrlReg45" /\ ~reg[t].ACTIVE
      <3>1. ~prevActive[t] /\ asked = FALSE
        BY <2>1, <2>2 DEF Phase
      <3>2. call[t] \in Functions \ {"getAccIntCount"}
        BY <2>2 DEF AccInv, Located, Held
      <3>3. call[t] # "setCtrlReg45"
        BY <2>1, <2>2 DEF Phase
      <3>4. reg[t].ACTIVE = asked
        BY <2>1, <2>2, <3>2, <3>3 DEF Phase, Functions, Writes1
      <3> QED BY <3>1, <3>3, <3>4
    <2> QED BY <2>1, <2>2
  <1>2. AccInv /\ [AccNext]_aVars => AccInv'
    BY LocatedStep, DebtsStep DEF AccInv
  <1> QED
    BY InvInit, StandbyInit, <1>1, <1>2, StandbyStep, PTL DEF AccSpec

=============================================================================
