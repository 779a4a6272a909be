------------------------------- MODULE EfHalI2c -------------------------------
(***************************************************************************)
(* The I2C service: efHal_i2c_transfer, the two drivers a device handle    *)
(* can be bound to, and the end-of-transfer notification that joins them.  *)
(*                                                                         *)
(*   - a hardware device (bsp_frdmkl46z_i2c.c) starts the transfer and     *)
(*     returns; the I2C interrupt ends it later;                           *)
(*   - a software device (sI2C.c) clocks the whole transfer from the       *)
(*     calling task and calls endOfTransfer before it returns.             *)
(*                                                                         *)
(* A task may be preempted between any two steps below: each reads or      *)
(* writes shared state once, or is one kernel call.  The interrupt handler *)
(* is one step, since it runs to completion over the tasks.                *)
(***************************************************************************)
EXTENDS TaskNotify

CONSTANTS
    Tasks,          \* tasks that call efHal_i2c_transfer
    HwDevices,      \* handles registered by a BSP
    SoftDevices,    \* handles registered over sI2C
    MayRefuse,      \* hardware devices whose driver may refuse to start
    Requests,       \* shapes of the buffers a caller passes
    WireCodes,      \* what the slave and the controller may end a transfer with
    None            \* no task, no device, no result yet

Devices == HwDevices \cup SoftDevices

ASSUME I2cAssumption ==
    /\ HwDevices \cap SoftDevices = {}
    /\ MayRefuse \subseteq HwDevices
    /\ Requests \subseteq {"valid", "readOnly", "longCommand", "empty"}
    /\ WireCodes \subseteq {0, 6, 7}
    /\ None \notin Tasks /\ None \notin Devices /\ None \notin Nat

\* efHal_i2c_ec_t.
NO_ERROR             == 0
INVALID_HANDLER      == 1
INVALID_PARAMS       == 4
TRANSFER_UNSUPPORTED == 5
NAK                  == 6
UNKNOW               == 7

Codes == {NO_ERROR, INVALID_HANDLER, INVALID_PARAMS, TRANSFER_UNSUPPORTED, NAK, UNKNOW}

VARIABLES
    pc,         \* [Tasks -> location in efHal_i2c_transfer]
    dh,         \* [Tasks -> Devices \cup {None}] the handle of the call
    req,        \* [Tasks -> Requests \cup {None}] the shape of its buffers
    ret,        \* [Tasks -> Codes] the local variable ret
    reply,      \* [Tasks -> Codes \cup {None}] what the last call returned
    ntf,        \* [Tasks -> notification record]
    mutex,      \* [Devices -> Tasks \cup {None}] holder of head.mutex
    taskHadle,  \* [Devices -> Tasks \cup {None}] head.taskHadle
    wire,       \* [Devices -> Tasks \cup {None}] the task whose transfer is under way
    outcome     \* [Devices -> Codes \cup {None}] how the holder's transfer ended

vars == <<pc, dh, req, ret, reply, ntf, mutex, taskHadle, wire, outcome>>

Locations == {"idle", "take", "setTask", "clear", "start", "clocking",
              "wait", "blocked", "woken", "give"}

TypeOK ==
    /\ pc \in [Tasks -> Locations]
    /\ dh \in [Tasks -> Devices \cup {None}]
    /\ req \in [Tasks -> Requests \cup {None}]
    /\ ret \in [Tasks -> Codes]
    /\ reply \in [Tasks -> Codes \cup {None}]
    /\ ntf \in [Tasks -> Notification(Codes)]
    /\ mutex \in [Devices -> Tasks \cup {None}]
    /\ taskHadle \in [Devices -> Tasks \cup {None}]
    /\ wire \in [Devices -> Tasks \cup {None}]
    /\ outcome \in [Devices -> Codes \cup {None}]

Init ==
    /\ pc = [t \in Tasks |-> "idle"]
    /\ dh = [t \in Tasks |-> None]
    /\ req = [t \in Tasks |-> None]
    /\ ret = [t \in Tasks |-> NO_ERROR]
    /\ reply = [t \in Tasks |-> None]
    /\ ntf = [t \in Tasks |-> NotifyInit]
    /\ mutex = [d \in Devices |-> None]
    /\ taskHadle = [d \in Devices |-> None]
    /\ wire = [d \in Devices |-> None]
    /\ outcome = [d \in Devices |-> None]

(***************************************************************************)
(* The parameter checks of the two drivers: the code each answers with     *)
(* before it touches the wire, NO_ERROR when it goes on.                   *)
(***************************************************************************)
HwCheck(r) ==
    CASE r = "empty"       -> INVALID_PARAMS
      [] r = "longCommand" -> TRANSFER_UNSUPPORTED
      [] OTHER             -> NO_ERROR

SoftCheck(r) == IF r = "empty" THEN INVALID_PARAMS ELSE NO_ERROR

(***************************************************************************)
(* The hardware driver may never end what t asks of it: because it refuses *)
(* the start, or because a read without a command makes it count bytes     *)
(* down from zero and wait for ever for the next one.                      *)
(***************************************************************************)
MayHang(t) == dh[t] \in MayRefuse \/ (dh[t] \in HwDevices /\ req[t] = "readOnly")

Goto(t, from, to) == pc[t] = from /\ pc' = [pc EXCEPT ![t] = to]

(***************************************************************************)
(* efHal_internal_i2c_endOfTransfer: the code replaces the notification    *)
(* value of the task the device is bound to, which is made ready if it was *)
(* waiting.  locs is pc, already advanced for the task the call runs in.   *)
(***************************************************************************)
EndOfTransfer(d, ec, locs) ==
    LET t == taskHadle[d] IN
    /\ ntf' = [ntf EXCEPT ![t] = Overwrite(@, ec)]
    /\ pc' = IF Wakes(ntf[t]) THEN [locs EXCEPT ![t] = "woken"] ELSE locs

-----------------------------------------------------------------------------
\* efHal_i2c_transfer is called with a NULL handle.
CallNull(t) ==
    /\ pc[t] = "idle"
    /\ reply' = [reply EXCEPT ![t] = INVALID_HANDLER]
    /\ UNCHANGED <<pc, dh, req, ret, ntf, mutex, taskHadle, wire, outcome>>

Call(t, d, r) ==
    /\ Goto(t, "idle", "take")
    /\ dh' = [dh EXCEPT ![t] = d]
    /\ req' = [req EXCEPT ![t] = r]
    /\ UNCHANGED <<ret, reply, ntf, mutex, taskHadle, wire, outcome>>

\* A slip the runs are tried with: the mutex is not waited for.
TakeMutexAlways(t) ==
    /\ Goto(t, "take", "setTask")
    /\ mutex' = [mutex EXCEPT ![dh[t]] = t]
    /\ UNCHANGED <<dh, req, ret, reply, ntf, taskHadle, wire, outcome>>

TakeMutex(t) ==
    /\ Goto(t, "take", "setTask")
    /\ mutex[dh[t]] = None
    /\ mutex' = [mutex EXCEPT ![dh[t]] = t]
    /\ UNCHANGED <<dh, req, ret, reply, ntf, taskHadle, wire, outcome>>

SetTask(t) ==
    /\ Goto(t, "setTask", "clear")
    /\ taskHadle' = [taskHadle EXCEPT ![dh[t]] = t]
    /\ UNCHANGED <<dh, req, ret, reply, ntf, mutex, wire, outcome>>

\* xTaskNotifyStateClear acts on the task the handle holds at that moment.
ClearState(t) ==
    /\ Goto(t, "clear", "start")
    /\ ntf' = [ntf EXCEPT ![taskHadle[dh[t]]] = StateClear(@)]
    /\ UNCHANGED <<dh, req, ret, reply, mutex, taskHadle, wire, outcome>>

(***************************************************************************)
(* bsp_frdmkl46z_i2c_deviceTransfer.  A request the driver cannot serve is *)
(* answered with an error; otherwise the transfer is started and NO_ERROR  *)
(* returned, whether or not the driver accepted it: the status of          *)
(* I2C_MasterTransferNonBlocking is dropped.                               *)
(***************************************************************************)
\* A slip the runs are tried with: an error returns before xSemaphoreGive.
HwRejectEarly(t) ==
    /\ Goto(t, "start", "idle")
    /\ dh[t] \in HwDevices
    /\ HwCheck(req[t]) # NO_ERROR
    /\ reply' = [reply EXCEPT ![t] = HwCheck(req[t])]
    /\ outcome' = [outcome EXCEPT ![dh[t]] = HwCheck(req[t])]
    /\ UNCHANGED <<dh, req, ret, ntf, mutex, taskHadle, wire>>

HwReject(t) ==
    LET ec == HwCheck(req[t]) IN
    /\ Goto(t, "start", "give")
    /\ dh[t] \in HwDevices
    /\ ec # NO_ERROR
    /\ ret' = [ret EXCEPT ![t] = ec]
    /\ outcome' = [outcome EXCEPT ![dh[t]] = ec]
    /\ UNCHANGED <<dh, req, reply, ntf, mutex, taskHadle, wire>>

HwStart(t) ==
    /\ Goto(t, "start", "wait")
    /\ dh[t] \in HwDevices
    /\ HwCheck(req[t]) = NO_ERROR
    /\ ret' = [ret EXCEPT ![t] = NO_ERROR]
    /\ wire' = [wire EXCEPT ![dh[t]] = t]
    /\ UNCHANGED <<dh, req, reply, ntf, mutex, taskHadle, outcome>>

HwStartInVain(t) ==
    /\ Goto(t, "start", "wait")
    /\ MayHang(t)
    /\ HwCheck(req[t]) = NO_ERROR
    /\ ret' = [ret EXCEPT ![t] = NO_ERROR]
    /\ UNCHANGED <<dh, req, reply, ntf, mutex, taskHadle, wire, outcome>>

(***************************************************************************)
(* The I2C interrupt that ends a transfer: i2c_master_callback maps the    *)
(* driver's status to a code and calls endOfTransfer.                      *)
(***************************************************************************)
Interrupt(d) ==
    /\ d \in HwDevices
    /\ wire[d] # None
    /\ wire' = [wire EXCEPT ![d] = None]
    /\ \E ec \in IF req[wire[d]] = "readOnly" THEN WireCodes \ {NO_ERROR} ELSE WireCodes :
          /\ outcome' = [outcome EXCEPT ![d] = ec]
          /\ EndOfTransfer(d, ec, pc)
    /\ UNCHANGED <<dh, req, ret, reply, mutex, taskHadle>>

(***************************************************************************)
(* sI2C_transfer: the start condition occupies the wire, and the stop      *)
(* condition, the notification of the calling task and the return value    *)
(* come together.  Bad parameters still produce a stop condition and a     *)
(* notification.  No slave answers with UNKNOW here.                       *)
(***************************************************************************)
SoftStart(t) ==
    /\ Goto(t, "start", "clocking")
    /\ dh[t] \in SoftDevices
    /\ wire' = [wire EXCEPT ![dh[t]] = t]
    /\ UNCHANGED <<dh, req, ret, reply, ntf, mutex, taskHadle, outcome>>

SoftEnd(t) ==
    LET d  == dh[t]
        ec == SoftCheck(req[t]) IN
    /\ pc[t] = "clocking"
    /\ wire' = [wire EXCEPT ![d] = None]
    /\ \E e \in IF ec = NO_ERROR THEN WireCodes \ {UNKNOW} ELSE {ec} :
          /\ ret' = [ret EXCEPT ![t] = e]
          /\ outcome' = [outcome EXCEPT ![d] = e]
          /\ EndOfTransfer(d, e, [pc EXCEPT ![t] = IF e = NO_ERROR THEN "wait" ELSE "give"])
    /\ UNCHANGED <<dh, req, reply, mutex, taskHadle>>

(***************************************************************************)
(* xTaskNotifyWait(0, 0, &notifVal, portMAX_DELAY) and what follows it.    *)
(***************************************************************************)
Wait(t) ==
    /\ Goto(t, "wait", IF WaitMustBlock(ntf[t]) THEN "blocked" ELSE "woken")
    /\ ntf' = [ntf EXCEPT ![t] = WaitEnter(@)]
    /\ UNCHANGED <<dh, req, ret, reply, mutex, taskHadle, wire, outcome>>

Wake(t) ==
    /\ Goto(t, "woken", "give")
    /\ ret' = [ret EXCEPT ![t] = WaitResult(ntf[t])]
    /\ ntf' = [ntf EXCEPT ![t] = WaitExit(@)]
    /\ UNCHANGED <<dh, req, reply, mutex, taskHadle, wire, outcome>>

GiveMutex(t) ==
    /\ Goto(t, "give", "idle")
    /\ mutex' = [mutex EXCEPT ![dh[t]] = None]
    /\ outcome' = [outcome EXCEPT ![dh[t]] = None]
    /\ reply' = [reply EXCEPT ![t] = ret[t]]
    /\ dh' = [dh EXCEPT ![t] = None]
    /\ req' = [req EXCEPT ![t] = None]
    /\ ret' = [ret EXCEPT ![t] = NO_ERROR]
    /\ UNCHANGED <<ntf, taskHadle, wire>>

-----------------------------------------------------------------------------
\* What a task does once it has called, without the choice to call.
Run(t) ==
    \/ TakeMutex(t) \/ SetTask(t) \/ ClearState(t)
    \/ HwReject(t) \/ HwStart(t) \/ HwStartInVain(t)
    \/ SoftStart(t) \/ SoftEnd(t)
    \/ Wait(t) \/ Wake(t) \/ GiveMutex(t)

Next ==
    \/ \E t \in Tasks : CallNull(t)
    \/ \E t \in Tasks, d \in Devices, r \in Requests : Call(t, d, r)
    \/ \E t \in Tasks : Run(t)
    \/ \E d \in Devices : Interrupt(d)

(***************************************************************************)
(* The scheduler runs every ready task and the controller ends every       *)
(* transfer it started.  Nothing stronger: a mutex that is given back is   *)
(* not handed to a waiter, so a task may lose the race for it for ever.    *)
(***************************************************************************)
Fairness ==
    /\ \A t \in Tasks : WF_vars(Run(t))
    /\ \A d \in Devices : WF_vars(Interrupt(d))

SafeSpec == Init /\ [][Next]_vars
Spec == SafeSpec /\ Fairness

-----------------------------------------------------------------------------
\* The locations in which a task holds the mutex of its device.
Holding == Locations \ {"idle", "take"}

(***************************************************************************)
(* A transfer under way belongs to the task that holds the device, and     *)
(* that task is the one endOfTransfer will notify: no later caller can     *)
(* rebind taskHadle while the controller still works for an earlier one.   *)
(***************************************************************************)
CompletionReachesStarter ==
    \A d \in Devices :
        wire[d] # None => mutex[d] = wire[d] /\ taskHadle[d] = wire[d]

(***************************************************************************)
(* When a task gives the mutex back, its own transfer has ended and the    *)
(* code it is about to return is that transfer's outcome, never a value    *)
(* some earlier transfer left in the notification.                         *)
(***************************************************************************)
ResultIsOwn ==
    \A t \in Tasks :
        pc[t] = "give" => ret[t] = outcome[dh[t]] /\ wire[dh[t]] = None

(***************************************************************************)
(* A task asleep in xTaskNotifyWait has a transfer that will still end, or *)
(* one that the driver never ends: an interrupt that arrives between the   *)
(* start and the wait is never slept through.                              *)
(***************************************************************************)
NoMissedEnd ==
    \A t \in Tasks :
        pc[t] = "blocked" =>
            \/ wire[dh[t]] = t
            \/ MayHang(t) /\ outcome[dh[t]] = None

(***************************************************************************)
(* A task that has been given a device gives it back, unless the driver    *)
(* may leave its request without an end; and that even while such a        *)
(* request keeps another device locked for ever.                           *)
(***************************************************************************)
HolderReturns ==
    \A d \in Devices, t \in Tasks :
        (mutex[d] = t /\ ~MayHang(t)) ~> (mutex[d] # t)

(***************************************************************************)
(* The refinement mapping from the service to SerialBus.                   *)
(***************************************************************************)
Phase(d) ==
    IF mutex[d] = None THEN "free"
    ELSE IF wire[d] # None THEN "busy"
    ELSE IF outcome[d] = None THEN "ready"
    ELSE "done"

Bus == INSTANCE SerialBus WITH
    Results  <- Codes,
    Refusals <- {INVALID_PARAMS, TRANSFER_UNSUPPORTED, INVALID_HANDLER},
    holder   <- mutex,
    phase    <- [d \in Devices |-> Phase(d)],
    result   <- outcome

(***************************************************************************)
(* Every step of the service, over either driver and also with starts that *)
(* are refused, is a step of SerialBus or changes nothing it shows.        *)
(***************************************************************************)
StepsOfBus == Bus!Spec
=============================================================================
