------------------------------- MODULE EfHalSpi -------------------------------
(***************************************************************************)
(* The SPI service: efHal_spi_transfer and efHal_spi_config over the       *)
(* driver of bsp_frdmkl46z_spi.c.  Like I2C it holds a mutex from the      *)
(* start to the end of a transfer and sleeps in xTaskNotifyWait; unlike    *)
(* I2C no code comes back: neither the driver's refusal to start nor the   *)
(* status the transfer ended with reaches the caller.  A configuration     *)
(* re-creates the driver handle the interrupt works on.                    *)
(***************************************************************************)
EXTENDS TaskNotify

CONSTANTS
    Tasks,          \* tasks that use the devices
    Devices,        \* the registered handles
    Configurers,    \* the tasks that call efHal_spi_config
    Requests,       \* shapes of the buffers passed: "valid", or "empty"
    None            \* no task, no device, no result

ASSUME SpiAssumption ==
    /\ Configurers \subseteq Tasks
    /\ Requests \subseteq {"valid", "empty"}
    /\ None \notin Tasks /\ None \notin Devices /\ None # "ended"

VARIABLES
    pc,         \* [Tasks -> location]
    dh,         \* [Tasks -> Devices \cup {None}] the handle of the call
    req,        \* [Tasks -> Requests \cup {None}]
    reply,      \* [Tasks -> {"ended", None}] "ended" once a transfer returned
    ntf,        \* [Tasks -> notification record]
    mutex,      \* [Devices -> Tasks \cup {None}]
    taskHadle,  \* [Devices -> Tasks \cup {None}]
    busy,       \* [Devices -> Tasks \cup {None}] the transfer the driver handle
                \* is working on
    outcome     \* [Devices -> {"ended", None}] the holder's transfer has ended

vars == <<pc, dh, req, reply, ntf, mutex, taskHadle, busy, outcome>>

Locations == {"idle", "take", "setTask", "clear", "start", "wait", "blocked",
              "woken", "give", "takeConf", "conf", "giveConf"}

TypeOK ==
    /\ pc \in [Tasks -> Locations]
    /\ dh \in [Tasks -> Devices \cup {None}]
    /\ req \in [Tasks -> Requests \cup {None}]
    /\ reply \in [Tasks -> {"ended", None}]
    /\ ntf \in [Tasks -> Notification({0})]
    /\ mutex \in [Devices -> Tasks \cup {None}]
    /\ taskHadle \in [Devices -> Tasks \cup {None}]
    /\ busy \in [Devices -> Tasks \cup {None}]
    /\ outcome \in [Devices -> {"ended", None}]

Init ==
    /\ pc = [t \in Tasks |-> "idle"]
    /\ dh = [t \in Tasks |-> None] /\ req = [t \in Tasks |-> None]
    /\ reply = [t \in Tasks |-> None]
    /\ ntf = [t \in Tasks |-> NotifyInit]
    /\ mutex = [d \in Devices |-> None]
    /\ taskHadle = [d \in Devices |-> None]
    /\ busy = [d \in Devices |-> None] /\ outcome = [d \in Devices |-> None]

Goto(t, from, to) == pc[t] = from /\ pc' = [pc EXCEPT ![t] = to]

\* xSemaphoreTake and xSemaphoreGive of the device's mutex.
Lock(t) == mutex[dh[t]] = None /\ mutex' = [mutex EXCEPT ![dh[t]] = t]

Unlock(t) ==
    /\ mutex' = [mutex EXCEPT ![dh[t]] = None]
    /\ dh' = [dh EXCEPT ![t] = None]

\* The driver starts a transfer that has a buffer and a length, unless its
\* handle is busy.
Accepts(t) == req[t] = "valid" /\ busy[dh[t]] = None

-----------------------------------------------------------------------------
Call(t, d, r) ==
    /\ Goto(t, "idle", "take")
    /\ dh' = [dh EXCEPT ![t] = d]
    /\ req' = [req EXCEPT ![t] = r]
    /\ UNCHANGED <<reply, ntf, mutex, taskHadle, busy, outcome>>

TakeMutex(t) ==
    /\ Goto(t, "take", "setTask")
    /\ Lock(t)
    /\ UNCHANGED <<dh, req, reply, ntf, taskHadle, busy, outcome>>

SetTask(t) ==
    /\ Goto(t, "setTask", "clear")
    /\ taskHadle' = [taskHadle EXCEPT ![dh[t]] = t]
    /\ UNCHANGED <<dh, req, reply, ntf, mutex, busy, outcome>>

ClearState(t) ==
    /\ Goto(t, "clear", "start")
    /\ ntf' = [ntf EXCEPT ![taskHadle[dh[t]]] = StateClear(@)]
    /\ UNCHANGED <<dh, req, reply, mutex, taskHadle, busy, outcome>>

\* spi_TransferCB: the status of SPI_MasterTransferNonBlocking is dropped.
Start(t) ==
    /\ Goto(t, "start", "wait")
    /\ busy' = IF Accepts(t) THEN [busy EXCEPT ![dh[t]] = t] ELSE busy
    /\ UNCHANGED <<dh, req, reply, ntf, mutex, taskHadle, outcome>>

\* The interrupt for the last word: the driver's callback ends the transfer.
Interrupt(d) ==
    LET t == taskHadle[d] IN
    /\ busy[d] # None
    /\ busy' = [busy EXCEPT ![d] = None]
    /\ outcome' = [outcome EXCEPT ![d] = "ended"]
    /\ ntf' = [ntf EXCEPT ![t] = NoAction(@)]
    /\ pc' = IF Wakes(ntf[t]) THEN [pc EXCEPT ![t] = "woken"] ELSE pc
    /\ UNCHANGED <<dh, req, reply, mutex, taskHadle>>

Wait(t) ==
    /\ Goto(t, "wait", IF WaitMustBlock(ntf[t]) THEN "blocked" ELSE "woken")
    /\ ntf' = [ntf EXCEPT ![t] = WaitEnter(@)]
    /\ UNCHANGED <<dh, req, reply, mutex, taskHadle, busy, outcome>>

Wake(t) ==
    /\ Goto(t, "woken", "give")
    /\ ntf' = [ntf EXCEPT ![t] = WaitExit(@)]
    /\ UNCHANGED <<dh, req, reply, mutex, taskHadle, busy, outcome>>

GiveMutex(t) ==
    /\ Goto(t, "give", "idle")
    /\ Unlock(t)
    /\ req' = [req EXCEPT ![t] = None]
    /\ reply' = [reply EXCEPT ![t] = "ended"]
    /\ outcome' = [outcome EXCEPT ![dh[t]] = None]
    /\ UNCHANGED <<ntf, taskHadle, busy>>

-----------------------------------------------------------------------------
\* efHal_spi_config
Config(t, d) ==
    /\ Goto(t, "idle", "takeConf")
    /\ t \in Configurers
    /\ dh' = [dh EXCEPT ![t] = d]
    /\ UNCHANGED <<req, reply, ntf, mutex, taskHadle, busy, outcome>>

\* A slip the runs are tried with: the configuration does not take the mutex.
TakeConfAlways(t) ==
    /\ Goto(t, "takeConf", "conf")
    /\ UNCHANGED <<dh, req, reply, ntf, mutex, taskHadle, busy, outcome>>

TakeConf(t) ==
    /\ Goto(t, "takeConf", "conf")
    /\ Lock(t)
    /\ UNCHANGED <<dh, req, reply, ntf, taskHadle, busy, outcome>>

\* spi_ConfCB: SPI_MasterTransferCreateHandle clears the handle, and with it
\* whatever transfer it was working on.
ConfCB(t) ==
    /\ Goto(t, "conf", "giveConf")
    /\ busy' = [busy EXCEPT ![dh[t]] = None]
    /\ UNCHANGED <<dh, req, reply, ntf, mutex, taskHadle, outcome>>

GiveConf(t) ==
    /\ Goto(t, "giveConf", "idle")
    /\ Unlock(t)
    /\ UNCHANGED <<req, reply, ntf, taskHadle, busy, outcome>>

-----------------------------------------------------------------------------
Run(t) ==
    \/ TakeMutex(t) \/ SetTask(t) \/ ClearState(t) \/ Start(t)
    \/ Wait(t) \/ Wake(t) \/ GiveMutex(t)
    \/ TakeConf(t) \/ ConfCB(t) \/ GiveConf(t)

Next ==
    \/ \E t \in Tasks, d \in Devices, r \in Requests : Call(t, d, r)
    \/ \E t \in Tasks, d \in Devices : Config(t, d)
    \/ \E t \in Tasks : Run(t)
    \/ \E d \in Devices : Interrupt(d)

\* As for I2C: ready tasks run, and a transfer that was started ends.
Fairness ==
    /\ \A t \in Tasks : WF_vars(Run(t))
    /\ \A d \in Devices : WF_vars(Interrupt(d))

SafeSpec == Init /\ [][Next]_vars
Spec == SafeSpec /\ Fairness

-----------------------------------------------------------------------------
(***************************************************************************)
(* A task asleep has a transfer under way on its device, with the device   *)
(* bound to it, or made a request the driver does not start.  No           *)
(* configuration takes the transfer away from under it.                    *)
(***************************************************************************)
SleeperServed ==
    \A t \in Tasks : pc[t] = "blocked" =>
        \/ busy[dh[t]] = t /\ taskHadle[dh[t]] = t
        \/ req[t] = "empty"

(***************************************************************************)
(* The refinement mapping to SerialBus.                                    *)
(***************************************************************************)
Configured(d) == \E t \in Tasks : dh[t] = d /\ pc[t] \in {"conf", "giveConf"}

Phase(d) ==
    IF mutex[d] = None \/ Configured(d) THEN "free"
    ELSE IF busy[d] # None THEN "busy"
    ELSE IF outcome[d] = None THEN "ready"
    ELSE "done"

Bus == INSTANCE SerialBus WITH
    Results  <- {"ended"},
    Refusals <- {},
    holder   <- [d \in Devices |-> IF Configured(d) THEN None ELSE mutex[d]],
    phase    <- [d \in Devices |-> Phase(d)],
    result   <- outcome

(***************************************************************************)
(* Every step is a step of SerialBus, or changes nothing it shows.  (While *)
(* it is being configured a device counts as free: no transfer can begin.) *)
(***************************************************************************)
StepsOfBus == Bus!Spec

(***************************************************************************)
(* Whoever has the mutex of a device, to transfer or to configure, gives   *)
(* it back, unless it asked for a transfer the driver does not start; also *)
(* while others keep configuring the device and interrupts come early.     *)
(***************************************************************************)
HolderReturns ==
    \A d \in Devices, t \in Tasks :
        (mutex[d] = t /\ req[t] # "empty") ~> (mutex[d] # t)
=============================================================================
