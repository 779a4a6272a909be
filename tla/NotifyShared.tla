----------------------------- MODULE NotifyShared -----------------------------
(***************************************************************************)
(* The I2C and the GPIO service in one application, as a task of the       *)
(* mma8451 example uses them: it waits for the accelerometer's interrupt   *)
(* pin and then reads the registers over the bus.  The services share no   *)
(* table, but a task has ONE notification record and both sleep on it: the *)
(* bus leaves the code of its last transfer in the value (nothing clears   *)
(* it), where efHal_gpio_waitForInt looks for a count of interrupts.       *)
(***************************************************************************)
EXTENDS TaskNotify

CONSTANTS
    Tasks,              \* tasks that call both services
    Device,             \* the bus, a handle of a hardware controller
    WireCodes,          \* what a transfer may end with
    Pin,                \* the pin every task waits for
    Timed,              \* the tasks that wait for it with a finite block time
    NSlots,             \* EF_HAL_GPIO_TOTAL_WAIT_FOR_INT
    None

ASSUME SharedAssumption ==
    /\ WireCodes \subseteq {0, 6, 7}
    /\ Timed \subseteq Tasks
    /\ NSlots \in Nat \ {0}
    /\ None \notin Tasks /\ None \notin {Device, Pin} /\ None \notin Nat

VARIABLES
    ntf,                                            \* shared by the services
    bpc, dh, req, bret, reply, mutex, taskHadle, wire, outcome,  \* I2C
    gpc, pin, i, gret, taskHandle, gpioId, rpc, rpin, j, cbInt, cbId,
    seen, overlapped,                                            \* GPIO
    left    \* history: [Tasks -> who stored, outside a wait, the value that is
            \* in the task's record: "transfer", "edge", or "nobody"]

busVars  == <<bpc, dh, req, bret, reply, mutex, taskHadle, wire, outcome>>
gpioVars == <<gpc, pin, i, gret, taskHandle, gpioId, rpc, rpin, j, cbInt, cbId,
              seen, overlapped>>
vars == <<ntf, busVars, gpioVars, left>>

I2c == INSTANCE EfHalI2c WITH
    HwDevices <- {Device}, SoftDevices <- {}, MayRefuse <- {},
    Requests <- {"valid"}, pc <- bpc, ret <- bret

Gpio == INSTANCE EfHalGpio WITH
    Waiters <- Tasks, WaitsFor <- Tasks \X {Pin}, Registrars <- {},
    Firing <- {Pin}, IdZero <- None, NCallBacks <- 1, pc <- gpc, ret <- gret

Init == I2c!Init /\ Gpio!Init /\ left = [t \in Tasks |-> "nobody"]

-----------------------------------------------------------------------------
\* A task is in one call at a time.
BusCall(t) ==
    /\ gpc[t] = "idle"
    /\ I2c!Call(t, Device, "valid")
    /\ UNCHANGED <<gpioVars, left>>

BusRun(t) == I2c!Run(t) /\ UNCHANGED <<gpioVars, left>>

\* The end of a transfer overwrites whatever the value was.
BusInterrupt ==
    /\ I2c!Interrupt(Device)
    /\ left' = [left EXCEPT ![taskHadle[Device]] =
                   IF outcome'[Device] = 0 THEN "nobody" ELSE "transfer"]
    /\ UNCHANGED gpioVars

WaitCall(t) ==
    /\ bpc[t] = "idle"
    /\ Gpio!Call(t, Pin)
    /\ UNCHANGED <<busVars, left>>

\* The only step that clears the value: the end of ulTaskNotifyTake.
WaitWake(t) ==
    /\ Gpio!Wake(t)
    /\ left' = [left EXCEPT ![t] = "nobody"]
    /\ UNCHANGED busVars

WaitRun(t) ==
    /\ \/ Gpio!Scan(t) \/ Gpio!SetId(t) \/ Gpio!SetHandle(t)
       \/ Gpio!ClearState(t) \/ Gpio!Take(t) \/ Gpio!Timeout(t)
       \/ Gpio!ReleaseId(t) \/ Gpio!ReleaseHandle(t)
    /\ UNCHANGED <<busVars, left>>

\* An edge that finds a slot whose task has taken its count already stays in
\* the record for the task's next wait.
Edge ==
    /\ Gpio!InterruptRoutine(Pin)
    /\ left' = [t \in Tasks |->
                  IF ntf'[t] # ntf[t] /\ gpc[t] \in {"relId", "relHandle"}
                  THEN "edge" ELSE left[t]]
    /\ UNCHANGED busVars

Next ==
    \/ \E t \in Tasks : BusCall(t) \/ BusRun(t)
    \/ BusInterrupt
    \/ \E t \in Tasks : WaitCall(t) \/ WaitWake(t) \/ WaitRun(t)
    \/ Edge

Spec == Init /\ [][Next]_vars

-----------------------------------------------------------------------------
(***************************************************************************)
(* A transfer still answers its caller with its own outcome when the same  *)
(* tasks wait for pins: no edge reaches a task that is inside a transfer,  *)
(* not even after claims of the waiting table have overlapped, and no      *)
(* count left by a wait is taken for the end of a transfer.                *)
(***************************************************************************)
TransferUndisturbed ==
    /\ I2c!ResultIsOwn
    /\ I2c!NoMissedEnd
    /\ \A t \in Tasks, s \in Gpio!Slots : bpc[t] # "idle" => taskHandle[s] # t

(***************************************************************************)
(* When waitForInt is about to return true without an interrupt since its  *)
(* slot was claimed, one of two things is to blame and nothing else: the   *)
(* task's last transfer failed and left its code in the value, or an edge  *)
(* came at the end of its previous wait.                                   *)
(***************************************************************************)
HonestUnlessLeft ==
    [][\A t \in Tasks :
          gpc[t] = "woken" /\ gpc'[t] = "relId" /\ gret'[t] =>
              seen[t] \/ left[t] # "nobody"]_vars
=============================================================================
