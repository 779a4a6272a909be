------------------------------- MODULE Mma8451 -------------------------------
(***************************************************************************)
(* The accelerometer driver.  The sensor accepts a configuration in        *)
(* standby only, so a register write clears ACTIVE in CTRL_REG1, writes,   *)
(* and sets ACTIVE again, under a mutex.  The driver keeps a copy of       *)
(* CTRL_REG1, reg1, whose bit fields are changed by a load and a store;    *)
(* mma8451_setDataRate does that, and takes the copy it then passes on,    *)
(* before it has the mutex.                                                *)
(*                                                                         *)
(* A bus transfer is one step (the I2C service is a module of its own).    *)
(* It may fail, which the driver does not look at.                         *)
(***************************************************************************)
CONSTANTS
    Callers,        \* tasks that use the driver
    Rates,          \* values of the field DR
    FirstRate,      \* MMA8451_DR_12p5hz
    BusFails,       \* may a transfer fail?
    Nobody          \* no task, no argument

ASSUME AccAssumption == FirstRate \in Rates /\ BusFails \in BOOLEAN /\ Nobody \notin Callers

Regs1 == [ACTIVE : BOOLEAN, DR : Rates]

VARIABLES
    reg1,           \* the driver's copy
    chip1,          \* CTRL_REG1 in the sensor
    xMutexAcc,      \* holder of the mutex, or Nobody
    apc,            \* [Callers -> location]
    call,           \* [Callers -> the function it is in]
    reg,            \* [Callers -> Regs1: the parameter of setCtrlReg1]
    tmp,            \* [Callers -> Regs1: the loaded byte of a change of a field]
    prevActive,     \* [Callers -> BOOLEAN]
    asked,          \* history: ACTIVE in the last setCtrlReg1 of the application
    disturbed,     \* history: a call has disturbed a setDataRate
    failed          \* history: a transfer has failed

shared == <<reg1, chip1, xMutexAcc>>
locals == <<call, reg, tmp, prevActive>>
aVars == <<shared, apc, locals, asked, disturbed, failed>>

Reset == [ACTIVE |-> TRUE, DR |-> FirstRate]

\* After mma8451_init, which writes this value to the sensor.
AccInit ==
    /\ reg1 = Reset /\ chip1 = Reset /\ xMutexAcc = Nobody
    /\ apc = [t \in Callers |-> "idle"]
    /\ call = [t \in Callers |-> "none"]
    /\ reg = [t \in Callers |-> Reset]
    /\ tmp = [t \in Callers |-> Reset]
    /\ prevActive = [t \in Callers |-> FALSE]
    /\ asked = TRUE /\ disturbed = FALSE /\ failed = FALSE

Move(t, from, to) == apc[t] = from /\ apc' = [apc EXCEPT ![t] = to]

\* mma8451_write_reg: the copy goes to CTRL_REG1, or nowhere.
Send(value) ==
    \/ chip1' = value /\ UNCHANGED failed
    \/ BusFails /\ failed' = TRUE /\ UNCHANGED chip1

Begin(t, name) ==
    /\ call' = [call EXCEPT ![t] = name]
    /\ disturbed' = (disturbed \/ \E u \in Callers \ {t} :
           apc[u] # "idle" /\ "setDataRate" \in {name, call[u]})

-----------------------------------------------------------------------------
SetDataRate(t, rate) ==
    /\ Move(t, "idle", "loadRate")
    /\ Begin(t, "setDataRate")
    /\ reg' = [reg EXCEPT ![t].DR = rate]
    /\ UNCHANGED <<shared, tmp, prevActive, asked, failed>>

LoadRate(t) ==
    /\ Move(t, "loadRate", "storeRate")
    /\ tmp' = [tmp EXCEPT ![t] = [reg1 EXCEPT !.DR = reg[t].DR]]
    /\ UNCHANGED <<shared, call, reg, prevActive, asked, disturbed, failed>>

StoreRate(t) ==
    /\ Move(t, "storeRate", "copy")
    /\ reg1' = tmp[t]
    /\ UNCHANGED <<chip1, xMutexAcc, locals, asked, disturbed, failed>>

\* reg1 is passed by value.
Copy(t) ==
    /\ Move(t, "copy", "take")
    /\ reg' = [reg EXCEPT ![t] = reg1]
    /\ UNCHANGED <<shared, call, tmp, prevActive, asked, disturbed, failed>>

SetCtrlReg1(t, value) ==
    /\ Move(t, "idle", "take")
    /\ Begin(t, "setCtrlReg1")
    /\ reg' = [reg EXCEPT ![t] = value]
    /\ UNCHANGED <<shared, tmp, prevActive, asked, failed>>

\* mma8451_setCtrlReg4 and mma8451_setCtrlReg5, and mma8451_getAccIntCount.
SetCtrlReg45(t) ==
    /\ Move(t, "idle", "take")
    /\ Begin(t, "setCtrlReg45")
    /\ UNCHANGED <<shared, reg, tmp, prevActive, asked, failed>>

GetAccIntCount(t) ==
    /\ Move(t, "idle", "take")
    /\ Begin(t, "getAccIntCount")
    /\ UNCHANGED <<shared, reg, tmp, prevActive, asked, failed>>

\* A slip the runs are tried with: the mutex is not waited for.
TakeAlways(t) ==
    /\ Move(t, "take", CASE call[t] = "setCtrlReg45" -> "test"
                         [] call[t] = "getAccIntCount" -> "give"
                         [] OTHER -> "assign")
    /\ xMutexAcc' = t
    /\ UNCHANGED <<reg1, chip1, locals, asked, disturbed, failed>>

\* The reading of the axes changes nothing.
Take(t) ==
    /\ Move(t, "take", CASE call[t] = "setCtrlReg45" -> "test"
                         [] call[t] = "getAccIntCount" -> "give"
                         [] OTHER -> "assign")
    /\ xMutexAcc = Nobody
    /\ xMutexAcc' = t
    /\ UNCHANGED <<reg1, chip1, locals, asked, disturbed, failed>>

Assign(t) ==
    /\ Move(t, "assign", "test")
    /\ reg1' = reg[t]
    /\ asked' = IF call[t] = "setCtrlReg1" THEN reg[t].ACTIVE ELSE asked
    /\ UNCHANGED <<chip1, xMutexAcc, locals, disturbed, failed>>

-----------------------------------------------------------------------------
\* writeRegWithActiveLow
Test(t) ==
    /\ Move(t, "test", IF reg1.ACTIVE THEN "loadLow" ELSE "data")
    /\ prevActive' = [prevActive EXCEPT ![t] = reg1.ACTIVE]
    /\ UNCHANGED <<shared, call, reg, tmp, asked, disturbed, failed>>

LoadActive(t, from, to, value) ==
    /\ Move(t, from, to)
    /\ tmp' = [tmp EXCEPT ![t] = [reg1 EXCEPT !.ACTIVE = value]]
    /\ UNCHANGED <<shared, call, reg, prevActive, asked, disturbed, failed>>

StoreActive(t, from, to) ==
    /\ Move(t, from, to)
    /\ reg1' = tmp[t]
    /\ UNCHANGED <<chip1, xMutexAcc, locals, asked, disturbed, failed>>

SendReg1(t, from, to) ==
    /\ Move(t, from, to)
    /\ Send(reg1)
    /\ UNCHANGED <<reg1, xMutexAcc, locals, asked, disturbed>>

\* A slip the runs are tried with: the copy is set active, the sensor is not.
RaiseNot(t) ==
    \/ LoadActive(t, "loadHigh", "storeHigh", TRUE)
    \/ StoreActive(t, "storeHigh", "give")

Lower(t) ==
    \/ LoadActive(t, "loadLow", "storeLow", FALSE)
    \/ StoreActive(t, "storeLow", "sendLow")
    \/ SendReg1(t, "sendLow", "data")

Raise(t) ==
    \/ LoadActive(t, "loadHigh", "storeHigh", TRUE)
    \/ StoreActive(t, "storeHigh", "sendHigh")
    \/ SendReg1(t, "sendHigh", "give")

\* The register itself: CTRL_REG1 from the parameter, or another one.
SendData(t) ==
    /\ Move(t, "data", IF prevActive[t] THEN "loadHigh" ELSE "give")
    /\ IF call[t] = "setCtrlReg45" THEN UNCHANGED <<chip1, failed>> ELSE Send(reg[t])
    /\ UNCHANGED <<reg1, xMutexAcc, locals, asked, disturbed>>

GiveMutex(t) ==
    /\ Move(t, "give", "idle")
    /\ xMutexAcc' = Nobody
    /\ call' = [call EXCEPT ![t] = "none"]
    /\ reg' = [reg EXCEPT ![t] = Reset]
    /\ tmp' = [tmp EXCEPT ![t] = Reset]
    /\ prevActive' = [prevActive EXCEPT ![t] = FALSE]
    /\ UNCHANGED <<reg1, chip1, asked, disturbed, failed>>

-----------------------------------------------------------------------------
RunAcc(t) ==
    \/ LoadRate(t) \/ StoreRate(t) \/ Copy(t) \/ Take(t) \/ Assign(t)
    \/ Test(t) \/ Lower(t) \/ SendData(t) \/ Raise(t) \/ GiveMutex(t)

AccNext ==
    \/ \E t \in Callers, rate \in Rates : SetDataRate(t, rate)
    \/ \E t \in Callers, value \in Regs1 : SetCtrlReg1(t, value)
    \/ \E t \in Callers : SetCtrlReg45(t) \/ GetAccIntCount(t) \/ RunAcc(t)

AccSpec == AccInit /\ [][AccNext]_aVars

-----------------------------------------------------------------------------
(***************************************************************************)
(* When every call has returned the sensor holds what the driver believes  *)
(* it holds, even if calls of setDataRate have raced, as long as no        *)
(* transfer failed: the last change of reg1 always reaches the bus.        *)
(***************************************************************************)
CopyIsTrue ==
    (\A t \in Callers : apc[t] = "idle") /\ ~failed => chip1 = reg1

(***************************************************************************)
(* While no call overlaps a setDataRate and no transfer fails, a register  *)
(* is only written in standby (or by the very write that stops the sensor: *)
(* setCtrlReg1 looks at the ACTIVE it is given, not at the one before), and *)
(* when the calls are over the sensor measures if and only if the          *)
(* application last asked it to.                                           *)
(***************************************************************************)
StandbyIsBrief ==
    ~disturbed /\ ~failed =>
        /\ \A t \in Callers : apc[t] = "data" /\ chip1.ACTIVE =>
                                call[t] # "setCtrlReg45" /\ ~reg[t].ACTIVE
        /\ (\A t \in Callers : apc[t] \in {"idle", "take"}) => (chip1.ACTIVE <=> asked)
=============================================================================
