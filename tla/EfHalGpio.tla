------------------------------ MODULE EfHalGpio ------------------------------
(***************************************************************************)
(* The interrupt side of the GPIO service: efHal_gpio_waitForInt,          *)
(* efHal_gpio_setCallBackInt and the routine every port interrupt calls,   *)
(* which looks the pin up in two tables: the callbacks and the waiting     *)
(* tasks.                                                                  *)
(*                                                                         *)
(* Unlike the analog service, neither table is updated in a critical       *)
(* section.  An entry is free while its handle is NULL; claiming it takes  *)
(* a test and two stores, releasing it two stores, and another task or the *)
(* interrupt may come between any two of them.  Each step below is one     *)
(* access to a table or one kernel call.                                   *)
(***************************************************************************)
EXTENDS TaskNotify

CONSTANTS
    Waiters,        \* tasks that call efHal_gpio_waitForInt
    WaitsFor,       \* subset of Waiters \X Pins: the pins each waits for
    Registrars,     \* tasks that call efHal_gpio_setCallBackInt
    Firing,         \* pins whose interrupt is enabled
    IdZero,         \* the pin whose identifier is 0
    Timed,          \* the waiters that pass a finite block time; the others pass
                    \* portMAX_DELAY
    NSlots,         \* EF_HAL_GPIO_TOTAL_WAIT_FOR_INT
    NCallBacks,     \* EF_HAL_GPIO_TOTAL_CALL_BACK
    None            \* NULL, EF_HAL_INVALID_ID

Slots   == 1 .. NSlots
CbSlots == 1 .. NCallBacks
Pins    == Firing \cup {IdZero} \cup {p[2] : p \in WaitsFor}

ASSUME GpioAssumption ==
    /\ WaitsFor \subseteq Waiters \X Pins
    /\ Timed \subseteq Waiters
    /\ NSlots \in Nat \ {0} /\ NCallBacks \in Nat \ {0}
    /\ Waiters \cap Registrars = {}
    /\ None \notin Waiters \cup Registrars \cup Pins /\ None \notin Nat

VARIABLES
    pc,             \* [Waiters -> location in efHal_gpio_waitForInt]
    pin,            \* [Waiters -> Pins \cup {None}] its argument id
    i,              \* [Waiters -> the loop index and, later, the slot in use]
    ret,            \* [Waiters -> BOOLEAN] the local variable ret
    ntf,            \* [Waiters -> notification record]
    taskHandle,     \* [Slots -> Waiters \cup {None}] taskHandle_gpio[].taskHandle
    gpioId,         \* [Slots -> Pins \cup {None}] taskHandle_gpio[].gpioId
    rpc,            \* [Registrars -> location in efHal_gpio_setCallBackInt]
    rpin,           \* [Registrars -> Pins \cup {None}]
    j,              \* [Registrars -> the loop index]
    cbInt,          \* [CbSlots -> Registrars \cup {None}] cb_gpio[].cbInt, named
                    \* by the task that registered it
    cbId,           \* [CbSlots -> Pins \cup {None}] cb_gpio[].gpioId
    seen,           \* history: [Waiters -> TRUE once the pin fired since the
                    \* slot was claimed]
    overlapped      \* history: the tables in which a claim was begun while
                    \* another was being made

waitVars == <<pc, pin, i, ret>>
slotVars == <<taskHandle, gpioId>>
cbVars == <<rpc, rpin, j, cbInt, cbId>>
histVars == <<seen, overlapped>>
vars == <<waitVars, ntf, slotVars, cbVars, histVars>>

Claiming == {"scan", "setId", "setHandle"}
\* The slot names the task, from the second store of the claim to the first
\* store of the release.
Registered == {"clear", "take", "blocked", "woken", "relId"}
Locations == {"idle", "relHandle"} \cup Claiming \cup Registered

TypeOK ==
    /\ pc \in [Waiters -> Locations]
    /\ pin \in [Waiters -> Pins \cup {None}]
    /\ i \in [Waiters -> Slots]
    /\ ret \in [Waiters -> BOOLEAN]
    /\ ntf \in [Waiters -> Notification({0, 1})]
    /\ taskHandle \in [Slots -> Waiters \cup {None}]
    /\ gpioId \in [Slots -> Pins \cup {None}]
    /\ rpc \in [Registrars -> {"idle", "scan", "setId", "setCb"}]
    /\ rpin \in [Registrars -> Pins \cup {None}]
    /\ j \in [Registrars -> CbSlots]
    /\ cbInt \in [CbSlots -> Registrars \cup {None}]
    /\ cbId \in [CbSlots -> Pins \cup {None}]
    /\ seen \in [Waiters -> BOOLEAN]
    /\ overlapped \in SUBSET {"wait", "callBack"}

(***************************************************************************)
(* efHal_gpio_init.  Its second loop clears cb_gpio[].gpioId where it      *)
(* means taskHandle_gpio[].gpioId: the waiting table keeps the identifier  *)
(* 0 it has as static storage.                                             *)
(***************************************************************************)
Init ==
    /\ pc = [t \in Waiters |-> "idle"]
    /\ pin = [t \in Waiters |-> None]
    /\ i = [t \in Waiters |-> 1]
    /\ ret = [t \in Waiters |-> FALSE]
    /\ ntf = [t \in Waiters |-> NotifyInit]
    /\ taskHandle = [s \in Slots |-> None]
    /\ gpioId = [s \in Slots |-> IdZero]
    /\ rpc = [r \in Registrars |-> "idle"]
    /\ rpin = [r \in Registrars |-> None]
    /\ j = [r \in Registrars |-> 1]
    /\ cbInt = [c \in CbSlots |-> None]
    /\ cbId = [c \in CbSlots |-> None]
    /\ seen = [t \in Waiters |-> FALSE]
    /\ overlapped = {}

Goto(t, from, to) == pc[t] = from /\ pc' = [pc EXCEPT ![t] = to]

\* A claim begins: is another one under way in the same table?
BeginClaim(table, others) ==
    overlapped' = IF others THEN overlapped \cup {table} ELSE overlapped

-----------------------------------------------------------------------------
Call(t, p) ==
    /\ Goto(t, "idle", "scan")
    /\ <<t, p>> \in WaitsFor
    /\ BeginClaim("wait", \E u \in Waiters : pc[u] \in Claiming)
    /\ pin' = [pin EXCEPT ![t] = p]
    /\ UNCHANGED <<i, ret, ntf, slotVars, cbVars, seen>>

\* A slip the runs are tried with: the loop goes one entry too far.
ScanPastEnd(t) ==
    /\ pc[t] = "scan"
    /\ \/ /\ taskHandle[i[t]] = None
          /\ pc' = [pc EXCEPT ![t] = "setId"]
          /\ UNCHANGED i
       \/ /\ taskHandle[i[t]] # None
          /\ i' = [i EXCEPT ![t] = @ + 1]
          /\ UNCHANGED pc
    /\ UNCHANGED <<pin, ret, ntf, slotVars, cbVars, histVars>>

\* The loop test; past the last entry the call fails with NO_FREE_SLOT.
Scan(t) ==
    /\ pc[t] = "scan"
    /\ \/ /\ taskHandle[i[t]] = None
          /\ pc' = [pc EXCEPT ![t] = "setId"]
          /\ UNCHANGED <<pin, i>>
       \/ /\ taskHandle[i[t]] # None /\ i[t] < NSlots
          /\ i' = [i EXCEPT ![t] = @ + 1]
          /\ UNCHANGED <<pc, pin>>
       \/ /\ taskHandle[i[t]] # None /\ i[t] = NSlots
          /\ pc' = [pc EXCEPT ![t] = "idle"]
          /\ i' = [i EXCEPT ![t] = 1]
          /\ pin' = [pin EXCEPT ![t] = None]
    /\ UNCHANGED <<ret, ntf, slotVars, cbVars, histVars>>

SetId(t) ==
    /\ Goto(t, "setId", "setHandle")
    /\ gpioId' = [gpioId EXCEPT ![i[t]] = pin[t]]
    /\ UNCHANGED <<pin, i, ret, ntf, taskHandle, cbVars, histVars>>

SetHandle(t) ==
    /\ Goto(t, "setHandle", "clear")
    /\ taskHandle' = [taskHandle EXCEPT ![i[t]] = t]
    /\ seen' = [seen EXCEPT ![t] = FALSE]
    /\ UNCHANGED <<pin, i, ret, ntf, gpioId, cbVars, overlapped>>

\* xTaskNotifyStateClear acts on the handle found in the entry, or on the
\* calling task if that is NULL by now.
ClearState(t) ==
    LET h == taskHandle[i[t]] IN
    /\ Goto(t, "clear", "take")
    /\ ntf' = [ntf EXCEPT ![IF h = None THEN t ELSE h] = StateClear(@)]
    /\ UNCHANGED <<pin, i, ret, slotVars, cbVars, histVars>>

\* ulTaskNotifyTake(pdTRUE, xBlockTime)
Take(t) ==
    /\ Goto(t, "take", IF TakeMustBlock(ntf[t]) THEN "blocked" ELSE "woken")
    /\ ntf' = [ntf EXCEPT ![t] = TakeEnter(@)]
    /\ UNCHANGED <<pin, i, ret, slotVars, cbVars, histVars>>

Timeout(t) ==
    /\ Goto(t, "blocked", "woken")
    /\ t \in Timed
    /\ UNCHANGED <<pin, i, ret, ntf, slotVars, cbVars, histVars>>

Wake(t) ==
    /\ Goto(t, "woken", "relId")
    /\ ret' = [ret EXCEPT ![t] = TakeResult(ntf[t])]
    /\ ntf' = [ntf EXCEPT ![t] = TakeExit(@)]
    /\ UNCHANGED <<pin, i, slotVars, cbVars, histVars>>

\* Slips the runs are tried with: the handle is reset before the identifier;
\* the identifier is not reset.
ReleaseHandleFirst(t) ==
    /\ Goto(t, "relId", "relHandle")
    /\ taskHandle' = [taskHandle EXCEPT ![i[t]] = None]
    /\ UNCHANGED <<pin, i, ret, ntf, gpioId, cbVars, histVars>>

ReleaseIdKept(t) ==
    /\ Goto(t, "relId", "relHandle")
    /\ UNCHANGED <<pin, i, ret, ntf, slotVars, cbVars, histVars>>

ReleaseId(t) ==
    /\ Goto(t, "relId", "relHandle")
    /\ gpioId' = [gpioId EXCEPT ![i[t]] = None]
    /\ UNCHANGED <<pin, i, ret, ntf, taskHandle, cbVars, histVars>>

ReleaseHandle(t) ==
    /\ Goto(t, "relHandle", "idle")
    /\ taskHandle' = [taskHandle EXCEPT ![i[t]] = None]
    /\ i' = [i EXCEPT ![t] = 1]
    /\ pin' = [pin EXCEPT ![t] = None]
    /\ ret' = [ret EXCEPT ![t] = FALSE]
    /\ seen' = [seen EXCEPT ![t] = FALSE]
    /\ UNCHANGED <<ntf, gpioId, cbVars, overlapped>>

-----------------------------------------------------------------------------
\* efHal_gpio_setCallBackInt
SetCallBackInt(r, p) ==
    /\ rpc[r] = "idle"
    /\ BeginClaim("callBack", \E q \in Registrars : rpc[q] # "idle")
    /\ rpc' = [rpc EXCEPT ![r] = "scan"]
    /\ rpin' = [rpin EXCEPT ![r] = p]
    /\ UNCHANGED <<j, cbInt, cbId, waitVars, ntf, slotVars, seen>>

\* A slip the runs are tried with: the entry is not tested for being free.
CbScanFirst(r) ==
    /\ rpc[r] = "scan"
    /\ rpc' = [rpc EXCEPT ![r] = "setId"]
    /\ UNCHANGED <<rpin, j, cbInt, cbId, waitVars, ntf, slotVars, histVars>>

CbScan(r) ==
    /\ rpc[r] = "scan"
    /\ \/ /\ cbInt[j[r]] = None
          /\ rpc' = [rpc EXCEPT ![r] = "setId"]
          /\ UNCHANGED <<rpin, j>>
       \/ /\ cbInt[j[r]] # None /\ j[r] < NCallBacks
          /\ j' = [j EXCEPT ![r] = @ + 1]
          /\ UNCHANGED <<rpc, rpin>>
       \/ /\ cbInt[j[r]] # None /\ j[r] = NCallBacks
          /\ rpc' = [rpc EXCEPT ![r] = "idle"]
          /\ j' = [j EXCEPT ![r] = 1]
          /\ rpin' = [rpin EXCEPT ![r] = None]
    /\ UNCHANGED <<cbInt, cbId, waitVars, ntf, slotVars, histVars>>

CbSetId(r) ==
    /\ rpc[r] = "setId"
    /\ rpc' = [rpc EXCEPT ![r] = "setCb"]
    /\ cbId' = [cbId EXCEPT ![j[r]] = rpin[r]]
    /\ UNCHANGED <<rpin, j, cbInt, waitVars, ntf, slotVars, histVars>>

CbSetCb(r) ==
    /\ rpc[r] = "setCb"
    /\ rpc' = [rpc EXCEPT ![r] = "idle"]
    /\ cbInt' = [cbInt EXCEPT ![j[r]] = r]
    /\ j' = [j EXCEPT ![r] = 1]
    /\ rpin' = [rpin EXCEPT ![r] = None]
    /\ UNCHANGED <<cbId, waitVars, ntf, slotVars, histVars>>

-----------------------------------------------------------------------------
\* n is the first entry of a table that holds p.
First(n, table, p) == table[n] = p /\ \A m \in DOMAIN table : m < n => table[m] # p

\* The callback the routine calls for pin p, None if there is none to call.
Callee(p) ==
    IF \E c \in CbSlots : First(c, cbId, p)
    THEN cbInt[CHOOSE c \in CbSlots : First(c, cbId, p)] ELSE None

\* The first entry for p in a table has no handle, which the routine reports
\* as an error.
NullEntry(p) ==
    \/ \E c \in CbSlots : First(c, cbId, p) /\ cbInt[c] = None
    \/ \E s \in Slots : First(s, gpioId, p) /\ taskHandle[s] = None

(***************************************************************************)
(* efHal_internal_gpio_InterruptRoutine: the first callback entry and the  *)
(* first waiting entry that hold the pin are served, and no other.  (The   *)
(* callback is application code; that it is called is Callee.)             *)
(***************************************************************************)
InterruptRoutine(p) ==
    /\ \/ /\ \A s \in Slots : First(s, gpioId, p) => taskHandle[s] = None
          /\ UNCHANGED <<ntf, pc>>
       \/ \E s \in Slots :
             LET t == taskHandle[s] IN
             /\ First(s, gpioId, p) /\ t # None
             /\ ntf' = [ntf EXCEPT ![t] = Give(@)]
             /\ pc' = IF Wakes(ntf[t]) /\ pc[t] = "blocked"
                      THEN [pc EXCEPT ![t] = "woken"] ELSE pc
    /\ seen' = [t \in Waiters |-> seen[t] \/ (pin[t] = p /\ pc[t] \in Registered)]
    /\ UNCHANGED <<pin, i, ret, slotVars, cbVars, overlapped>>

-----------------------------------------------------------------------------
Run(t) ==
    \/ Scan(t) \/ SetId(t) \/ SetHandle(t) \/ ClearState(t)
    \/ Take(t) \/ Wake(t) \/ ReleaseId(t) \/ ReleaseHandle(t)

RunRegistrar(r) == CbScan(r) \/ CbSetId(r) \/ CbSetCb(r)

Next ==
    \/ \E t \in Waiters, p \in Pins : Call(t, p)
    \/ \E t \in Waiters : Run(t)
    \/ \E t \in Waiters : Timeout(t)
    \/ \E r \in Registrars, p \in Firing : SetCallBackInt(r, p)
    \/ \E r \in Registrars : RunRegistrar(r)
    \/ \E p \in Firing : InterruptRoutine(p)

Spec == Init /\ [][Next]_vars

-----------------------------------------------------------------------------
(***************************************************************************)
(* As long as claims do not overlap, a task inside the call is the one its *)
(* slot names, with its pin, so no two tasks share a slot: the discipline  *)
(* an application needs, since the code takes no critical section.         *)
(***************************************************************************)
SlotsOwned ==
    "wait" \notin overlapped =>
        \A t \in Waiters : pc[t] \in Registered =>
            taskHandle[i[t]] = t /\ gpioId[i[t]] = pin[t]

\* No other task waits for a pin that t waits for.
Private(t) ==
    \A p \in Pins : <<t, p>> \in WaitsFor => \A u \in Waiters \ {t} : <<u, p>> \notin WaitsFor

(***************************************************************************)
(* As long as claims do not overlap, a task with pins of its own never     *)
(* sleeps through an interrupt that came after its slot was claimed: not   *)
(* before it blocks, and not while it does.                                *)
(***************************************************************************)
NotSleptThrough ==
    "wait" \notin overlapped =>
        \A t \in Waiters : Private(t) /\ pc[t] = "blocked" => ~seen[t]

(***************************************************************************)
(* When every call has returned, every slot is free again and holds no pin *)
(* (or has never been used), even if claims raced for the same slot.       *)
(***************************************************************************)
NoSlotLeaks ==
    (\A t \in Waiters : pc[t] = "idle") =>
        \A s \in Slots : taskHandle[s] = None /\ gpioId[s] \in {None, IdZero}

(***************************************************************************)
(* As long as registrations do not overlap, a pin keeps the callback it    *)
(* has: a later registration for any pin never displaces it.               *)
(***************************************************************************)
CallBackKept ==
    [][\A p \in Firing :
          Callee(p) # None /\ "callBack" \notin overlapped' => Callee(p)' = Callee(p)]_vars

(***************************************************************************)
(* Whenever an interrupt comes, the routine finds no entry with the pin    *)
(* but without a handle, as the error it would report says must not be.    *)
(***************************************************************************)
NoNullHandle == \A p \in Firing : ~NullEntry(p)

(***************************************************************************)
(* waitForInt returns true only if its pin has had an interrupt since the  *)
(* call claimed its slot.                                                  *)
(***************************************************************************)
TrueMeansInterrupt ==
    \A t \in Waiters : pc[t] = "relId" /\ ret[t] => seen[t]
=============================================================================
