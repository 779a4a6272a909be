----------------------------- MODULE EfHalAnalog -----------------------------
(***************************************************************************)
(* The analog input service: efHal_analog_startWaitRead and the slot table *)
(* through which the end-of-conversion interrupt finds the task to wake,   *)
(* over the converter driver of bsp_frdmkl46z_analog.c, whose one          *)
(* converter is shared by all inputs behind a binary semaphore.            *)
(*                                                                         *)
(* The slot is claimed and released in critical sections; the conversion   *)
(* in between is not tied to the slot, and the wake-up goes through the    *)
(* task's notification VALUE, which nothing clears when a call begins.     *)
(***************************************************************************)
EXTENDS TaskNotify

CONSTANTS
    Tasks,          \* tasks that read analog inputs
    Inputs,         \* identifiers the driver maps to a channel
    Reads,          \* subset of Tasks \X ids: who waits for which identifier
    Starts,         \* subset of Tasks \X ids: who only starts a conversion
    Timed,          \* the tasks that pass a finite block time; the others pass
                    \* portMAX_DELAY
    NSlots,         \* EF_HAL_ANALOG_TOTAL_WAIT_CONV
    NCallBacks,     \* EF_HAL_ANALOG_TOTAL_CALL_BACK_CONV
    CallBacks,      \* callbacks an application may register
    None            \* NULL, EF_HAL_INVALID_ID, -1

Slots   == 1 .. NSlots
CbSlots == 1 .. NCallBacks
Ids     == Inputs \cup {p[2] : p \in Reads \cup Starts}

ASSUME AnalogAssumption ==
    /\ Reads \subseteq Tasks \X {p[2] : p \in Reads}
    /\ Starts \subseteq Tasks \X {p[2] : p \in Starts}
    /\ Timed \subseteq Tasks
    /\ NSlots \in Nat /\ NCallBacks \in Nat
    /\ None \notin Tasks /\ None \notin Ids /\ None \notin Slots
    /\ None \notin CallBacks

VARIABLES
    pc,             \* [Tasks -> location]
    id,             \* [Tasks -> Ids \cup {None}] the argument of the call
    waits,          \* [Tasks -> TRUE if the call is startWaitRead]
    slot,           \* [Tasks -> Slots \cup {None}] the local variable slot
    ret,            \* [Tasks -> BOOLEAN] the local variable ret
    ntf,            \* [Tasks -> notification record]
    slotTask,       \* [Slots -> Tasks \cup {None}] taskHandle_analog[].taskHandle
    slotId,         \* [Slots -> Ids \cup {None}] taskHandle_analog[].gpioId
    endConvCB,      \* [CbSlots -> CallBacks \cup {None}]
    semphAdc,       \* {0, 1} the converter semaphore
    indexMap,       \* Ids \cup {None} the input whose result comes next
    adc,            \* Inputs \cup {None} the input being converted
    adcVal,         \* [Inputs -> Inputs \cup {None}] the input its sample is of
    convFor,        \* history: the task whose present call started the conversion
    own             \* history: [Tasks -> TRUE once the call's conversion has ended]

callVars == <<id, waits>>
slotVars == <<slotTask, slotId>>
histVars == <<convFor, own>>
adcVars == <<semphAdc, indexMap, adc, adcVal>>
vars == <<pc, callVars, slot, ret, ntf, slotVars, endConvCB, adcVars, histVars>>

Locations == {"idle", "claim", "sem", "start", "take", "blocked", "woken",
              "read", "release"}

TypeOK ==
    /\ pc \in [Tasks -> Locations]
    /\ id \in [Tasks -> Ids \cup {None}]
    /\ waits \in [Tasks -> BOOLEAN]
    /\ slot \in [Tasks -> Slots \cup {None}]
    /\ ret \in [Tasks -> BOOLEAN]
    /\ ntf \in [Tasks -> Notification({0, 1})]
    /\ slotTask \in [Slots -> Tasks \cup {None}]
    /\ slotId \in [Slots -> Ids \cup {None}]
    /\ endConvCB \in [CbSlots -> CallBacks \cup {None}]
    /\ semphAdc \in {0, 1}
    /\ indexMap \in Ids \cup {None}
    /\ adc \in Inputs \cup {None}
    /\ adcVal \in [Inputs -> Inputs \cup {None}]
    /\ convFor \in Tasks \cup {None}
    /\ own \in [Tasks -> BOOLEAN]

\* efHal_analog_init and bsp_frdmkl46z_analog_init.
Init ==
    /\ pc = [t \in Tasks |-> "idle"]
    /\ id = [t \in Tasks |-> None]
    /\ waits = [t \in Tasks |-> FALSE]
    /\ slot = [t \in Tasks |-> None]
    /\ ret = [t \in Tasks |-> FALSE]
    /\ ntf = [t \in Tasks |-> NotifyInit]
    /\ slotTask = [s \in Slots |-> None]
    /\ slotId = [s \in Slots |-> None]
    /\ endConvCB = [c \in CbSlots |-> None]
    /\ semphAdc = 1
    /\ indexMap = None /\ adc = None
    /\ adcVal = [i \in Inputs |-> None]
    /\ convFor = None
    /\ own = [t \in Tasks |-> FALSE]

Goto(t, from, to) == pc[t] = from /\ pc' = [pc EXCEPT ![t] = to]

\* The call ends and its arguments are gone.
Return(t) ==
    /\ pc' = [pc EXCEPT ![t] = "idle"]
    /\ id' = [id EXCEPT ![t] = None]
    /\ waits' = [waits EXCEPT ![t] = FALSE]

\* s is the first index of a table at which P holds.
First(s, table, value) ==
    /\ table[s] = value
    /\ \A r \in DOMAIN table : r < s => table[r] # value

-----------------------------------------------------------------------------
\* A call of startWaitRead (w TRUE) or of startConv alone.
Call(t, i, w) ==
    /\ Goto(t, "idle", IF w THEN "claim" ELSE "sem")
    /\ <<t, i>> \in IF w THEN Reads ELSE Starts
    /\ id' = [id EXCEPT ![t] = i]
    /\ waits' = [waits EXCEPT ![t] = w]
    /\ ret' = [ret EXCEPT ![t] = w]
    /\ UNCHANGED <<slot, ntf, slotVars, endConvCB, adcVars, histVars>>

\* The critical section that searches for a free slot.
ClaimSlot(t) ==
    /\ Goto(t, "claim", "sem")
    /\ \E s \in Slots :
          /\ First(s, slotId, None)
          /\ slotId' = [slotId EXCEPT ![s] = id[t]]
          /\ slotTask' = [slotTask EXCEPT ![s] = t]
          /\ slot' = [slot EXCEPT ![t] = s]
    /\ ntf' = [ntf EXCEPT ![t] = StateClear(@)]
    /\ UNCHANGED <<callVars, ret, endConvCB, adcVars, histVars>>

NoFreeSlot(t) ==
    /\ Goto(t, "claim", "release")
    /\ \A s \in Slots : slotId[s] # None
    /\ ret' = [ret EXCEPT ![t] = FALSE]
    /\ UNCHANGED <<callVars, slot, ntf, slotVars, endConvCB, adcVars, histVars>>

(***************************************************************************)
(* startConv of the driver: wait for the converter, then record which      *)
(* input it works for and start it, or give it back if the identifier is   *)
(* not an analog input.                                                    *)
(***************************************************************************)
TakeConverter(t) ==
    /\ Goto(t, "sem", "start")
    /\ semphAdc = 1
    /\ semphAdc' = 0
    /\ UNCHANGED <<callVars, slot, ret, ntf, slotVars, endConvCB, indexMap, adc, adcVal, histVars>>

\* Slips the runs are tried with: getIndexMap's result is not checked; the
\* semaphore is given back once the conversion is started.
StartConvUnchecked(t) ==
    /\ pc[t] = "start"
    /\ indexMap' = id[t]
    /\ adc' = id[t]
    /\ convFor' = IF waits[t] THEN t ELSE None
    /\ IF waits[t] THEN pc' = [pc EXCEPT ![t] = "take"] /\ UNCHANGED callVars
                   ELSE Return(t)
    /\ UNCHANGED <<slot, ret, ntf, slotVars, endConvCB, semphAdc, adcVal, own>>

StartConvGives(t) ==
    /\ pc[t] = "start"
    /\ id[t] \in Inputs
    /\ indexMap' = id[t]
    /\ adc' = id[t]
    /\ semphAdc' = 1
    /\ convFor' = IF waits[t] THEN t ELSE None
    /\ IF waits[t] THEN pc' = [pc EXCEPT ![t] = "take"] /\ UNCHANGED callVars
                   ELSE Return(t)
    /\ UNCHANGED <<slot, ret, ntf, slotVars, endConvCB, adcVal, own>>

StartConv(t) ==
    /\ pc[t] = "start"
    /\ id[t] \in Inputs
    /\ indexMap' = id[t]
    /\ adc' = id[t]
    /\ convFor' = IF waits[t] THEN t ELSE None
    /\ IF waits[t] THEN pc' = [pc EXCEPT ![t] = "take"] /\ UNCHANGED callVars
                   ELSE Return(t)
    /\ UNCHANGED <<slot, ret, ntf, slotVars, endConvCB, semphAdc, adcVal, own>>

StartUnmapped(t) ==
    /\ pc[t] = "start"
    /\ id[t] \notin Inputs
    /\ indexMap' = None
    /\ semphAdc' = 1
    /\ ret' = [ret EXCEPT ![t] = FALSE]
    /\ IF waits[t] THEN pc' = [pc EXCEPT ![t] = "release"] /\ UNCHANGED callVars
                   ELSE Return(t)
    /\ UNCHANGED <<slot, ntf, slotVars, endConvCB, adc, adcVal, histVars>>

\* ulTaskNotifyTake(pdTRUE, xBlockTime)
Take(t) ==
    /\ Goto(t, "take", IF TakeMustBlock(ntf[t]) THEN "blocked" ELSE "woken")
    /\ ntf' = [ntf EXCEPT ![t] = TakeEnter(@)]
    /\ UNCHANGED <<callVars, slot, ret, slotVars, endConvCB, adcVars, histVars>>

Timeout(t) ==
    /\ Goto(t, "blocked", "woken")
    /\ t \in Timed
    /\ UNCHANGED <<callVars, slot, ret, ntf, slotVars, endConvCB, adcVars, histVars>>

Wake(t) ==
    /\ Goto(t, "woken", IF TakeResult(ntf[t]) THEN "read" ELSE "release")
    /\ ret' = [ret EXCEPT ![t] = TakeResult(ntf[t])]
    /\ ntf' = [ntf EXCEPT ![t] = TakeExit(@)]
    /\ UNCHANGED <<callVars, slot, slotVars, endConvCB, adcVars, histVars>>

\* callBacks.aRead stores adcVal in the caller's result.
Read(t) ==
    /\ Goto(t, "read", "release")
    /\ UNCHANGED <<callVars, slot, ret, ntf, slotVars, endConvCB, adcVars, histVars>>

\* A slip the runs are tried with: the handle is reset, the identifier not.
ReleaseHandleOnly(t) ==
    /\ pc[t] = "release"
    /\ slotTask' = [s \in Slots |-> IF s = slot[t] THEN None ELSE slotTask[s]]
    /\ slot' = [slot EXCEPT ![t] = None]
    /\ ret' = [ret EXCEPT ![t] = FALSE]
    /\ own' = [own EXCEPT ![t] = FALSE]
    /\ convFor' = IF convFor = t THEN None ELSE convFor
    /\ Return(t)
    /\ UNCHANGED <<ntf, slotId, endConvCB, adcVars>>

ReleaseSlot(t) ==
    /\ pc[t] = "release"
    /\ slotId' = [s \in Slots |-> IF s = slot[t] THEN None ELSE slotId[s]]
    /\ slotTask' = [s \in Slots |-> IF s = slot[t] THEN None ELSE slotTask[s]]
    /\ slot' = [slot EXCEPT ![t] = None]
    /\ ret' = [ret EXCEPT ![t] = FALSE]
    /\ own' = [own EXCEPT ![t] = FALSE]
    /\ convFor' = IF convFor = t THEN None ELSE convFor
    /\ Return(t)
    /\ UNCHANGED <<ntf, endConvCB, adcVars>>

\* efHal_analog_setEndConvCB; with no free slot it changes nothing.
SetEndConvCB(cb) ==
    /\ \E c \in CbSlots :
          /\ First(c, endConvCB, None)
          /\ endConvCB' = [endConvCB EXCEPT ![c] = cb]
    /\ UNCHANGED <<pc, callVars, slot, ret, ntf, slotVars, adcVars, histVars>>

-----------------------------------------------------------------------------
(***************************************************************************)
(* efHal_internal_analog_endConvInterruptRoutine: the first slot that      *)
(* holds the identifier is notified, and no other.  (The registered        *)
(* callbacks are application code and touch none of this state.)           *)
(***************************************************************************)
EndConv(i) ==
    \/ /\ \A s \in Slots : First(s, slotId, i) => slotTask[s] = None
       /\ UNCHANGED <<ntf, pc>>
    \/ \E s \in Slots :
          LET t == slotTask[s] IN
          /\ First(s, slotId, i) /\ t # None
          /\ ntf' = [ntf EXCEPT ![t] = Give(@)]
          /\ pc' = IF Wakes(ntf[t]) /\ pc[t] = "blocked"
                   THEN [pc EXCEPT ![t] = "woken"] ELSE pc

\* ADC0_IRQHandler
AdcIrq ==
    /\ adc # None
    /\ adcVal' = [adcVal EXCEPT ![indexMap] = adc]
    /\ semphAdc' = 1
    /\ EndConv(indexMap)
    /\ adc' = None
    /\ convFor' = None
    /\ own' = [t \in Tasks |-> own[t] \/ t = convFor]
    /\ UNCHANGED <<callVars, slot, ret, slotVars, endConvCB, indexMap>>

-----------------------------------------------------------------------------
Run(t) ==
    \/ ClaimSlot(t) \/ NoFreeSlot(t)
    \/ TakeConverter(t) \/ StartConv(t) \/ StartUnmapped(t)
    \/ Take(t) \/ Wake(t) \/ Read(t) \/ ReleaseSlot(t)

Next ==
    \/ \E t \in Tasks, i \in Ids, w \in BOOLEAN : Call(t, i, w)
    \/ \E t \in Tasks : Run(t)
    \/ \E t \in Tasks : Timeout(t)
    \/ \E cb \in CallBacks : SetEndConvCB(cb)
    \/ AdcIrq

(***************************************************************************)
(* Ready tasks run, a conversion ends, and so does a finite block time.    *)
(* The semaphore favours nobody: a task may wait for the converter for     *)
(* ever while others use it.                                               *)
(***************************************************************************)
Fairness ==
    /\ WF_vars(AdcIrq)
    /\ \A t \in Tasks : WF_vars(Run(t)) /\ WF_vars(Timeout(t))

SafeSpec == Init /\ [][Next]_vars
Spec == SafeSpec /\ Fairness

-----------------------------------------------------------------------------
(***************************************************************************)
(* A task inside startWaitRead that was given a slot is the one task the   *)
(* slot names, with the identifier it waits for; a slot that names nobody  *)
(* is free.  So two tasks never share a slot and none leaks, whatever the  *)
(* order of claims, timeouts, failures and interrupts.                     *)
(***************************************************************************)
SlotsOwned ==
    /\ \A t \in Tasks :
          slot[t] # None => slotTask[slot[t]] = t /\ slotId[slot[t]] = id[t]
    /\ \A s \in Slots :
          IF slotId[s] = None THEN slotTask[s] = None
          ELSE slotTask[s] \in Tasks /\ slot[slotTask[s]] = s

(***************************************************************************)
(* While a conversion is under way the converter is taken, no other task   *)
(* is about to start one, and indexMap names the converted input: the      *)
(* handler stores the result under the input it was measured on.           *)
(***************************************************************************)
OneConversion ==
    /\ adc # None =>
          /\ semphAdc = 0 /\ indexMap = adc
          /\ \A t \in Tasks : pc[t] # "start"
    /\ \A t, u \in Tasks : pc[t] = "start" /\ pc[u] = "start" => t = u
    /\ semphAdc = 0 => adc # None \/ \E t \in Tasks : pc[t] = "start"
    /\ \A i \in Inputs : adcVal[i] \in {None, i}

\* A task that waits without a time limit, for inputs nobody else uses.
Undisturbed(t) ==
    /\ t \notin Timed
    /\ \A i \in Ids : <<t, i>> \in Reads =>
          \A u \in Tasks : <<u, i>> \notin Starts /\ (<<u, i>> \in Reads => u = t)

(***************************************************************************)
(* For an undisturbed task, startWaitRead returns true only after the      *)
(* conversion it started has ended: the value is not older than the call,  *)
(* whatever the tasks with time limits do to the converter and the table.  *)
(***************************************************************************)
FreshRead ==
    \A t \in Tasks : Undisturbed(t) /\ pc[t] = "release" /\ ret[t] => own[t]

(***************************************************************************)
(* A task whose conversion was started returns, if it has a time limit or  *)
(* is undisturbed: the interrupt finds its slot and not another's.         *)
(***************************************************************************)
WaiterReturns ==
    \A t \in Tasks : t \in Timed \/ Undisturbed(t) =>
        (pc[t] \in {"take", "blocked"} ~> pc[t] = "idle")
=============================================================================
