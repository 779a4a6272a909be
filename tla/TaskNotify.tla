----------------------------- MODULE TaskNotify -----------------------------
(***************************************************************************)
(* The direct-to-task notification of the FreeRTOS kernel the framework is *)
(* built on: the pair of TCB fields ulNotifiedValue and ucNotifyState, and *)
(* what each kernel call does to it.  Every module whose tasks sleep until *)
(* an interrupt wakes them keeps one such record per task: GPIO, PWM,      *)
(* analog, I2C, SPI and the application's own timers all share it.         *)
(*                                                                         *)
(* Two calls wait.  ulTaskNotifyTake(pdTRUE, ticks) looks at the VALUE:    *)
(* it sleeps only while that is zero, and returns and clears it.           *)
(* xTaskNotifyWait(0, 0, &value, ticks) looks at the STATE: it sleeps      *)
(* unless that is "received", and with both masks zero clears no bit of    *)
(* the value.  Each has two critical sections with the blocked state       *)
(* between them: the operators come in Enter/Exit pairs, and the modules   *)
(* put their blocked location between the two.                             *)
(***************************************************************************)
EXTENDS Naturals

NotWaiting == "taskNOT_WAITING_NOTIFICATION"
Waiting    == "taskWAITING_NOTIFICATION"
Received   == "taskNOTIFICATION_RECEIVED"

NotifyStates == {NotWaiting, Waiting, Received}

Notification(Values) == [value : Values, state : NotifyStates]

NotifyInit == [value |-> 0, state |-> NotWaiting]

TakeMustBlock(n) == n.value = 0
WaitMustBlock(n) == n.state # Received

TakeEnter(n) == IF TakeMustBlock(n) THEN [n EXCEPT !.state = Waiting] ELSE n
WaitEnter(n) == IF WaitMustBlock(n) THEN [n EXCEPT !.state = Waiting] ELSE n

TakeResult(n) == n.value # 0
WaitResult(n) == n.value

WaitExit(n) == [n EXCEPT !.state = NotWaiting]
TakeExit(n) == [value |-> 0, state |-> NotWaiting]

\* A slip the runs are tried with: the clear forgets to clear.
StateKept(n) == n

\* xTaskNotifyStateClear: a pending notification is forgotten, the value it
\* left behind is not.
StateClear(n) == IF n.state = Received THEN [n EXCEPT !.state = NotWaiting] ELSE n

(***************************************************************************)
(* The notifying calls: vTaskNotifyGiveFromISR increments the value,       *)
(* xTaskNotifyFromISR replaces it (eSetValueWithOverwrite) or leaves it    *)
(* (eNoAction).  Each makes the state "received" and wakes a task that was *)
(* waiting.  A count is only ever taken with pdTRUE, which compares it     *)
(* with zero and clears it: 1 stands for every count above zero.           *)
(***************************************************************************)
Give(n) == [value |-> 1, state |-> Received]

\* A slip the runs are tried with: the value is added to, not replaced.
Accumulate(n, v) == [value |-> n.value + v, state |-> Received]

Overwrite(n, v) == [value |-> v, state |-> Received]
NoAction(n)     == [n EXCEPT !.state = Received]
Wakes(n)        == n.state = Waiting
=============================================================================
