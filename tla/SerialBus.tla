------------------------------ MODULE SerialBus ------------------------------
(***************************************************************************)
(* What the I2C and SPI services of efHal promise a task, without mutexes, *)
(* notifications or interrupts: a device serves one task at a time, a      *)
(* transaction goes through the wire at most once and only for the task    *)
(* that holds the device, and the task is answered with the outcome of its *)
(* own transaction, after that transaction has ended and never before.     *)
(***************************************************************************)
CONSTANTS
    Tasks,      \* the tasks that use the bus
    Devices,    \* the registered device handles
    Results,    \* what a transaction may end with
    Refusals,   \* the results that mean nothing was put on the wire
    None        \* no task, or no result yet

VARIABLES
    holder,     \* [Devices -> Tasks \cup {None}] the task being served
    phase,      \* [Devices -> {"free", "ready", "busy", "done"}]
    result,     \* [Devices -> Results \cup {None}] how the transaction ended
    reply       \* [Tasks -> Results \cup {None}] what the last call returned

vars == <<holder, phase, result, reply>>

Init ==
    /\ holder = [d \in Devices |-> None]
    /\ phase = [d \in Devices |-> "free"]
    /\ result = [d \in Devices |-> None]
    /\ reply = [t \in Tasks |-> None]

Acquire(t, d) ==
    /\ phase[d] = "free"
    /\ \A e \in Devices : holder[e] # t
    /\ holder' = [holder EXCEPT ![d] = t]
    /\ phase' = [phase EXCEPT ![d] = "ready"]
    /\ UNCHANGED <<result, reply>>

Start(d) ==
    /\ phase[d] = "ready"
    /\ phase' = [phase EXCEPT ![d] = "busy"]
    /\ UNCHANGED <<holder, result, reply>>

\* The transaction ends on the wire, or is refused before it got there.
End(d) ==
    /\ \/ phase[d] = "busy" /\ \E r \in Results : result' = [result EXCEPT ![d] = r]
       \/ phase[d] = "ready" /\ \E r \in Refusals : result' = [result EXCEPT ![d] = r]
    /\ phase' = [phase EXCEPT ![d] = "done"]
    /\ UNCHANGED <<holder, reply>>

Answer(d) ==
    /\ phase[d] = "done"
    /\ reply' = [reply EXCEPT ![holder[d]] = result[d]]
    /\ holder' = [holder EXCEPT ![d] = None]
    /\ phase' = [phase EXCEPT ![d] = "free"]
    /\ result' = [result EXCEPT ![d] = None]

\* A call without a device is answered at once.
Refuse(t) ==
    /\ \A e \in Devices : holder[e] # t
    /\ \E r \in Results : reply' = [reply EXCEPT ![t] = r]
    /\ UNCHANGED <<holder, phase, result>>

Next ==
    \/ \E t \in Tasks, d \in Devices : Acquire(t, d)
    \/ \E d \in Devices : Start(d) \/ End(d) \/ Answer(d)
    \/ \E t \in Tasks : Refuse(t)

Spec == Init /\ [][Next]_vars
=============================================================================
