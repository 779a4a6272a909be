----------------------------- MODULE BoardPorts -----------------------------
(***************************************************************************)
(* The port interrupts of the KL46Z over the GPIO service.  An edge on a   *)
(* pin sets its flag in the port's status register; a handler goes through *)
(* the pins of its port, calls the service for those it takes for          *)
(* flagged and then clears their flags.  Tasks do not run while a handler  *)
(* does or is requested; edges may come at any moment.                     *)
(***************************************************************************)
EXTENDS EfHalGpio

CONSTANTS
    PortA           \* the pins on port A; the others are on ports C and D

ASSUME PortAssumption == PortA \subseteq Pins

VARIABLES
    isfr,           \* the pins whose interrupt status flag is set
    handler,        \* the pins of the handler that runs, {} if none does
    todo,           \* those its loops have not come to yet
    served,         \* the pin it has notified and whose flag it will clear next
    edge            \* history: [Waiters -> TRUE once the pin had an edge since
                    \* the slot was claimed]

portVars == <<isfr, handler, todo, served>>
gpioVars == <<waitVars, ntf, slotVars, cbVars, histVars>>
allVars == <<vars, portVars, edge>>

PortInit ==
    /\ Init
    /\ isfr = {}
    /\ handler = {}
    /\ todo = {}
    /\ served = None
    /\ edge = [t \in Waiters |-> FALSE]

-----------------------------------------------------------------------------
\* A task takes a step of the GPIO service.  A raised request preempts it.
TaskStep ==
    /\ handler = {} /\ isfr = {}
    /\ \/ \E t \in Waiters, p \in Pins : Call(t, p)
       \/ \E t \in Waiters : Run(t)
       \/ \E t \in Waiters : Timeout(t)
       \/ \E r \in Registrars, p \in Firing : SetCallBackInt(r, p)
       \/ \E r \in Registrars : RunRegistrar(r)
    /\ edge' = [t \in Waiters |-> edge[t] /\ pc'[t] # "idle"]
    /\ UNCHANGED portVars

Edge(p) ==
    /\ isfr' = isfr \cup {p}
    /\ edge' = [t \in Waiters |-> edge[t] \/ (pin[t] = p /\ pc[t] \in Registered)]
    /\ UNCHANGED <<vars, handler, todo, served>>

\* The request of a port is raised while any of its flags is set.
Enter(port) ==
    /\ handler = {}
    /\ port \cap isfr # {}
    /\ handler' = port
    /\ todo' = port
    /\ UNCHANGED <<vars, isfr, served, edge>>

\* A slip the runs are tried with: every port's handler tests like port A's.
FlaggedAlways(p) == TRUE

\* PORTC_PORTD_IRQHandler tests intFlags & (1 << j); PORTA_IRQHandler tests
\* intFlags | (1 << j), which no pin fails.
Flagged(p) == p \in isfr \/ p \in PortA

Skip(p) ==
    /\ served = None
    /\ p \in todo
    /\ ~Flagged(p)
    /\ todo' = todo \ {p}
    /\ UNCHANGED <<vars, isfr, handler, served, edge>>

\* identifyAndNotifyGpioHandler
Notify(p) ==
    /\ served = None
    /\ p \in todo
    /\ Flagged(p)
    /\ InterruptRoutine(p)
    /\ todo' = todo \ {p}
    /\ served' = p
    /\ UNCHANGED <<isfr, handler, edge>>

\* A slip the runs are tried with: all flags of the port are cleared.
ClearFlags ==
    /\ served # None
    /\ isfr' = isfr \ handler
    /\ served' = None
    /\ UNCHANGED <<vars, handler, todo, edge>>

ClearFlag ==
    /\ served # None
    /\ isfr' = isfr \ {served}
    /\ served' = None
    /\ UNCHANGED <<vars, handler, todo, edge>>

Leave ==
    /\ handler # {} /\ todo = {} /\ served = None
    /\ handler' = {}
    /\ UNCHANGED <<vars, isfr, todo, served, edge>>

PortNext ==
    \/ TaskStep
    \/ \E p \in Firing : Edge(p)
    \/ \E port \in {PortA, Pins \ PortA} : Enter(port)
    \/ \E p \in Pins : Skip(p) \/ Notify(p)
    \/ ClearFlag \/ Leave

PortSpec == PortInit /\ [][PortNext]_allVars

-----------------------------------------------------------------------------
(***************************************************************************)
(* A task with pins of its own, asleep although its pin had an edge, has   *)
(* the flag still set: the handler is yet to come.  An edge between the    *)
(* call of the service and the clearing of the flag, which leaves no flag, *)
(* finds the task awake already.                                           *)
(***************************************************************************)
EdgeNotLost ==
    "wait" \notin overlapped =>
        \A t \in Waiters :
            Private(t) /\ pc[t] = "blocked" /\ edge[t] => pin[t] \in isfr

(***************************************************************************)
(* The interrupt a task that waits for a pin of ports C and D has seen was *)
(* an edge of that pin, and came after its slot was claimed.  (The handler *)
(* of port A reports all its pins, whichever had the edge.)                *)
(***************************************************************************)
SeenMeansEdge == \A t \in Waiters : seen[t] /\ pin[t] \notin PortA => edge[t]
=============================================================================
