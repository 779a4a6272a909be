---------------------------- MODULE MCApplication ----------------------------
(***************************************************************************)
(* An application: its tasks wait for a pin and use the bus (NotifyShared); *)
(* beside them run the accelerometer driver (Mma8451) and modules that      *)
(* share no state with the services or with each other.  One of them moves  *)
(* in a behaviour, since the steps of the others cannot be told by it.      *)
(***************************************************************************)
EXTENDS NotifyShared, SoftTimers, Mma8451, EfLeds, EfHalPwm, TLC

CONSTANTS t1, t2, out1, out2

\* The values of constants that are functions or relations.
MCCalls == t1 :> {"get", "getAndClear", "close"} @@ t2 :> {"clear"}
MCBase  == t1 :> 1 @@ t2 :> 2
MCTime  == [blinky |-> <<2, 2>>, blinkyFast |-> <<1, 1>>,
            heartBeat |-> <<1, 1, 1, 2>>, pulse |-> <<2, 1>>]
MCWaitsOn == {<<t1, out1>>, <<t2, out2>>}

VARIABLE part   \* the module that moves

ApplicationVars == <<part, vars, tVars, aVars, lVars, pVars>>

ApplicationInit ==
    /\ Init /\ TimersInit /\ AccInit /\ LedsInit /\ PwmInit
    /\ part \in {"services", "timers", "accelerometer", "leds", "pwm"}

ApplicationNext ==
    /\ UNCHANGED part
    /\ \/ part = "services" /\ Next /\ UNCHANGED <<tVars, aVars, lVars, pVars>>
       \/ part = "timers" /\ TimersNext /\ UNCHANGED <<vars, aVars, lVars, pVars>>
       \/ part = "accelerometer" /\ AccNext /\ UNCHANGED <<vars, tVars, lVars, pVars>>
       \/ part = "leds" /\ LedsNext /\ UNCHANGED <<vars, tVars, aVars, pVars>>
       \/ part = "pwm" /\ PwmNext /\ UNCHANGED <<vars, tVars, aVars, lVars>>

ApplicationSpec == ApplicationInit /\ [][ApplicationNext]_ApplicationVars
=============================================================================
