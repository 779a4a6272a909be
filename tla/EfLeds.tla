-------------------------------- MODULE EfLeds --------------------------------
(***************************************************************************)
(* The LED sequencer of modules/utils: efLeds_msg, called from a task,     *)
(* changes the three fields of an LED's state and its pin one after the    *)
(* other; vCB_leds, the callback of a periodic timer, works on the same    *)
(* fields.  On the MKL46Z the timer task has the highest priority, so the  *)
(* callback is one step that may come between any two stores of a message, *)
(* any number of times if the sending task is kept from running.           *)
(***************************************************************************)
EXTENDS Integers, Sequences

CONSTANTS
    Leds,           \* the entries of pLedState; one task sends to each
    Time,           \* [Secs -> the times of the sequence, without the final 0]
    MaxIndex,       \* bound of the runs: how far past its sequence an index goes
    Null            \* the NULL of pSec

Secs == {"blinky", "blinkyFast", "heartBeat", "pulse"}
Msgs == Secs \cup {"off", "on"}
Repeats(sec) == sec # "pulse"

ASSUME LedsAssumption ==
    /\ Time \in [Secs -> Seq(Nat \ {0}) \ {<<>>}]
    /\ \A s \in Secs : Len(Time[s]) % 2 = 0
    /\ MaxIndex \in Nat
    /\ Null \notin Msgs

VARIABLES
    pSec,           \* [Leds -> Secs \cup {Null}]
    secIndex,       \* [Leds -> the position in the sequence]
    timOut,         \* [Leds -> callbacks left of it]
    lit,            \* [Leds -> the pin is at its onState]
    mpc,            \* [Leds -> location of the task in efLeds_msg]
    msg,            \* [Leds -> the message, and when idle the last one]
    waited,         \* history: [Leds -> callbacks since the message stored timOut]
    starved         \* history: [Leds -> TRUE once they were more than the first
                    \* time of the new sequence]

lVars == <<pSec, secIndex, timOut, lit, mpc, msg, waited, starved>>

\* efLeds_init sends every LED the message OFF.
LedsInit ==
    /\ pSec = [l \in Leds |-> Null]
    /\ secIndex = [l \in Leds |-> 0]
    /\ timOut = [l \in Leds |-> 0]
    /\ lit = [l \in Leds |-> FALSE]
    /\ mpc = [l \in Leds |-> "idle"]
    /\ msg = [l \in Leds |-> "off"]
    /\ waited = [l \in Leds |-> 0]
    /\ starved = [l \in Leds |-> FALSE]

Step(l, from, to) == mpc[l] = from /\ mpc' = [mpc EXCEPT ![l] = to]

-----------------------------------------------------------------------------
\* A message for the sequence that is running changes nothing, but a heartbeat
\* starts again.
Msg(l, m) ==
    /\ Step(l, "idle", IF m = pSec[l] /\ m # "heartBeat" THEN "idle"
                       ELSE IF m \in Secs THEN "timOut" ELSE "stop")
    /\ msg' = [msg EXCEPT ![l] = m]
    /\ UNCHANGED <<pSec, secIndex, timOut, lit, waited, starved>>

\* Slips the runs are tried with: OFF and ON leave the sequence running; the
\* index of the sequence before is kept.
StopNot(l) ==
    /\ Step(l, "stop", "pin")
    /\ UNCHANGED <<pSec, secIndex, timOut, lit, msg, waited, starved>>

StoreIndexKept(l) ==
    /\ Step(l, "secIndex", "pin")
    /\ UNCHANGED <<pSec, secIndex, timOut, lit, msg, waited, starved>>

Stop(l) ==
    /\ Step(l, "stop", "pin")
    /\ pSec' = [pSec EXCEPT ![l] = Null]
    /\ UNCHANGED <<secIndex, timOut, lit, msg, waited, starved>>

StoreTimOut(l) ==
    /\ Step(l, "timOut", "secIndex")
    /\ timOut' = [timOut EXCEPT ![l] = Time[msg[l]][1]]
    /\ UNCHANGED <<pSec, secIndex, lit, msg, waited, starved>>

StoreIndex(l) ==
    /\ Step(l, "secIndex", "pin")
    /\ secIndex' = [secIndex EXCEPT ![l] = 0]
    /\ UNCHANGED <<pSec, timOut, lit, msg, waited, starved>>

SetPin(l) ==
    /\ Step(l, "pin", IF msg[l] \in Secs THEN "pSec" ELSE "idle")
    /\ lit' = [lit EXCEPT ![l] = msg[l] # "off"]
    /\ UNCHANGED <<pSec, secIndex, timOut, msg, waited, starved>>

StoreSec(l) ==
    /\ Step(l, "pSec", "idle")
    /\ pSec' = [pSec EXCEPT ![l] = msg[l]]
    /\ waited' = [waited EXCEPT ![l] = 0]
    /\ UNCHANGED <<secIndex, timOut, lit, msg, starved>>

-----------------------------------------------------------------------------
\* time[n] of a sequence: past the final 0 lies other data, which the runs
\* take for 0 or 1.
TimeAt(sec, n) ==
    IF n < Len(Time[sec]) THEN {Time[sec][n + 1]}
    ELSE IF n = Len(Time[sec]) \/ n >= MaxIndex THEN {0} ELSE {0, 1}

(***************************************************************************)
(* What one turn of the callback's loop makes of an LED whose sequence is  *)
(* running: the values [pSec, secIndex, timOut, lit] it may leave.  (Only  *)
(* what lies past a sequence makes them more than one.)                    *)
(***************************************************************************)
Turn(l) ==
    LET sec == pSec[l]
        At(n) == {[pSec |-> IF tm # 0 THEN sec ELSE Null,
                   secIndex |-> IF tm # 0 THEN n ELSE 0,
                   timOut |-> IF tm # 0 THEN tm ELSE timOut[l],
                   lit |-> IF tm # 0 THEN ~lit[l] ELSE lit[l]] : tm \in TimeAt(sec, n)}
        next == secIndex[l] + 1
    IN IF timOut[l] > 0
       THEN {[pSec |-> sec, secIndex |-> secIndex[l], timOut |-> timOut[l] - 1, lit |-> lit[l]]}
       ELSE (IF Repeats(sec) /\ 0 \in TimeAt(sec, next) THEN At(0) ELSE {})
            \cup {r \in At(next) : Repeats(sec) => r.pSec # Null}

\* An LED without a sequence stays as it is.
After(l) ==
    IF pSec[l] # Null THEN Turn(l)
    ELSE {[pSec |-> Null, secIndex |-> secIndex[l], timOut |-> timOut[l], lit |-> lit[l]]}

\* The task is between its store of timOut and its store of pSec.
Storing(l) == msg[l] \in Secs /\ mpc[l] \in {"secIndex", "pin", "pSec"}

CallBack ==
    /\ \E r \in [Leds -> UNION {After(l) : l \in Leds}] :
          /\ \A l \in Leds : r[l] \in After(l)
          /\ pSec' = [l \in Leds |-> r[l].pSec]
          /\ secIndex' = [l \in Leds |-> r[l].secIndex]
          /\ timOut' = [l \in Leds |-> r[l].timOut]
          /\ lit' = [l \in Leds |-> r[l].lit]
    /\ starved' = [l \in Leds |-> starved[l] \/ (Storing(l) /\ waited[l] = Time[msg[l]][1])]
    /\ waited' = [l \in Leds |->
                    IF Storing(l) /\ waited[l] < Time[msg[l]][1] THEN waited[l] + 1 ELSE waited[l]]
    /\ UNCHANGED <<mpc, msg>>

-----------------------------------------------------------------------------
RunMsg(l) == Stop(l) \/ StoreTimOut(l) \/ StoreIndex(l) \/ SetPin(l) \/ StoreSec(l)

LedsNext ==
    \/ \E l \in Leds, m \in Msgs : Msg(l, m)
    \/ \E l \in Leds : RunMsg(l)
    \/ CallBack

LedsSpec == LedsInit /\ [][LedsNext]_lVars

-----------------------------------------------------------------------------
(***************************************************************************)
(* Between messages an LED shows the last one it was sent: steady after    *)
(* OFF and ON, in phase with its sequence (lit at the even positions, dark *)
(* at the odd ones, never at a position the sequence does not have), and   *)
(* dark once a pulse is over; unless a message has been kept waiting, with *)
(* its stores half done, for more callbacks than the new sequence's first  *)
(* time.                                                                   *)
(***************************************************************************)
LedFollows ==
    \A l \in Leds : mpc[l] = "idle" /\ ~starved[l] =>
        IF pSec[l] # Null
        THEN /\ msg[l] = pSec[l]
             /\ secIndex[l] \in 0 .. Len(Time[pSec[l]]) - 1
             /\ timOut[l] <= Time[pSec[l]][secIndex[l] + 1]
             /\ lit[l] <=> secIndex[l] % 2 = 0
        ELSE /\ msg[l] \in {"off", "on", "pulse"}
             /\ lit[l] <=> msg[l] = "on"
=============================================================================
