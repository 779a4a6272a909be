------------------------------ MODULE SoftTimers ------------------------------
(***************************************************************************)
(* softTimers.c on a Cortex-M: time is the kernel's ticks counted by each  *)
(* open timer plus what SysTick has counted since the last one.  The       *)
(* counter goes on while a call works, so get and clear turn the tick      *)
(* interrupt off around their accesses; open does not.  A reload that      *)
(* comes while the interrupt is off is not counted later: it is lost.      *)
(*                                                                         *)
(* Time is measured in counts of SysTick.  A task may be preempted between *)
(* any two steps below, each of which is one access to shared state.       *)
(***************************************************************************)
EXTENDS Integers

CONSTANTS
    Users,          \* tasks that use a timer
    Calls,          \* [Users -> the calls each makes on its open timer]
    NTimers,        \* softTimers_TOTAL_TIMES
    Base,           \* [Users -> the time base each opens its timer with]
    ClockMhz,       \* systickClockMhz: counts in a microsecond
    TickUs,         \* microseconds in a tick; the code has it as 1000
    HalfRange,      \* an int32_t holds -HalfRange .. HalfRange - 1
    MaxAge,         \* bound of the runs: counts from a timer's clear to its next
    NoTimer         \* the -1 of softTimers_open

Timers == 1 .. NTimers
Period == ClockMhz * TickUs

ASSUME SoftTimersAssumption ==
    /\ Calls \in [Users -> SUBSET {"get", "getAndClear", "clear", "close"}]
    /\ NTimers \in Nat \ {0}
    /\ Base \in [Users -> Nat \ {0}]
    /\ ClockMhz \in Nat \ {0} /\ TickUs \in Nat \ {0}
    /\ HalfRange \in Nat \ {0} /\ TickUs <= HalfRange
    /\ MaxAge \in Nat
    /\ NoTimer \notin Int

VARIABLES
    val,            \* SysTick->VAL, counting down
    tickInt,        \* the TICKINT bit of SysTick->CTRL
    inUse, baseTimeuS, rollOver, lastValue,     \* timer_vars
    tpc,            \* [Users -> location]
    op,             \* [Users -> the call it is in]
    hTimer,         \* [Users -> its handle]
    loopi,          \* [Users -> the loop index of softTimers_open]
    timeMs, counts, \* locals of softTimers_get: the ticks, and how far VAL is
                    \* below lastValue
    age,            \* history: [Timers -> counts since lastValue was stored]
    drift,          \* history: [Timers -> ticks counted between the two stores
                    \* of open or clear, less reloads lost since then]
    truth,          \* history: [Users -> what get had to measure, in counts,
                    \* while calls have not nested]
    nested      \* history: "open" once two tasks were in softTimers_open at
                    \* the same time, "off" once two had the interrupt off

sysTick  == <<val, tickInt>>
entries  == <<inUse, baseTimeuS, rollOver, lastValue>>
readings == <<timeMs, counts>>
history  == <<age, drift, truth, nested>>
tVars == <<sysTick, entries, tpc, op, hTimer, loopi, readings, history>>

TimersInit ==
    /\ val = Period - 1 /\ tickInt = TRUE
    /\ inUse = [k \in Timers |-> FALSE]
    /\ baseTimeuS = [k \in Timers |-> 0]
    /\ rollOver = [k \in Timers |-> 0]
    /\ lastValue = [k \in Timers |-> 0]
    /\ tpc = [t \in Users |-> "idle"]
    /\ op = [t \in Users |-> "none"]
    /\ hTimer = [t \in Users |-> NoTimer]
    /\ loopi = [t \in Users |-> 1]
    /\ timeMs = [t \in Users |-> 0]
    /\ counts = [t \in Users |-> 0]
    /\ age = [k \in Timers |-> 0]
    /\ drift = [k \in Timers |-> 0]
    /\ truth = [t \in Users |-> 0]
    /\ nested = {}

\* Between the two accesses to CTRL.
Inside(t) == tpc[t] \in {"roll", "value", "zero", "store", "enable"} /\ op[t] # "open"

Go(t, from, to) == tpc[t] = from /\ tpc' = [tpc EXCEPT ![t] = to]

\* A call begins: is another of its kind under way?
Overlap(kind, others) == nested' = nested \cup (IF others THEN {kind} ELSE {})

\* The locals of a call that returns.
Forget(t) ==
    /\ op' = [op EXCEPT ![t] = "none"]
    /\ timeMs' = [timeMs EXCEPT ![t] = 0]
    /\ counts' = [counts EXCEPT ![t] = 0]
    /\ truth' = [truth EXCEPT ![t] = 0]

-----------------------------------------------------------------------------
(***************************************************************************)
(* SysTick counts; when it reloads, the tick handler runs the hook         *)
(* softTimers_rollOver before any task goes on, if TICKINT allows.         *)
(***************************************************************************)
Count ==
    LET reload == val = 0 IN
    /\ \A k \in Timers : inUse[k] => age[k] < MaxAge
    /\ val' = IF reload THEN Period - 1 ELSE val - 1
    /\ rollOver' = [k \in Timers |->
           rollOver[k] + (IF reload /\ tickInt /\ inUse[k] THEN 1 ELSE 0)]
    /\ age' = [k \in Timers |-> age[k] + (IF inUse[k] THEN 1 ELSE 0)]
    /\ drift' = [k \in Timers |->
           drift[k] - (IF reload /\ ~tickInt /\ inUse[k] THEN 1 ELSE 0)]
    /\ UNCHANGED <<tickInt, inUse, baseTimeuS, lastValue, tpc, op, hTimer, loopi, readings,
                   truth, nested>>

-----------------------------------------------------------------------------
Open(t) ==
    /\ hTimer[t] = NoTimer
    /\ Go(t, "idle", "scan")
    /\ op' = [op EXCEPT ![t] = "open"]
    /\ Overlap("open", \E u \in Users : op[u] = "open")
    /\ UNCHANGED <<sysTick, entries, hTimer, loopi, readings, age, drift, truth>>

\* The loop test; past the last entry the call returns -1.
Scan(t) ==
    /\ tpc[t] = "scan"
    /\ \/ /\ ~inUse[loopi[t]]
          /\ tpc' = [tpc EXCEPT ![t] = "use"]
          /\ UNCHANGED <<op, loopi>>
       \/ /\ inUse[loopi[t]] /\ loopi[t] < NTimers
          /\ loopi' = [loopi EXCEPT ![t] = @ + 1]
          /\ UNCHANGED <<tpc, op>>
       \/ /\ inUse[loopi[t]] /\ loopi[t] = NTimers
          /\ tpc' = [tpc EXCEPT ![t] = "idle"]
          /\ op' = [op EXCEPT ![t] = "none"]
          /\ loopi' = [loopi EXCEPT ![t] = 1]
    /\ UNCHANGED <<sysTick, entries, hTimer, readings, history>>

\* The two stores after the test; baseTimeuS is read by the owner's calls only.
Use(t) ==
    LET k == loopi[t] IN
    /\ Go(t, "use", "zero")
    /\ inUse' = [inUse EXCEPT ![k] = TRUE]
    /\ baseTimeuS' = [baseTimeuS EXCEPT ![k] = Base[t]]
    /\ hTimer' = [hTimer EXCEPT ![t] = k]
    /\ loopi' = [loopi EXCEPT ![t] = 1]
    /\ UNCHANGED <<sysTick, rollOver, lastValue, op, readings, history>>

Close(t) ==
    /\ tpc[t] = "idle" /\ hTimer[t] # NoTimer /\ "close" \in Calls[t]
    /\ inUse' = [inUse EXCEPT ![hTimer[t]] = FALSE]
    /\ hTimer' = [hTimer EXCEPT ![t] = NoTimer]
    /\ age' = [age EXCEPT ![hTimer[t]] = 0]
    /\ drift' = [drift EXCEPT ![hTimer[t]] = 0]
    /\ UNCHANGED <<sysTick, baseTimeuS, rollOver, lastValue, tpc, op, loopi, readings,
                   truth, nested>>

\* softTimers_get(h, false), softTimers_get(h, true) and softTimers_clear(h)
\* begin alike: the tick interrupt is turned off.
\* A slip the runs are tried with: it is left on.
DisableNot(t) ==
    /\ hTimer[t] # NoTimer
    /\ \E o \in Calls[t] \ {"close"} :
          /\ op' = [op EXCEPT ![t] = o]
          /\ Go(t, "idle", IF o = "clear" THEN "zero" ELSE "roll")
    /\ Overlap("off", \E u \in Users : Inside(u))
    /\ UNCHANGED <<sysTick, entries, hTimer, loopi, readings, age, drift, truth>>

Disable(t) ==
    /\ hTimer[t] # NoTimer
    /\ \E o \in Calls[t] \ {"close"} :
          /\ op' = [op EXCEPT ![t] = o]
          /\ Go(t, "idle", IF o = "clear" THEN "zero" ELSE "roll")
    /\ tickInt' = FALSE
    /\ Overlap("off", \E u \in Users : Inside(u))
    /\ UNCHANGED <<val, entries, hTimer, loopi, readings, age, drift, truth>>

ReadRoll(t) ==
    /\ Go(t, "roll", "value")
    /\ timeMs' = [timeMs EXCEPT ![t] = rollOver[hTimer[t]]]
    /\ UNCHANGED <<sysTick, entries, op, hTimer, loopi, counts, history>>

\* VAL and, since only the owner's calls store it, lastValue.
ReadValue(t) ==
    LET k == hTimer[t] IN
    /\ Go(t, "value", IF op[t] = "getAndClear" THEN "zero" ELSE "enable")
    /\ counts' = [counts EXCEPT ![t] = lastValue[k] - val]
    /\ truth' = [truth EXCEPT ![t] =
                    IF nested = {} THEN age[k] + Period * drift[k] ELSE 0]
    /\ UNCHANGED <<sysTick, entries, op, hTimer, loopi, timeMs, age, drift, nested>>

\* rollOver = 0, in open, clear and get.
Zero(t) ==
    /\ Go(t, "zero", "store")
    /\ rollOver' = [rollOver EXCEPT ![hTimer[t]] = 0]
    /\ UNCHANGED <<sysTick, inUse, baseTimeuS, lastValue, op, hTimer, loopi, readings, history>>

\* lastValue = SysTick->VAL, in open, clear and get: time starts again.
Store(t) ==
    LET k == hTimer[t] IN
    /\ Go(t, "store", IF op[t] = "open" THEN "idle" ELSE "enable")
    /\ lastValue' = [lastValue EXCEPT ![k] = val]
    /\ age' = [age EXCEPT ![k] = 0]
    /\ drift' = [drift EXCEPT ![k] = rollOver[k]]
    /\ op' = [op EXCEPT ![t] = IF @ = "open" THEN "none" ELSE @]
    /\ UNCHANGED <<sysTick, inUse, baseTimeuS, rollOver, hTimer, loopi, readings, truth, nested>>

\* A slip the runs are tried with: a clear does not turn the interrupt on.
EnableUnlessClear(t) ==
    /\ Go(t, "enable", "idle")
    /\ tickInt' = (tickInt \/ op[t] # "clear")
    /\ Forget(t)
    /\ UNCHANGED <<val, entries, hTimer, loopi, age, drift, nested>>

Enable(t) ==
    /\ Go(t, "enable", "idle")
    /\ tickInt' = TRUE
    /\ Forget(t)
    /\ UNCHANGED <<val, entries, hTimer, loopi, age, drift, nested>>

(***************************************************************************)
(* What softTimers_get computes from its locals: int32_t arithmetic that   *)
(* wraps, divisions that truncate towards zero, and 0 for what came out    *)
(* negative.                                                               *)
(***************************************************************************)
Int32(n) == ((n + HalfRange) % (2 * HalfRange)) - HalfRange

Quotient(n, d) == IF n >= 0 THEN n \div d ELSE -((-n) \div d)

\* A slip the runs are tried with: the base is taken from the clock's count.
ElapsedUnscaled(t) ==
    LET us == Int32(timeMs[t] * TickUs + counts[t]) IN
    IF us < 0 THEN 0 ELSE us \div baseTimeuS[hTimer[t]]

Elapsed(t) ==
    LET timeSysTick == Quotient(counts[t], ClockMhz)
        us          == Int32(timeMs[t] * TickUs + timeSysTick)
    IN IF us < 0 THEN 0 ELSE us \div baseTimeuS[hTimer[t]]

-----------------------------------------------------------------------------
RunTimer(t) ==
    \/ Scan(t) \/ Use(t) \/ ReadRoll(t) \/ ReadValue(t)
    \/ Zero(t) \/ Store(t) \/ Enable(t)

TimersNext ==
    \/ Count
    \/ \E t \in Users : Open(t) \/ Close(t) \/ Disable(t) \/ RunTimer(t)

TimersSpec == TimersInit /\ [][TimersNext]_tVars

-----------------------------------------------------------------------------
(***************************************************************************)
(* What get returns is the time since the timer was opened or cleared,     *)
(* exact to a microsecond before it is divided by the base, less a period  *)
(* for every reload that came while the tick interrupt was off, plus one   *)
(* for a tick that fell between the two stores of open, and never below    *)
(* zero; as long as calls of two tasks did not overlap and the time fits   *)
(* an int32_t.                                                             *)
(***************************************************************************)
ElapsedAccounted ==
    \A t \in Users :
        LET k     == hTimer[t]
            scale == ClockMhz * baseTimeuS[k]
            due   == IF truth[t] < 0 THEN 0 ELSE truth[t]
        IN tpc[t] = "enable" /\ op[t] # "clear" /\ nested = {}
           /\ due < (HalfRange - 1) * ClockMhz
           => /\ Elapsed(t) * scale < due + ClockMhz
              /\ due < (Elapsed(t) + 1) * scale

(***************************************************************************)
(* However calls of several tasks preempt each other, the kernel's tick is *)
(* on again once they have all returned.                                   *)
(***************************************************************************)
TickRestored == (\A t \in Users : ~Inside(t)) => tickInt
=============================================================================
