------------------------------- MODULE EfHalPwm -------------------------------
(***************************************************************************)
(* The waiting half of the PWM service: efHal_pwm_waitForInt and the       *)
(* routine a BSP's interrupt handler calls.  It looks like the GPIO        *)
(* service but differs where that one was mended since: the release keeps  *)
(* the identifier in the slot, and a call that finds no free slot sleeps   *)
(* all the same and then resets the handle of the entry past the table.    *)
(***************************************************************************)
EXTENDS TaskNotify

CONSTANTS
    PwmTasks,       \* tasks that call efHal_pwm_waitForInt
    Outputs,        \* efHal_pwm_id_t
    WaitsOn,        \* subset of PwmTasks \X Outputs
    MayTimeOut,     \* the tasks that pass a finite block time
    NEntries,       \* EF_HAL_PWM_TOTAL_WAIT_FOR_INT
    IdNought,       \* the output whose identifier is 0, as static storage has it
    Free            \* NULL, no output

Entries == 1 .. NEntries

ASSUME PwmAssumption ==
    /\ WaitsOn \subseteq PwmTasks \X Outputs
    /\ MayTimeOut \subseteq PwmTasks
    /\ IdNought \in Outputs
    /\ NEntries \in Nat \ {0}
    /\ Free \notin PwmTasks /\ Free \notin Outputs

VARIABLES
    ppc,            \* [PwmTasks -> location]
    output,         \* [PwmTasks -> Outputs \cup {Free}] the argument id
    entry,          \* [PwmTasks -> the loop index i]
    pntf,           \* [PwmTasks -> notification record]
    handle,         \* [Entries -> PwmTasks \cup {Free}]
    pwmId,          \* [Entries -> Outputs]
    fired,          \* history: [PwmTasks -> its output had an interrupt since the
                    \* entry was claimed]
    raced,          \* history: two claims have overlapped
    smashed         \* history: an entry past the table has been written

pVars == <<ppc, output, entry, pntf, handle, pwmId, fired, raced, smashed>>

\* efHal_pwm_init touches the callback table only.
PwmInit ==
    /\ ppc = [t \in PwmTasks |-> "idle"]
    /\ output = [t \in PwmTasks |-> Free]
    /\ entry = [t \in PwmTasks |-> 1]
    /\ pntf = [t \in PwmTasks |-> NotifyInit]
    /\ handle = [e \in Entries |-> Free]
    /\ pwmId = [e \in Entries |-> IdNought]
    /\ fired = [t \in PwmTasks |-> FALSE]
    /\ raced = FALSE /\ smashed = FALSE

Claims(t) == ppc[t] \in {"scan", "setId", "setHandle"}
Listed(t) == ppc[t] \in {"clear", "take", "blocked", "woken", "release"} /\ entry[t] \in Entries

To(t, from, to) == ppc[t] = from /\ ppc' = [ppc EXCEPT ![t] = to]

-----------------------------------------------------------------------------
WaitForInt(t, o) ==
    /\ <<t, o>> \in WaitsOn
    /\ To(t, "idle", "scan")
    /\ output' = [output EXCEPT ![t] = o]
    /\ raced' = (raced \/ \E u \in PwmTasks : Claims(u))
    /\ UNCHANGED <<entry, pntf, handle, pwmId, fired, smashed>>

\* Past the last entry the call goes on to sleep, with i one past the table.
ScanEntry(t) ==
    /\ ppc[t] = "scan"
    /\ \/ /\ handle[entry[t]] = Free
          /\ ppc' = [ppc EXCEPT ![t] = "setId"]
          /\ UNCHANGED entry
       \/ /\ handle[entry[t]] # Free
          /\ entry' = [entry EXCEPT ![t] = @ + 1]
          /\ ppc' = [ppc EXCEPT ![t] = IF entry'[t] \in Entries THEN "scan" ELSE "take"]
    /\ UNCHANGED <<output, pntf, handle, pwmId, fired, raced, smashed>>

StoreId(t) ==
    /\ To(t, "setId", "setHandle")
    /\ pwmId' = [pwmId EXCEPT ![entry[t]] = output[t]]
    /\ UNCHANGED <<output, entry, pntf, handle, fired, raced, smashed>>

StoreHandle(t) ==
    /\ To(t, "setHandle", "clear")
    /\ handle' = [handle EXCEPT ![entry[t]] = t]
    /\ fired' = [fired EXCEPT ![t] = FALSE]
    /\ UNCHANGED <<output, entry, pntf, pwmId, raced, smashed>>

\* As in the GPIO service, on the handle found in the entry.
Clear(t) ==
    LET h == handle[entry[t]] IN
    /\ To(t, "clear", "take")
    /\ pntf' = [pntf EXCEPT ![IF h = Free THEN t ELSE h] = StateClear(@)]
    /\ UNCHANGED <<output, entry, handle, pwmId, fired, raced, smashed>>

Sleep(t) ==
    /\ To(t, "take", IF TakeMustBlock(pntf[t]) THEN "blocked" ELSE "woken")
    /\ pntf' = [pntf EXCEPT ![t] = TakeEnter(@)]
    /\ UNCHANGED <<output, entry, handle, pwmId, fired, raced, smashed>>

TimeOut(t) ==
    /\ t \in MayTimeOut
    /\ To(t, "blocked", "woken")
    /\ UNCHANGED <<output, entry, pntf, handle, pwmId, fired, raced, smashed>>

Woken(t) ==
    /\ To(t, "woken", "release")
    /\ pntf' = [pntf EXCEPT ![t] = TakeExit(@)]
    /\ UNCHANGED <<output, entry, handle, pwmId, fired, raced, smashed>>

\* A slip the runs are tried with: the entry is not given back.
ReleaseNot(t) ==
    /\ To(t, "release", "idle")
    /\ entry' = [entry EXCEPT ![t] = 1]
    /\ output' = [output EXCEPT ![t] = Free]
    /\ fired' = [fired EXCEPT ![t] = FALSE]
    /\ UNCHANGED <<pntf, handle, pwmId, raced, smashed>>

Release(t) ==
    /\ To(t, "release", "idle")
    /\ IF entry[t] \in Entries
       THEN handle' = [handle EXCEPT ![entry[t]] = Free] /\ UNCHANGED smashed
       ELSE smashed' = TRUE /\ UNCHANGED handle
    /\ entry' = [entry EXCEPT ![t] = 1]
    /\ output' = [output EXCEPT ![t] = Free]
    /\ fired' = [fired EXCEPT ![t] = FALSE]
    /\ UNCHANGED <<pntf, pwmId, raced>>

-----------------------------------------------------------------------------
\* The first entry that holds the identifier is served, and no other.
PwmInterrupt(o) ==
    LET Holds(e) == pwmId[e] = o /\ \A f \in Entries : f < e => pwmId[f] # o IN
    /\ \/ /\ \A e \in Entries : Holds(e) => handle[e] = Free
          /\ UNCHANGED <<pntf, ppc>>
       \/ \E e \in Entries :
             LET t == handle[e] IN
             /\ Holds(e) /\ t # Free
             /\ pntf' = [pntf EXCEPT ![t] = Give(@)]
             /\ ppc' = IF Wakes(pntf[t]) /\ ppc[t] = "blocked"
                       THEN [ppc EXCEPT ![t] = "woken"] ELSE ppc
    /\ fired' = [t \in PwmTasks |-> fired[t] \/ (Listed(t) /\ output[t] = o)]
    /\ UNCHANGED <<output, entry, handle, pwmId, raced, smashed>>

RunPwm(t) ==
    \/ ScanEntry(t) \/ StoreId(t) \/ StoreHandle(t) \/ Clear(t)
    \/ Sleep(t) \/ TimeOut(t) \/ Woken(t) \/ Release(t)

PwmNext ==
    \/ \E t \in PwmTasks, o \in Outputs : WaitForInt(t, o)
    \/ \E t \in PwmTasks : RunPwm(t)
    \/ \E o \in Outputs : PwmInterrupt(o)

PwmSpec == PwmInit /\ [][PwmNext]_pVars

-----------------------------------------------------------------------------
(***************************************************************************)
(* With an entry for every task the table is never left, however claims    *)
(* race: no call sleeps without an entry and none writes past the end.     *)
(* And a task that is alone with its output is never asleep in its entry   *)
(* after its interrupt came, as long as claims have not overlapped: the    *)
(* identifiers that releases leave behind in free entries never hide its   *)
(* own.  (They do hide that of a second task that waits for the same       *)
(* output.)                                                                *)
(***************************************************************************)
EnoughEntries ==
    \E f \in [PwmTasks -> Entries] : \A t, u \in PwmTasks : f[t] = f[u] => t = u

Alone(t) == \A u \in PwmTasks \ {t} : <<u, output[t]>> \notin WaitsOn

OwnOutputServed ==
    /\ EnoughEntries => ~smashed /\ \A t \in PwmTasks : entry[t] \in Entries
    /\ ~raced =>
          \A t \in PwmTasks : ppc[t] = "blocked" /\ Listed(t) /\ Alone(t) => ~fired[t]
=============================================================================
