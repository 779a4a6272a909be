----------------------------- MODULE EfErrorHdl -----------------------------
(***************************************************************************)
(* The error handler: a table of errors shared by all tasks, and in each   *)
(* task's thread-local storage a pointer to the entry of its last error.   *)
(*                                                                         *)
(* efErrorHdl_errorFull is one critical section.  A handler may call it    *)
(* too (the GPIO and UART routines do): it then writes the pointer of the  *)
(* task it interrupted, wherever that task is.  getErrorType and freeError *)
(* read the pointer before they use it, with interrupts on.                *)
(***************************************************************************)
EXTENDS Naturals, FiniteSets

CONSTANTS
    Tasks,
    Types,          \* efErrorHdlType_t without EF_ERROR_HDL_NO_ERROR; each is
                    \* reported at one place, which stands for func and line
    NSlots,         \* EF_ERROR_HDL_TOTAL_ERROR_TASK
    NoError,        \* EF_ERROR_HDL_NO_ERROR
    None            \* NULL

Slots == 1 .. NSlots

ASSUME ErrorAssumption ==
    /\ IsFiniteSet(Tasks)
    /\ NSlots \in Nat \ {0}
    /\ NoError \notin Types
    /\ None \notin Nat

VARIABLES
    type,           \* [Slots -> Types \cup {NoError}] efErrorHdlInfo[].type
    site,           \* [Slots -> Types \cup {NoError}] its func and line
    tls,            \* [Tasks -> Slots \cup {None}] the pointer in local storage
    pc,             \* [Tasks -> location in getErrorType or freeError]
    ptr,            \* [Tasks -> Slots \cup {None}] the local p_efErrorHdlInfo
    reply,          \* [Tasks -> Types \cup {NoError}] what getErrorType returned
    careless,       \* history: an error was reported for a task that had one
                    \* already, or that was freeing one
    full            \* history: an error was reported with every slot in use

vars == <<type, site, tls, pc, ptr, reply, careless, full>>

TypeOK ==
    /\ type \in [Slots -> Types \cup {NoError}]
    /\ site \in [Slots -> Types \cup {NoError}]
    /\ tls \in [Tasks -> Slots \cup {None}]
    /\ pc \in [Tasks -> {"idle", "check", "free"}]
    /\ ptr \in [Tasks -> Slots \cup {None}]
    /\ reply \in [Tasks -> Types \cup {NoError}]
    /\ careless \in BOOLEAN
    /\ full \in BOOLEAN

Init ==
    /\ type = [s \in Slots |-> NoError]
    /\ site = [s \in Slots |-> NoError]
    /\ tls = [t \in Tasks |-> None]
    /\ pc = [t \in Tasks |-> "idle"]
    /\ ptr = [t \in Tasks |-> None]
    /\ reply = [t \in Tasks |-> NoError]
    /\ careless = FALSE
    /\ full = FALSE

-----------------------------------------------------------------------------
\* A slip the runs are tried with: the last entry is never looked at.
IsFreeShort(s) == s # NSlots /\ type[s] = NoError

IsFree(s) == type[s] = NoError

\* A slip the runs are tried with: the first entry, whether or not it is free.
GetSlotFirst(s) == s = 1

\* s is the slot getSlot returns, unless none is free.
GetSlot(s) == IsFree(s) /\ \A r \in Slots : r < s => ~IsFree(r)

\* A slip the runs are tried with: an index past the table is not caught.
ErrorPastEnd(t, e) ==
    /\ \E s \in 1 .. NSlots + 1 :
          /\ IF s \in Slots THEN GetSlot(s) ELSE \A r \in Slots : ~IsFree(r)
          /\ type' = [type EXCEPT ![s] = e]
          /\ site' = [site EXCEPT ![s] = e]
          /\ tls' = [tls EXCEPT ![t] = s]
    /\ UNCHANGED <<pc, ptr, reply, careless, full>>

(***************************************************************************)
(* efErrorHdl_errorFull, called by t or by a handler that interrupted t,   *)
(* wherever t was.  With no free slot the locals type and msg are set and  *)
(* never stored: slot 0 keeps the type it has, gets the new function and   *)
(* line, and becomes this task's slot as well.                             *)
(***************************************************************************)
ErrorFull(t, e) ==
    /\ \/ \E s \in Slots :
             /\ GetSlot(s)
             /\ type' = [type EXCEPT ![s] = e]
             /\ site' = [site EXCEPT ![s] = e]
             /\ tls' = [tls EXCEPT ![t] = s]
             /\ UNCHANGED full
       \/ /\ \A s \in Slots : ~IsFree(s)
          /\ site' = [site EXCEPT ![1] = e]
          /\ tls' = [tls EXCEPT ![t] = 1]
          /\ full' = TRUE
          /\ UNCHANGED type
    /\ careless' = (careless \/ tls[t] # None \/ pc[t] = "free")
    /\ UNCHANGED <<pc, ptr, reply>>

-----------------------------------------------------------------------------
Goto(t, from, to) == pc[t] = from /\ pc' = [pc EXCEPT ![t] = to]

\* efErrorHdl_getErrorType: the pointer, then what it points to.
GetErrorType(t) ==
    /\ Goto(t, "idle", "check")
    /\ ptr' = [ptr EXCEPT ![t] = tls[t]]
    /\ UNCHANGED <<type, site, tls, reply, careless, full>>

Answer(t) == IF ptr[t] = None THEN NoError ELSE type[ptr[t]]

ReturnType(t) ==
    /\ Goto(t, "check", "idle")
    /\ reply' = [reply EXCEPT ![t] = Answer(t)]
    /\ ptr' = [ptr EXCEPT ![t] = None]
    /\ UNCHANGED <<type, site, tls, careless, full>>

\* efErrirHdl_freeError: the pointer, then the critical section.
FreeError(t) ==
    /\ Goto(t, "idle", "free")
    /\ ptr' = [ptr EXCEPT ![t] = tls[t]]
    /\ UNCHANGED <<type, site, tls, reply, careless, full>>

FreeNone(t) ==
    /\ Goto(t, "free", "idle")
    /\ ptr[t] = None
    /\ UNCHANGED <<type, site, tls, ptr, reply, careless, full>>

\* A slip the runs are tried with: the entry is freed and still pointed to.
ReleaseKept(t) ==
    /\ Goto(t, "free", "idle")
    /\ ptr[t] # None
    /\ type' = [type EXCEPT ![ptr[t]] = NoError]
    /\ ptr' = [ptr EXCEPT ![t] = None]
    /\ UNCHANGED <<site, tls, reply, careless, full>>

Release(t) ==
    /\ Goto(t, "free", "idle")
    /\ ptr[t] # None
    /\ type' = [type EXCEPT ![ptr[t]] = NoError]
    /\ tls' = [tls EXCEPT ![t] = None]
    /\ ptr' = [ptr EXCEPT ![t] = None]
    /\ UNCHANGED <<site, reply, careless, full>>

Next ==
    \E t \in Tasks :
        \/ \E e \in Types : ErrorFull(t, e)
        \/ GetErrorType(t) \/ ReturnType(t)
        \/ FreeError(t) \/ FreeNone(t) \/ Release(t)

Spec == Init /\ [][Next]_vars

-----------------------------------------------------------------------------
(***************************************************************************)
(* As long as every task frees an error before it has another, and the     *)
(* table has not run full, a slot in use is the one of exactly one task,   *)
(* holds one report as a whole, and a task's pointer is to a slot in use:  *)
(* none is lost to errors whose pointer was overwritten.                   *)
(***************************************************************************)
SlotsAccounted ==
    ~careless /\ ~full =>
        /\ \A s \in Slots : ~IsFree(s) => (\E t \in Tasks : tls[t] = s) /\ site[s] = type[s]
        /\ \A t \in Tasks : tls[t] # None => ~IsFree(tls[t])
        /\ \A t, u \in Tasks : t # u /\ tls[t] # None => tls[t] # tls[u]

(***************************************************************************)
(* With a slot for every task the table runs full only by such             *)
(* carelessness: a second error of a task, or one that came while the task *)
(* was freeing another.                                                    *)
(***************************************************************************)
EnoughSlots == Cardinality(Tasks) <= NSlots /\ ~careless => ~full

(***************************************************************************)
(* The refinement mapping to ErrorBoard.  A check is over, as far as the   *)
(* board can tell, when it has read the pointer.                           *)
(***************************************************************************)
Visible(t) == IF tls[t] = None THEN NoError ELSE type[tls[t]]

Board == INSTANCE ErrorBoard WITH
    error  <- [t \in Tasks |-> Visible(t)],
    answer <- [t \in Tasks |-> IF pc[t] = "check" THEN Answer(t) ELSE reply[t]]

(***************************************************************************)
(* Until the table has run full every step is a step of ErrorBoard: errors *)
(* of handlers included, and also for tasks that never free, a task sees   *)
(* its own last error and nobody else's, and no check sees half a change.  *)
(***************************************************************************)
StepsOfBoard == Board!Init /\ [][full' \/ Board!Next]_<<Board!vars>>
=============================================================================
