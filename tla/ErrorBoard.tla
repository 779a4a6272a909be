----------------------------- MODULE ErrorBoard -----------------------------
(***************************************************************************)
(* What the error handler promises a task: the error it reported last, or  *)
(* a handler reported while it ran, is there until the task frees it; no   *)
(* other task sees it or takes it away; and a check gives what was there   *)
(* at one moment.                                                          *)
(***************************************************************************)
CONSTANTS Tasks, Types, NoError

VARIABLES
    error,      \* [Tasks -> Types \cup {NoError}] the error pending
    answer      \* [Tasks -> Types \cup {NoError}] what the last check gave

vars == <<error, answer>>

Init ==
    /\ error = [t \in Tasks |-> NoError]
    /\ answer = [t \in Tasks |-> NoError]

Report(t, e) ==
    /\ error' = [error EXCEPT ![t] = e]
    /\ UNCHANGED answer

Check(t) ==
    /\ answer' = [answer EXCEPT ![t] = error[t]]
    /\ UNCHANGED error

Free(t) ==
    /\ error' = [error EXCEPT ![t] = NoError]
    /\ UNCHANGED answer

Next ==
    \E t \in Tasks :
        \/ \E e \in Types : Report(t, e)
        \/ Check(t)
        \/ Free(t)

Spec == Init /\ [][Next]_vars
=============================================================================
