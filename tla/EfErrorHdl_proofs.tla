-------------------------- MODULE EfErrorHdl_proofs --------------------------
(***************************************************************************)
(* TLAPS proofs about EfErrorHdl: for any tasks, any error types and any   *)
(* length of the table.                                                    *)
(***************************************************************************)
EXTENDS EfErrorHdl, FiniteSetTheorems, TLAPS

(***************************************************************************)
(* Until the table has run full, whatever a task points to, in its local   *)
(* storage or in a local variable it has just read from there, is in use   *)
(* and nobody else's.                                                      *)
(***************************************************************************)
Pointers ==
    ~full =>
        /\ \A t \in Tasks : tls[t] # None => ~IsFree(tls[t])
        /\ \A t \in Tasks : ptr[t] # None => ~IsFree(ptr[t])
        /\ \A t, u \in Tasks : t # u /\ tls[t] # None => tls[t] # tls[u] /\ tls[t] # ptr[u]
        /\ \A t, u \in Tasks : t # u /\ ptr[t] # None => ptr[t] # ptr[u]

\* Until somebody has been careless, a slot in use has its task.
Owners ==
    ~careless /\ ~full =>
        /\ \A s \in Slots : ~IsFree(s) => (\E t \in Tasks : tls[t] = s) /\ site[s] = type[s]
        /\ \A t \in Tasks : pc[t] = "free" => ptr[t] = tls[t]

IdleClean == \A t \in Tasks : pc[t] = "idle" => ptr[t] = None

IInv == TypeOK /\ Pointers /\ Owners /\ IdleClean /\ EnoughSlots

LEMMA InvInit == Init => IInv
  <1> SUFFICES ASSUME Init PROVE IInv
    OBVIOUS
  <1> USE ErrorAssumption DEF ErrorAssumption, Init
  <1>1. TypeOK
    BY DEF TypeOK
  <1>2. Pointers /\ IdleClean /\ EnoughSlots
    BY DEF Pointers, IdleClean, EnoughSlots
  <1>3. Owners
    BY DEF Owners, IsFree
  <1> QED
    BY <1>1, <1>2, <1>3 DEF IInv

(***************************************************************************)
(* The pigeonhole argument: with a slot for every task, a table that is in *)
(* use throughout, each slot by a task of its own, leaves no task without. *)
(***************************************************************************)
LEMMA AllHaveSlots ==
  ASSUME TypeOK, Cardinality(Tasks) <= NSlots,
         \A s \in Slots : \E u \in Tasks : tls[u] = s
  PROVE  \A t \in Tasks : tls[t] # None
  <1> SUFFICES ASSUME NEW t \in Tasks, tls[t] = None PROVE FALSE
    OBVIOUS
  <1> DEFINE Others == Tasks \ {t}
             owner == [s \in Slots |-> CHOOSE u \in Tasks : tls[u] = s]
  <1>1. NSlots \in Nat /\ IsFiniteSet(Tasks) /\ None \notin Nat
    BY ErrorAssumption DEF ErrorAssumption
  <1>2. IsFiniteSet(Slots) /\ Cardinality(Slots) = NSlots
    <2>1. IsFiniteSet(1 .. NSlots)
          /\ Cardinality(1 .. NSlots) = IF 1 > NSlots THEN 0 ELSE NSlots - 1 + 1
      BY <1>1, FS_Interval
    <2> QED BY <2>1, <1>1, SMT DEF Slots
  <1>3. IsFiniteSet(Others) /\ Cardinality(Others) = Cardinality(Tasks) - 1
    BY <1>1, FS_RemoveElement
  <1>4. Cardinality(Tasks) \in Nat
    BY <1>1, FS_CardinalityType
  <1>5. Cardinality(Others) < Cardinality(Slots)
    BY <1>1, <1>2, <1>3, <1>4, SMT
  <1>6. \A s \in Slots : owner[s] \in Tasks /\ tls[owner[s]] = s
    OBVIOUS
  <1>7. \A s \in Slots : owner[s] # t
    BY <1>1, <1>6 DEF Slots
  <1>8. owner \in [Slots -> Others]
    BY <1>6, <1>7
  <1>9. \E x, y \in Slots : x # y /\ owner[x] = owner[y]
    <2> HIDE DEF owner, Others
    <2> QED BY <1>2, <1>3, <1>5, <1>8, FS_PigeonHole
  <1> QED
    BY <1>6, <1>9

LEMMA InvStep == IInv /\ [Next]_vars => IInv'
  <1> SUFFICES ASSUME IInv, [Next]_vars PROVE IInv'
    OBVIOUS
  <1> USE ErrorAssumption DEF ErrorAssumption, IInv
  <1>1. ASSUME NEW t \in Tasks, NEW e \in Types, ErrorFull(t, e)
        PROVE  IInv'
    <2>1. CASE \E s \in Slots : GetSlot(s) /\ type' = [type EXCEPT ![s] = e]
                    /\ site' = [site EXCEPT ![s] = e] /\ tls' = [tls EXCEPT ![t] = s]
                    /\ UNCHANGED full
      <3> PICK s \in Slots : GetSlot(s) /\ type' = [type EXCEPT ![s] = e]
                    /\ site' = [site EXCEPT ![s] = e] /\ tls' = [tls EXCEPT ![t] = s]
                    /\ UNCHANGED full
        BY <2>1
      <3>0. UNCHANGED <<pc, ptr, reply>> /\ careless' \in BOOLEAN
            /\ (~careless' => ~careless /\ tls[t] = None /\ pc[t] # "free")
        BY <1>1, Zenon DEF ErrorFull
      <3> USE <3>0
      <3>1. TypeOK'
        BY SMT DEF TypeOK
      <3>2. Pointers'
        BY SMT DEF TypeOK, Pointers, GetSlot, IsFree, Slots
      <3>3. Owners'
        BY SMT DEF TypeOK, Owners, IdleClean, GetSlot, IsFree, Slots
      <3>4. IdleClean' /\ EnoughSlots'
        BY SMT DEF TypeOK, IdleClean, EnoughSlots
      <3> QED BY <3>1, <3>2, <3>3, <3>4
    <2>2. CASE /\ \A s \in Slots : ~IsFree(s)
               /\ site' = [site EXCEPT ![1] = e] /\ tls' = [tls EXCEPT ![t] = 1]
               /\ full' = TRUE /\ UNCHANGED type
      <3>0. UNCHANGED <<pc, ptr, reply>> /\ careless' \in BOOLEAN
            /\ (~careless' => ~careless /\ tls[t] = None /\ pc[t] # "free")
        BY <1>1, Zenon DEF ErrorFull
      <3> USE <3>0, <2>2
      <3>1. TypeOK'
        BY SMT DEF TypeOK, Slots
      <3>2. Pointers' /\ Owners' /\ IdleClean'
        BY SMT DEF TypeOK, Pointers, Owners, IdleClean
      <3>3. EnoughSlots'
        <4> SUFFICES ASSUME Cardinality(Tasks) <= NSlots, ~careless' PROVE FALSE
          BY DEF EnoughSlots
        <4>1. ~careless /\ tls[t] = None
          OBVIOUS
        <4>2. ~full
          BY <4>1 DEF EnoughSlots
        <4>3. \A s \in Slots : \E u \in Tasks : tls[u] = s
          BY <4>1, <4>2 DEF Owners
        <4> QED
          BY <4>1, <4>3, AllHaveSlots
      <3> QED BY <3>1, <3>2, <3>3
    <2> QED BY <1>1, <2>1, <2>2 DEF ErrorFull
  <1>2. ASSUME NEW t \in Tasks, GetErrorType(t) \/ FreeError(t)
        PROVE  IInv'
    <2> USE <1>2 DEF GetErrorType, FreeError, Goto
    <2>1. TypeOK' /\ IdleClean' /\ EnoughSlots'
      BY SMT DEF TypeOK, IdleClean, EnoughSlots
    <2>2. Pointers' /\ Owners'
      BY SMT DEF TypeOK, Pointers, Owners, IdleClean, IsFree
    <2> QED BY <2>1, <2>2
  <1>3. ASSUME NEW t \in Tasks, ReturnType(t) \/ FreeNone(t)
        PROVE  IInv'
    <2> USE <1>3 DEF ReturnType, FreeNone, Answer, Goto
    <2>1. TypeOK' /\ IdleClean' /\ EnoughSlots'
      BY SMT DEF TypeOK, IdleClean, EnoughSlots
    <2>2. Pointers' /\ Owners'
      BY SMT DEF TypeOK, Pointers, Owners, IdleClean, IsFree
    <2> QED BY <2>1, <2>2
  <1>4. ASSUME NEW t \in Tasks, Release(t)
        PROVE  IInv'
    <2> USE <1>4 DEF Release, Goto
    <2>1. TypeOK' /\ IdleClean' /\ EnoughSlots'
      BY SMT DEF TypeOK, IdleClean, EnoughSlots
    <2>2. Pointers'
      BY SMT DEF TypeOK, Pointers, IsFree
    <2>3. Owners'
      BY SMT DEF TypeOK, Owners, Pointers, IsFree
    <2> QED BY <2>1, <2>2, <2>3
  <1>5. CASE UNCHANGED vars
    BY <1>5 DEF vars, TypeOK, Pointers, Owners, IdleClean, EnoughSlots, IsFree
  <1> QED
    BY <1>1, <1>2, <1>3, <1>4, <1>5 DEF Next

LEMMA Invariant == Spec => []IInv
  BY InvInit, InvStep, PTL DEF Spec

\* Every variable keeps its type: a pointer is to an entry of the table.
THEOREM TypeCorrect == Spec => []TypeOK
  BY Invariant, PTL DEF IInv

\* efErrorHdl_errorFull and freeError lose no slot of a careful application.
THEOREM SlotsAreAccounted == Spec => []SlotsAccounted
  <1>1. IInv => SlotsAccounted
    BY SMT DEF IInv, Pointers, Owners, SlotsAccounted
  <1> QED
    BY <1>1, Invariant, PTL

\* A table with a slot for every task runs full only through carelessness.
THEOREM SlotsAreEnough == Spec => []EnoughSlots
  BY Invariant, PTL DEF IInv

-----------------------------------------------------------------------------
LEMMA InitOfBoard == Init => Board!Init
  BY DEF Init, Board!Init, Visible

LEMMA StepOfBoard == IInv /\ IInv' /\ [Next]_vars => full' \/ [Board!Next]_<<Board!vars>>
  <1> SUFFICES ASSUME IInv, IInv', [Next]_vars, ~full'
               PROVE  Board!Next \/ UNCHANGED Board!vars
    OBVIOUS
  <1> USE ErrorAssumption DEF ErrorAssumption, IInv
  <1> DEFINE ans(t) == IF pc[t] = "check" THEN Answer(t) ELSE reply[t]
  <1>1. ASSUME NEW t \in Tasks, NEW e \in Types, ErrorFull(t, e)
        PROVE  Board!Report(t, e)
    <2> PICK s \in Slots : GetSlot(s) /\ type' = [type EXCEPT ![s] = e]
                    /\ tls' = [tls EXCEPT ![t] = s]
                    /\ UNCHANGED full
      BY <1>1 DEF ErrorFull
    <2>1. \A u \in Tasks : Visible(u)' = IF u = t THEN e ELSE Visible(u)
      BY SMT DEF TypeOK, Pointers, Visible, GetSlot, IsFree, Slots
    <2>2. \A u \in Tasks : ans(u)' = ans(u)
      BY <1>1, SMT DEF ErrorFull, TypeOK, Pointers, Answer, GetSlot, IsFree, Slots
    <2> QED BY <2>1, <2>2 DEF Board!Report
  <1>2. ASSUME NEW t \in Tasks, GetErrorType(t)
        PROVE  Board!Check(t)
    <2>1. \A u \in Tasks : Visible(u)' = Visible(u)
      BY <1>2 DEF GetErrorType, Visible
    <2>2. \A u \in Tasks : ans(u)' = IF u = t THEN Visible(t) ELSE ans(u)
      BY <1>2, SMT DEF GetErrorType, Goto, TypeOK, Answer, Visible
    <2> QED BY <2>1, <2>2 DEF Board!Check
  <1>3. ASSUME NEW t \in Tasks, FreeError(t) \/ ReturnType(t) \/ FreeNone(t)
        PROVE  UNCHANGED Board!vars
    <2>1. \A u \in Tasks : Visible(u)' = Visible(u)
      BY <1>3 DEF FreeError, ReturnType, FreeNone, Visible
    <2>2. \A u \in Tasks : ans(u)' = ans(u)
      BY <1>3, SMT DEF FreeError, ReturnType, FreeNone, Goto, TypeOK, Answer
    <2> QED BY <2>1, <2>2 DEF Board!vars
  <1>4. ASSUME NEW t \in Tasks, Release(t)
        PROVE  Board!Free(t)
    <2> USE <1>4 DEF Release, Goto
    <2>1. \A u \in Tasks : Visible(u)' = IF u = t THEN NoError ELSE Visible(u)
      BY SMT DEF TypeOK, Pointers, Visible
    <2>2. \A u \in Tasks : ans(u)' = ans(u)
      BY SMT DEF TypeOK, Pointers, Answer
    <2> QED BY <2>1, <2>2 DEF Board!Free
  <1>5. CASE UNCHANGED vars
    BY <1>5 DEF vars, Board!vars, Visible, Answer
  <1> QED
    BY <1>1, <1>2, <1>3, <1>4, <1>5 DEF Next, Board!Next

\* Until the table has run full the error handler refines ErrorBoard.
THEOREM HandlerIsBoard == Spec => StepsOfBoard
  <1>1. IInv /\ IInv' /\ [Next]_vars => [full' \/ Board!Next]_<<Board!vars>>
    BY StepOfBoard
  <1> QED
    BY <1>1, Invariant, InitOfBoard, PTL DEF Spec, StepsOfBoard
=============================================================================
