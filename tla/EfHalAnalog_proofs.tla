-------------------------- MODULE EfHalAnalog_proofs --------------------------
(***************************************************************************)
(* TLAPS proofs about EfHalAnalog: for any tasks, inputs and identifiers,  *)
(* any number of slots, and any mix of time limits.                        *)
(***************************************************************************)
EXTENDS EfHalAnalog, TaskNotify_proofs

Waiting4End == {"take", "blocked", "woken", "read"}

(***************************************************************************)
(* The inductive invariant.  First, what a task is doing: its arguments    *)
(* are those of a call it may make, a slot is only held by a call of       *)
(* startWaitRead, and by every one that has got past the search for it.    *)
(***************************************************************************)
CallAt(t) ==
    /\ waits[t] => pc[t] # "idle" /\ <<t, id[t]>> \in Reads
    /\ ~waits[t] => pc[t] \in {"idle", "sem", "start"}
    /\ ~waits[t] /\ pc[t] # "idle" => <<t, id[t]>> \in Starts
    /\ slot[t] # None => waits[t] /\ pc[t] # "claim"
    /\ waits[t] /\ pc[t] \in {"sem", "start"} \cup Waiting4End => slot[t] # None
    /\ pc[t] = "start" => semphAdc = 0

CallsRight == \A t \in Tasks : CallAt(t)

(***************************************************************************)
(* Second, for an undisturbed task, that a conversion of one of its inputs *)
(* is its own, and what its notification says at each location: a count is *)
(* there exactly when that conversion has ended.                           *)
(***************************************************************************)
Underway(t) == convFor = t /\ adc = id[t] /\ ~own[t] /\ ntf[t].value = 0

UndisturbedAt(t) ==
    /\ convFor = t => pc[t] \in {"take", "blocked"}
    /\ adc # None /\ <<t, adc>> \in Reads => convFor = t
    /\ pc[t] \in {"idle", "claim", "sem", "start"} => ~own[t] /\ ntf[t].value = 0
    /\ pc[t] = "take" => Underway(t) \/ (convFor # t /\ own[t] /\ ntf[t].value = 1)
    /\ pc[t] = "blocked" => Underway(t) /\ ntf[t].state = Waiting
    /\ pc[t] = "woken" => own[t] /\ ntf[t].value = 1
    /\ pc[t] = "read" => own[t] /\ ntf[t].value = 0
    /\ pc[t] = "release" => (ret[t] => own[t]) /\ ntf[t].value = 0

UndisturbedRight == \A t \in Tasks : Undisturbed(t) => UndisturbedAt(t)

IInv == TypeOK /\ CallsRight /\ SlotsOwned /\ OneConversion /\ UndisturbedRight

LEMMA IdsFacts ==
    /\ \A t, i : <<t, i>> \in Reads \cup Starts => t \in Tasks /\ i \in Ids /\ i # None
    /\ Inputs \subseteq Ids /\ None \notin Ids /\ None \notin Tasks /\ None \notin Slots
    /\ \A p \in Reads \cup Starts : p = <<p[1], p[2]>>
  <1>1. \A p \in Reads \cup Starts : p = <<p[1], p[2]>> /\ p[1] \in Tasks /\ p[2] \in Ids
    BY AnalogAssumption DEF AnalogAssumption, Ids
  <1>2. None \notin Ids
    BY AnalogAssumption DEF AnalogAssumption
  <1>3. \A t, i : <<t, i>> \in Reads \cup Starts => t \in Tasks /\ i \in Ids
    BY <1>1
  <1> QED
    BY <1>1, <1>2, <1>3, AnalogAssumption DEF AnalogAssumption, Ids

LEMMA InvInit == Init => IInv
  <1> SUFFICES ASSUME Init PROVE IInv
    OBVIOUS
  <1> USE IdsFacts
  <1>1. NotifyInit \in Notification({0, 1}) /\ NotifyInit.value = 0
    BY InitFacts
  <1>2. TypeOK
    BY <1>1, SMT DEF Init, TypeOK, Locations
  <1>3. CallsRight /\ SlotsOwned
    BY SMT DEF Init, CallsRight, CallAt, SlotsOwned, Waiting4End
  <1>4. OneConversion
    BY SMT DEF Init, OneConversion
  <1>5. UndisturbedRight
    BY <1>1, SMT DEF Init, UndisturbedRight, UndisturbedAt
  <1> QED
    BY <1>2, <1>3, <1>4, <1>5 DEF IInv

LEMMA InvStep == IInv /\ [Next]_vars => IInv'
  <1> SUFFICES ASSUME IInv, [Next]_vars PROVE IInv'
    OBVIOUS
  <1> USE IdsFacts DEF IInv
  <1>0. \A u \in Tasks : ntf[u] \in Notification({0, 1})
    BY DEF TypeOK
  <1>1. ASSUME NEW t \in Tasks, NEW i \in Ids, NEW w \in BOOLEAN, Call(t, i, w)
        PROVE  IInv'
    <2>1. slot[t] = None
      BY <1>1, Zenon DEF Call, Goto, CallsRight, CallAt
    <2>2. TypeOK'
      BY <1>1, SMT DEF Call, Goto, callVars, slotVars, adcVars, histVars, TypeOK, Locations
    <2>3. CallsRight'
      BY <1>1, <2>1, SMT DEF Call, Goto, callVars, slotVars, adcVars, histVars, TypeOK,
         CallsRight, CallAt, Waiting4End
    <2>4. SlotsOwned'
      <3>1. UNCHANGED <<slot, slotTask, slotId>>
        BY <1>1 DEF Call, slotVars
      <3>2. \A u \in Tasks : u # t => id'[u] = id[u]
        BY <1>1 DEF Call, TypeOK
      <3> QED
        BY <2>1, <3>1, <3>2 DEF SlotsOwned
    <2>5. OneConversion'
      BY <1>1, SMT DEF Call, Goto, callVars, slotVars, adcVars, histVars, TypeOK, OneConversion
    <2>6. UndisturbedRight'
      BY <1>1, SMT DEF Call, Goto, callVars, slotVars, adcVars, histVars, TypeOK,
         UndisturbedRight, UndisturbedAt, Underway, Undisturbed
    <2> QED
      BY <2>2, <2>3, <2>4, <2>5, <2>6
  <1>2. ASSUME NEW t \in Tasks, ClaimSlot(t)
        PROVE  IInv'
    <2>1. /\ StateClear(ntf[t]) \in Notification({0, 1})
          /\ StateClear(ntf[t]).value = ntf[t].value
      BY <1>0, ClearFacts
    <2>2. TypeOK'
      BY <1>2, <2>1, SMT DEF ClaimSlot, Goto, First, callVars, slotVars, adcVars, histVars,
         TypeOK, Locations, CallsRight, CallAt
    <2>3. CallsRight'
      BY <1>2, <2>1, SMT DEF ClaimSlot, Goto, First, callVars, slotVars, adcVars, histVars,
         TypeOK, CallsRight, CallAt, Waiting4End
    <2>4. SlotsOwned'
      <3>0. pc[t] = "claim"
        BY <1>2 DEF ClaimSlot, Goto
      <3>1. slot[t] = None /\ id[t] # None
        BY <3>0, Zenon DEF CallsRight, CallAt
      <3>2. PICK s \in Slots :
               /\ slotId[s] = None
               /\ slotId' = [slotId EXCEPT ![s] = id[t]]
               /\ slotTask' = [slotTask EXCEPT ![s] = t]
               /\ slot' = [slot EXCEPT ![t] = s]
        BY <1>2 DEF ClaimSlot, First
      <3>3. id' = id /\ \A u \in Tasks : slot[u] # s
        BY <1>2, <3>2 DEF ClaimSlot, callVars, SlotsOwned
      <3>4. slotId'[s] = id[t] /\ slotTask'[s] = t /\ slot'[t] = s
        BY <3>2 DEF TypeOK
      <3>5. \A r \in Slots : r # s => slotId'[r] = slotId[r] /\ slotTask'[r] = slotTask[r]
        BY <3>2 DEF TypeOK
      <3>6. \A u \in Tasks : u # t => slot'[u] = slot[u]
        BY <3>2 DEF TypeOK
      <3>7. \A u \in Tasks : slot[u] \in Slots \cup {None}
        BY DEF TypeOK
      <3>8. ASSUME NEW u \in Tasks, slot'[u] # None
            PROVE  slotTask'[slot'[u]] = u /\ slotId'[slot'[u]] = id'[u]
        BY <3>1, <3>3, <3>4, <3>5, <3>6, <3>7, <3>8 DEF SlotsOwned
      <3>9. ASSUME NEW r \in Slots
            PROVE  IF slotId'[r] = None THEN slotTask'[r] = None
                   ELSE slotTask'[r] \in Tasks /\ slot'[slotTask'[r]] = r
        BY <3>1, <3>4, <3>5, <3>6 DEF SlotsOwned
      <3> QED
        BY <3>8, <3>9 DEF SlotsOwned
    <2>5. OneConversion'
      BY <1>2, <2>1, SMT DEF ClaimSlot, Goto, First, callVars, slotVars, adcVars, histVars,
         TypeOK, OneConversion, CallsRight, CallAt
    <2>6. UndisturbedRight'
      BY <1>2, <2>1, SMT DEF ClaimSlot, Goto, First, callVars, slotVars, adcVars, histVars,
         TypeOK, CallsRight, CallAt, OneConversion,
         UndisturbedRight, UndisturbedAt, Underway, Undisturbed
    <2> QED
      BY <2>2, <2>3, <2>4, <2>5, <2>6
  <1>3. ASSUME NEW t \in Tasks, NoFreeSlot(t)
        PROVE  IInv'
    <2>1. TypeOK'
      BY <1>3, SMT DEF NoFreeSlot, Goto, callVars, slotVars, adcVars, histVars,
         TypeOK, Locations, CallsRight, CallAt
    <2>2. CallsRight'
      BY <1>3, SMT DEF NoFreeSlot, Goto, callVars, slotVars, adcVars, histVars,
         TypeOK, CallsRight, CallAt, Waiting4End
    <2>3. SlotsOwned'
      BY <1>3, SMT DEF NoFreeSlot, Goto, callVars, slotVars, adcVars, histVars,
         TypeOK, SlotsOwned, CallsRight, CallAt
    <2>4. OneConversion'
      BY <1>3, SMT DEF NoFreeSlot, Goto, callVars, slotVars, adcVars, histVars,
         TypeOK, OneConversion, CallsRight, CallAt
    <2>5. UndisturbedRight'
      BY <1>3, SMT DEF NoFreeSlot, Goto, callVars, slotVars, adcVars, histVars,
         TypeOK, CallsRight, CallAt, OneConversion,
         UndisturbedRight, UndisturbedAt, Underway, Undisturbed
    <2> QED
      BY <2>1, <2>2, <2>3, <2>4, <2>5
  <1>4. ASSUME NEW t \in Tasks, TakeConverter(t)
        PROVE  IInv'
    <2>1. TypeOK'
      BY <1>4, SMT DEF TakeConverter, Goto, callVars, slotVars, adcVars, histVars,
         TypeOK, Locations, CallsRight, CallAt
    <2>2. CallsRight'
      BY <1>4, SMT DEF TakeConverter, Goto, callVars, slotVars, adcVars, histVars,
         TypeOK, CallsRight, CallAt, Waiting4End
    <2>3. SlotsOwned'
      BY <1>4, SMT DEF TakeConverter, Goto, callVars, slotVars, adcVars, histVars,
         TypeOK, SlotsOwned, CallsRight, CallAt
    <2>4. OneConversion'
      <3>0. semphAdc # 0
        BY <1>4, SMT DEF TakeConverter
      <3>1. adc = None /\ \A u \in Tasks : pc[u] # "start"
        BY <3>0, Zenon DEF OneConversion, CallsRight, CallAt
      <3>2. /\ semphAdc' = 0 /\ UNCHANGED <<adc, adcVal>> /\ pc'[t] = "start"
            /\ \A u \in Tasks : u # t => pc'[u] # "start"
        BY <1>4, <3>1, SMT DEF TakeConverter, Goto, TypeOK
      <3> QED
        BY <3>1, <3>2, SMT DEF OneConversion
    <2>5. UndisturbedRight'
      BY <1>4, SMT DEF TakeConverter, Goto, callVars, slotVars, adcVars, histVars,
         TypeOK, CallsRight, CallAt, OneConversion,
         UndisturbedRight, UndisturbedAt, Underway, Undisturbed
    <2> QED
      BY <2>1, <2>2, <2>3, <2>4, <2>5
  <1>5. ASSUME NEW t \in Tasks, StartConv(t)
        PROVE  IInv'
    <2>1. /\ pc[t] = "start" /\ id[t] \in Inputs
          /\ indexMap' = id[t] /\ adc' = id[t]
          /\ convFor' = IF waits[t] THEN t ELSE None
          /\ UNCHANGED <<slot, ret, ntf, slotTask, slotId, endConvCB, semphAdc, adcVal, own>>
      BY <1>5 DEF StartConv, slotVars
    <2>2. /\ pc' = [pc EXCEPT ![t] = IF waits[t] THEN "take" ELSE "idle"]
          /\ waits' = [waits EXCEPT ![t] = waits[t]]
          /\ id' = [id EXCEPT ![t] = IF waits[t] THEN id[t] ELSE None]
      <3>1. CASE waits[t]
        BY <1>5, <3>1 DEF StartConv, callVars, TypeOK
      <3>2. CASE ~waits[t]
        BY <1>5, <3>2 DEF StartConv, Return, TypeOK
      <3> QED
        BY <3>1, <3>2
    <2>3. ~waits[t] => slot[t] = None
      BY DEF CallsRight, CallAt
    <2>4. TypeOK'
      BY <2>1, <2>2, SMT DEF TypeOK, Locations
    <2>5. CallsRight'
      <3>1. CallAt(t)'
        <4>1. CallAt(t) /\ pc'[t] = (IF waits[t] THEN "take" ELSE "idle") /\ waits'[t] = waits[t]
          BY <2>2 DEF TypeOK, CallsRight
        <4>2. waits[t] => id'[t] = id[t]
          BY <2>2 DEF TypeOK
        <4> QED
          BY <2>1, <4>1, <4>2 DEF CallAt, Waiting4End
      <3>2. ASSUME NEW u \in Tasks, u # t
            PROVE  CallAt(u)'
        BY <2>1, <2>2, <3>2 DEF TypeOK, CallsRight, CallAt, Waiting4End
      <3> QED
        BY <3>1, <3>2 DEF CallsRight
    <2>6. SlotsOwned'
      <3>1. \A u \in Tasks : slot[u] # None => id'[u] = id[u]
        BY <2>2, <2>3 DEF TypeOK
      <3> QED
        BY <2>1, <3>1 DEF SlotsOwned
    <2>7. semphAdc = 0 /\ adc = None /\ \A u \in Tasks : pc'[u] # "start"
      <3>1. semphAdc = 0 /\ adc = None /\ \A u \in Tasks : u # t => pc[u] # "start"
        BY <2>1, Zenon DEF OneConversion, CallsRight, CallAt
      <3> QED
        BY <2>2, <3>1 DEF TypeOK
    <2>8. OneConversion'
      BY <2>1, <2>7, Zenon DEF OneConversion
    <2>9. ASSUME NEW u \in Tasks, Undisturbed(u)
          PROVE  UndisturbedAt(u)'
      <3>1. UndisturbedAt(u)
        BY <2>9 DEF UndisturbedRight
      <3>2. id[t] \in Ids /\ <<t, id[t]>> \in IF waits[t] THEN Reads ELSE Starts
        BY <2>1, Zenon DEF CallsRight, CallAt
      <3>3. convFor # u
        BY <2>7, <3>1, IdsFacts, Zenon DEF UndisturbedAt, Underway, CallsRight, CallAt
      <3>4. CASE u = t
        <4>1. ~own[t] /\ ntf[t].value = 0
          BY <2>1, <3>1, <3>4 DEF UndisturbedAt
        <4>2. CASE waits[t]
          <5>1. pc'[t] = "take" /\ id'[t] = id[t] /\ convFor' = t
            BY <2>1, <2>2, <4>2 DEF TypeOK
          <5> QED
            BY <2>1, <3>4, <4>1, <5>1 DEF UndisturbedAt, Underway
        <4>3. CASE ~waits[t]
          <5>1. pc'[t] = "idle" /\ convFor' = None
            BY <2>1, <2>2, <4>3 DEF TypeOK
          <5>2. <<t, adc'>> \notin Reads
            BY <2>1, <2>9, <3>2, <3>4, <4>3 DEF Undisturbed
          <5> QED
            BY <2>1, <3>4, <4>1, <5>1, <5>2 DEF UndisturbedAt, Underway
        <4> QED
          BY <4>2, <4>3
      <3>5. CASE u # t
        <4>1. <<u, adc'>> \notin Reads
          BY <2>1, <2>9, <3>2, <3>5 DEF Undisturbed
        <4>2. pc'[u] = pc[u] /\ convFor' # u
          BY <2>1, <2>2, <3>5
        <4> QED
          BY <2>1, <3>1, <3>3, <4>1, <4>2, Zenon DEF UndisturbedAt, Underway
      <3> QED
        BY <3>4, <3>5
    <2>10. UndisturbedRight'
      BY <2>9 DEF UndisturbedRight, Undisturbed
    <2> QED
      BY <2>4, <2>5, <2>6, <2>8, <2>10
  <1>6. ASSUME NEW t \in Tasks, StartUnmapped(t)
        PROVE  IInv'
    <2>1. /\ pc[t] = "start" /\ indexMap' = None /\ semphAdc' = 1
          /\ ret' = [ret EXCEPT ![t] = FALSE]
          /\ UNCHANGED <<slot, ntf, slotTask, slotId, endConvCB, adc, adcVal, convFor, own>>
      BY <1>6 DEF StartUnmapped, slotVars, histVars
    <2>2. /\ pc' = [pc EXCEPT ![t] = IF waits[t] THEN "release" ELSE "idle"]
          /\ waits' = [waits EXCEPT ![t] = waits[t]]
          /\ id' = [id EXCEPT ![t] = IF waits[t] THEN id[t] ELSE None]
      <3>1. CASE waits[t]
        BY <1>6, <3>1 DEF StartUnmapped, callVars, TypeOK
      <3>2. CASE ~waits[t]
        BY <1>6, <3>2 DEF StartUnmapped, Return, TypeOK
      <3> QED
        BY <3>1, <3>2
    <2>3. ~waits[t] => slot[t] = None
      BY DEF CallsRight, CallAt
    <2>4. TypeOK'
      BY <2>1, <2>2, SMT DEF TypeOK, Locations
    <2>5. CallsRight'
      <3>1. CallAt(t)'
        <4>1. CallAt(t) /\ pc'[t] = (IF waits[t] THEN "release" ELSE "idle") /\ waits'[t] = waits[t]
          BY <2>2 DEF TypeOK, CallsRight
        <4>2. waits[t] => id'[t] = id[t]
          BY <2>2 DEF TypeOK
        <4> QED
          BY <2>1, <4>1, <4>2 DEF CallAt, Waiting4End
      <3>2. ASSUME NEW u \in Tasks, u # t
            PROVE  CallAt(u)'
        <4>1. pc[u] # "start"
          BY <2>1, <3>2 DEF OneConversion
        <4> QED
          BY <2>1, <2>2, <3>2, <4>1 DEF TypeOK, CallsRight, CallAt, Waiting4End
      <3> QED
        BY <3>1, <3>2 DEF CallsRight
    <2>6. SlotsOwned'
      <3>1. \A u \in Tasks : slot[u] # None => id'[u] = id[u]
        BY <2>2, <2>3 DEF TypeOK
      <3> QED
        BY <2>1, <3>1 DEF SlotsOwned
    <2>7. OneConversion'
      BY <2>1, <2>2, SMT DEF TypeOK, OneConversion, CallsRight, CallAt
    <2>8. UndisturbedRight'
      BY <2>1, <2>2, SMT DEF TypeOK, CallsRight, CallAt, OneConversion,
         UndisturbedRight, UndisturbedAt, Underway, Undisturbed
    <2> QED
      BY <2>4, <2>5, <2>6, <2>7, <2>8
  <1>7. ASSUME NEW t \in Tasks, Take(t)
        PROVE  IInv'
    <2>1. /\ TakeEnter(ntf[t]) \in Notification({0, 1})
          /\ TakeEnter(ntf[t]).value = ntf[t].value
          /\ TakeMustBlock(ntf[t]) <=> ntf[t].value = 0
          /\ TakeMustBlock(ntf[t]) => TakeEnter(ntf[t]).state = Waiting
      BY <1>0, TakeFacts
    <2>2. TypeOK'
      BY <1>7, <2>1, SMT DEF Take, Goto, callVars, slotVars, adcVars, histVars,
         TypeOK, Locations, CallsRight, CallAt
    <2>3. CallsRight'
      BY <1>7, <2>1, SMT DEF Take, Goto, callVars, slotVars, adcVars, histVars,
         TypeOK, CallsRight, CallAt, Waiting4End
    <2>4. SlotsOwned'
      BY <1>7, <2>1, SMT DEF Take, Goto, callVars, slotVars, adcVars, histVars,
         TypeOK, SlotsOwned, CallsRight, CallAt
    <2>5. OneConversion'
      BY <1>7, <2>1, SMT DEF Take, Goto, callVars, slotVars, adcVars, histVars,
         TypeOK, OneConversion, CallsRight, CallAt
    <2>6. UndisturbedRight'
      BY <1>7, <2>1, SMT DEF Take, Goto, callVars, slotVars, adcVars, histVars,
         TypeOK, CallsRight, CallAt, OneConversion,
         UndisturbedRight, UndisturbedAt, Underway, Undisturbed
    <2> QED
      BY <2>2, <2>3, <2>4, <2>5, <2>6
  <1>8. ASSUME NEW t \in Tasks, Wake(t)
        PROVE  IInv'
    <2>1. /\ TakeExit(ntf[t]) \in Notification({0, 1})
          /\ TakeExit(ntf[t]).value = 0 /\ TakeResult(ntf[t]) \in BOOLEAN
          /\ TakeResult(ntf[t]) <=> ntf[t].value # 0
      BY <1>0, TakeFacts DEF TakeResult
    <2>2. TypeOK'
      BY <1>8, <2>1, SMT DEF Wake, Goto, callVars, slotVars, adcVars, histVars,
         TypeOK, Locations, CallsRight, CallAt
    <2>3. CallsRight'
      BY <1>8, <2>1, SMT DEF Wake, Goto, callVars, slotVars, adcVars, histVars,
         TypeOK, CallsRight, CallAt, Waiting4End
    <2>4. SlotsOwned'
      BY <1>8, <2>1, SMT DEF Wake, Goto, callVars, slotVars, adcVars, histVars,
         TypeOK, SlotsOwned, CallsRight, CallAt
    <2>5. OneConversion'
      BY <1>8, <2>1, SMT DEF Wake, Goto, callVars, slotVars, adcVars, histVars,
         TypeOK, OneConversion, CallsRight, CallAt
    <2>6. UndisturbedRight'
      BY <1>8, <2>1, SMT DEF Wake, Goto, callVars, slotVars, adcVars, histVars,
         TypeOK, CallsRight, CallAt, OneConversion,
         UndisturbedRight, UndisturbedAt, Underway, Undisturbed
    <2> QED
      BY <2>2, <2>3, <2>4, <2>5, <2>6
  <1>9. ASSUME NEW t \in Tasks, Read(t)
        PROVE  IInv'
    <2>1. TypeOK'
      BY <1>9, SMT DEF Read, Goto, callVars, slotVars, adcVars, histVars,
         TypeOK, Locations, CallsRight, CallAt
    <2>2. CallsRight'
      BY <1>9, SMT DEF Read, Goto, callVars, slotVars, adcVars, histVars,
         TypeOK, CallsRight, CallAt, Waiting4End
    <2>3. SlotsOwned'
      BY <1>9, SMT DEF Read, Goto, callVars, slotVars, adcVars, histVars,
         TypeOK, SlotsOwned, CallsRight, CallAt
    <2>4. OneConversion'
      BY <1>9, SMT DEF Read, Goto, callVars, slotVars, adcVars, histVars,
         TypeOK, OneConversion, CallsRight, CallAt
    <2>5. UndisturbedRight'
      BY <1>9, SMT DEF Read, Goto, callVars, slotVars, adcVars, histVars,
         TypeOK, CallsRight, CallAt, OneConversion,
         UndisturbedRight, UndisturbedAt, Underway, Undisturbed
    <2> QED
      BY <2>1, <2>2, <2>3, <2>4, <2>5
  <1>10. ASSUME NEW t \in Tasks, ReleaseSlot(t)
        PROVE  IInv'
    <2>1. TypeOK'
      BY <1>10, SMT DEF ReleaseSlot, Return, callVars, slotVars, adcVars, histVars,
         TypeOK, Locations, CallsRight, CallAt
    <2>2. CallsRight'
      BY <1>10, SMT DEF ReleaseSlot, Return, callVars, slotVars, adcVars, histVars,
         TypeOK, CallsRight, CallAt, Waiting4End
    <2>3. SlotsOwned'
      BY <1>10, SMT DEF ReleaseSlot, Return, callVars, slotVars, adcVars, histVars,
         TypeOK, SlotsOwned, CallsRight, CallAt
    <2>4. OneConversion'
      BY <1>10, SMT DEF ReleaseSlot, Return, callVars, slotVars, adcVars, histVars,
         TypeOK, OneConversion, CallsRight, CallAt
    <2>5. UndisturbedRight'
      BY <1>10, SMT DEF ReleaseSlot, Return, callVars, slotVars, adcVars, histVars,
         TypeOK, CallsRight, CallAt, OneConversion,
         UndisturbedRight, UndisturbedAt, Underway, Undisturbed
    <2> QED
      BY <2>1, <2>2, <2>3, <2>4, <2>5
  <1>11. ASSUME NEW t \in Tasks, Timeout(t)
        PROVE  IInv'
    <2>1. TypeOK'
      BY <1>11, SMT DEF Timeout, Goto, callVars, slotVars, adcVars, histVars,
         TypeOK, Locations, CallsRight, CallAt
    <2>2. CallsRight'
      BY <1>11, SMT DEF Timeout, Goto, callVars, slotVars, adcVars, histVars,
         TypeOK, CallsRight, CallAt, Waiting4End
    <2>3. SlotsOwned'
      BY <1>11, SMT DEF Timeout, Goto, callVars, slotVars, adcVars, histVars,
         TypeOK, SlotsOwned, CallsRight, CallAt
    <2>4. OneConversion'
      BY <1>11, SMT DEF Timeout, Goto, callVars, slotVars, adcVars, histVars,
         TypeOK, OneConversion, CallsRight, CallAt
    <2>5. UndisturbedRight'
      BY <1>11, SMT DEF Timeout, Goto, callVars, slotVars, adcVars, histVars,
         TypeOK, CallsRight, CallAt, OneConversion,
         UndisturbedRight, UndisturbedAt, Underway, Undisturbed
    <2> QED
      BY <2>1, <2>2, <2>3, <2>4, <2>5
  <1>12. ASSUME NEW cb \in CallBacks, SetEndConvCB(cb)
        PROVE  IInv'
    <2>1. TypeOK'
      BY <1>12, SMT DEF SetEndConvCB, First, callVars, slotVars, adcVars, histVars,
         TypeOK, Locations, CallsRight, CallAt
    <2>2. CallsRight'
      BY <1>12, SMT DEF SetEndConvCB, First, callVars, slotVars, adcVars, histVars,
         TypeOK, CallsRight, CallAt, Waiting4End
    <2>3. SlotsOwned'
      BY <1>12, SMT DEF SetEndConvCB, First, callVars, slotVars, adcVars, histVars,
         TypeOK, SlotsOwned, CallsRight, CallAt
    <2>4. OneConversion'
      BY <1>12, SMT DEF SetEndConvCB, First, callVars, slotVars, adcVars, histVars,
         TypeOK, OneConversion, CallsRight, CallAt
    <2>5. UndisturbedRight'
      BY <1>12, SMT DEF SetEndConvCB, First, callVars, slotVars, adcVars, histVars,
         TypeOK, CallsRight, CallAt, OneConversion,
         UndisturbedRight, UndisturbedAt, Underway, Undisturbed
    <2> QED
      BY <2>1, <2>2, <2>3, <2>4, <2>5
  <1>13. ASSUME AdcIrq
        PROVE  IInv'
    <2>1. /\ adc # None /\ indexMap = adc /\ adc \in Inputs
          /\ \A u \in Tasks : pc[u] # "start"
      BY <1>13 DEF AdcIrq, OneConversion, TypeOK
    <2>2. /\ adcVal' = [adcVal EXCEPT ![adc] = adc] /\ semphAdc' = 1
          /\ adc' = None /\ convFor' = None /\ EndConv(adc)
          /\ own' = [u \in Tasks |-> own[u] \/ u = convFor]
          /\ UNCHANGED <<id, waits, slot, ret, slotTask, slotId, endConvCB, indexMap>>
      BY <1>13, <2>1 DEF AdcIrq, callVars, slotVars
    <2>3. \A s \in Slots : First(s, slotId, adc) /\ slotTask[s] # None =>
             /\ slotTask[s] \in Tasks /\ slot[slotTask[s]] = s /\ id[slotTask[s]] = adc
      BY <2>1 DEF First, SlotsOwned, TypeOK
    \* Whoever is notified waits for the input; nobody else is.
    <2>4. \/ UNCHANGED <<ntf, pc>>
          \/ \E u \in Tasks : 
                /\ id[u] = adc /\ slot[u] # None
                /\ ntf' = [ntf EXCEPT ![u] = Give(@)]
                /\ pc' = IF Wakes(ntf[u]) /\ pc[u] = "blocked"
                         THEN [pc EXCEPT ![u] = "woken"] ELSE pc
      BY <2>2, <2>3, IdsFacts DEF EndConv
    <2>5. \A u \in Tasks : /\ Give(ntf[u]) \in Notification({0, 1})
                           /\ Give(ntf[u]).value = 1
      BY <1>0, GiveFacts
    <2>6. ntf' \in [Tasks -> Notification({0, 1})] /\ pc' \in [Tasks -> Locations]
      BY <2>4, <2>5, SMT DEF TypeOK, Locations
    <2>7. \A u \in Tasks : pc'[u] = pc[u] \/ (pc[u] = "blocked" /\ pc'[u] = "woken" /\ id[u] = adc)
      BY <2>4 DEF TypeOK
    <2>8. TypeOK'
      BY <2>1, <2>2, <2>6 DEF TypeOK
    <2>9. CallsRight'
      BY <2>1, <2>2, <2>7, SMT DEF CallsRight, CallAt, Waiting4End
    <2>10. SlotsOwned'
      BY <2>2 DEF SlotsOwned
    <2>11. OneConversion'
      <3>1. \A i \in Inputs : adcVal'[i] \in {None, i}
        BY <2>1, <2>2 DEF OneConversion, TypeOK
      <3>2. \A u \in Tasks : pc'[u] # "start"
        BY <2>1, <2>7
      <3> QED
        BY <2>2, <3>1, <3>2, SMT DEF OneConversion
    <2>12. ASSUME NEW t \in Tasks, Undisturbed(t)
           PROVE  UndisturbedAt(t)'
      <3>1. UndisturbedAt(t)
        BY <2>12 DEF UndisturbedRight
      <3>2. \A u \in Tasks : slot[u] # None => waits[u] /\ <<u, id[u]>> \in Reads
        BY DEF CallsRight, CallAt
      \* The conversion is its own: the routine finds its slot.
      <3>3. CASE convFor = t
        <4>1. /\ pc[t] \in {"take", "blocked"} /\ adc = id[t] /\ ntf[t].value = 0
              /\ ~own[t]
          BY <3>1, <3>3 DEF UndisturbedAt, Underway
        <4>2. slot[t] \in Slots /\ <<t, id[t]>> \in Reads
          BY <3>2, <4>1 DEF CallsRight, CallAt, Waiting4End, TypeOK
        <4>3. ASSUME NEW r \in Slots, slotId[r] = adc
              PROVE  r = slot[t]
          <5>1. slotTask[r] \in Tasks /\ slot[slotTask[r]] = r /\ id[slotTask[r]] = adc
            BY <2>1, <4>3 DEF SlotsOwned
          <5>2. <<slotTask[r], adc>> \in Reads
            BY <3>2, <5>1
          <5> QED
            BY <2>12, <4>1, <4>2, <5>1, <5>2 DEF Undisturbed
        <4>4. slotId[slot[t]] = adc /\ slotTask[slot[t]] = t
          BY <4>1, <4>2 DEF SlotsOwned
        <4>5. First(slot[t], slotId, adc)
          <5>1. DOMAIN slotId = Slots /\ \A r \in Slots : ~(r < r)
            BY SMT DEF TypeOK, Slots
          <5> QED
            BY <4>2, <4>3, <4>4, <5>1 DEF First
        <4>6. /\ ntf' = [ntf EXCEPT ![t] = Give(@)]
              /\ pc' = IF Wakes(ntf[t]) /\ pc[t] = "blocked"
                       THEN [pc EXCEPT ![t] = "woken"] ELSE pc
          BY <2>2, <4>2, <4>3, <4>4, <4>5, IdsFacts DEF EndConv, First
        <4>7. ntf'[t].value = 1 /\ own'[t] /\ convFor' # t /\ adc' = None
          BY <2>2, <2>5, <3>3, <4>6 DEF TypeOK
        <4>8. pc[t] = "blocked" => pc'[t] = "woken"
          BY <3>1, <4>6 DEF UndisturbedAt, TypeOK, Wakes
        <4> QED
          BY <2>7, <4>1, <4>7, <4>8 DEF UndisturbedAt, Underway
      \* The conversion is not its own: the routine passes its slot over.
      <3>4. CASE convFor # t
        <4>1. <<t, adc>> \notin Reads
          BY <2>1, <3>1, <3>4 DEF UndisturbedAt
        <4>2. pc'[t] = pc[t] /\ ntf'[t] = ntf[t]
          BY <2>4, <3>2, <4>1 DEF TypeOK
        <4>3. (own'[t] <=> own[t]) /\ ret' = ret /\ convFor' # t /\ adc' = None
          BY <2>2, <3>4, Zenon
        <4> QED
          BY <3>1, <3>4, <4>2, <4>3, Zenon DEF UndisturbedAt, Underway
      <3> QED
        BY <3>3, <3>4
    <2>13. UndisturbedRight'
      BY <2>12 DEF UndisturbedRight, Undisturbed
    <2> QED
      BY <2>8, <2>9, <2>10, <2>11, <2>13
  <1>14. ASSUME UNCHANGED vars
        PROVE  IInv'
    <2>1. TypeOK' /\ CallsRight' /\ SlotsOwned' /\ OneConversion'
      BY <1>14 DEF vars, callVars, slotVars, adcVars, histVars, TypeOK, CallsRight, CallAt, SlotsOwned, OneConversion
    <2>2. UndisturbedRight'
      BY <1>14 DEF vars, callVars, slotVars, adcVars, histVars, UndisturbedRight, UndisturbedAt, Underway, Undisturbed
    <2> QED
      BY <2>1, <2>2
  <1> QED
    BY <1>1, <1>2, <1>3, <1>4, <1>5, <1>6, <1>7, <1>8, <1>9, <1>10, <1>11, <1>12, <1>13, <1>14 DEF Next, Run

LEMMA InvAlways == Spec => []IInv
  BY InvInit, InvStep, PTL DEF Spec, SafeSpec

\* Every variable of the analog service keeps its type.
THEOREM TypeCorrect == Spec => []TypeOK
  BY InvAlways, PTL DEF IInv

(***************************************************************************)
(* efHal_analog_startWaitRead: however many tasks compete for however many *)
(* slots, and however their calls end, a slot belongs to one task, and no  *)
(* slot stays taken once the call that took it has ended.                  *)
(***************************************************************************)
THEOREM SlotsAreOwned == Spec => []SlotsOwned
  BY InvAlways, PTL DEF IInv

(***************************************************************************)
(* startConv and ADC0_IRQHandler: the converter works for one input at a   *)
(* time and its result is stored under that input.                         *)
(***************************************************************************)
THEOREM OneConversionAtATime == Spec => []OneConversion
  BY InvAlways, PTL DEF IInv

(***************************************************************************)
(* A successful startWaitRead of an undisturbed task returns a sample that *)
(* was taken during the call.                                              *)
(***************************************************************************)
THEOREM ReadIsFresh == Spec => []FreshRead
  <1>1. IInv => FreshRead
    BY DEF IInv, UndisturbedRight, UndisturbedAt, FreshRead
  <1> QED
    BY <1>1, InvAlways, PTL
=============================================================================
