--------------------------- MODULE EfHalGpio_proofs ---------------------------
(***************************************************************************)
(* TLAPS proofs about EfHalGpio, for any tasks, pins and table lengths,    *)
(* and about BoardPorts, the port handlers over it, for any ports.         *)
(***************************************************************************)
EXTENDS BoardPorts, TaskNotify_proofs

Fired == Registered \cup {"relHandle"}

(***************************************************************************)
(* The inductive invariant, in four parts.  First, what holds even when    *)
(* claims overlap: a slot that has a handle, or a pin of its own, has a    *)
(* task that will clear it.                                                *)
(***************************************************************************)
CallAt(t) ==
    /\ pc[t] # "idle" => <<t, pin[t]>> \in WaitsFor
    /\ pc[t] = "idle" => i[t] = 1

CallsRight == \A t \in Waiters : CallAt(t)

Cleared ==
    \A s \in Slots :
        /\ taskHandle[s] # None => \E v \in Waiters : pc[v] \in Fired /\ i[v] = s
        /\ gpioId[s] \notin {None, IdZero} =>
              \E v \in Waiters : pc[v] \in Registered \cup {"setHandle"} /\ i[v] = s

(***************************************************************************)
(* Second, as long as claims do not overlap: who has which slot.           *)
(***************************************************************************)
ClaimAt(t) ==
    /\ pc[t] \in Fired => taskHandle[i[t]] = t
    /\ pc[t] \in {"setId", "setHandle"} => taskHandle[i[t]] = None
    /\ pc[t] \in Registered \cup {"setHandle"} => gpioId[i[t]] = pin[t]
    /\ pc[t] = "relHandle" => gpioId[i[t]] = None

\* The pin that a slot without a handle holds is being claimed.
BeingClaimed(s) == \E u \in Waiters : pc[u] = "setHandle" /\ i[u] = s

SlotAt(s) ==
    /\ taskHandle[s] # None => pc[taskHandle[s]] \in Fired /\ i[taskHandle[s]] = s
    /\ taskHandle[s] = None /\ gpioId[s] \notin {None, IdZero} => BeingClaimed(s)
    /\ taskHandle[s] = None /\ gpioId[s] = IdZero =>
          BeingClaimed(s) \/ \A t \in Waiters : i[t] <= s

Claims ==
    "wait" \notin overlapped =>
        /\ \A t, u \in Waiters : pc[t] \in Claiming /\ pc[u] \in Claiming => t = u
        /\ \A t \in Waiters : ClaimAt(t)
        /\ \A s \in Slots : SlotAt(s)

(***************************************************************************)
(* Third, what the notification of a task with pins of its own says: a     *)
(* count is there from the moment its pin fires.                           *)
(***************************************************************************)
CountAt(t) ==
    /\ pc[t] \in {"clear", "take"} /\ seen[t] => ntf[t].value # 0
    /\ pc[t] = "blocked" => ~seen[t] /\ ntf[t].state = Waiting

Counts ==
    "wait" \notin overlapped => \A t \in Waiters : Private(t) => CountAt(t)

(***************************************************************************)
(* Fourth, as long as registrations do not overlap: the callback table is  *)
(* filled from the front, and the entry being claimed is the next one.     *)
(***************************************************************************)
Passed(c) == \A d \in CbSlots : d < c => cbInt[d] # None

CallBacks ==
    "callBack" \notin overlapped =>
        /\ \A r, q \in Registrars : rpc[r] # "idle" /\ rpc[q] # "idle" => r = q
        /\ \A c \in CbSlots : cbInt[c] # None => Passed(c)
        /\ \A r \in Registrars :
              /\ rpc[r] = "idle" => j[r] = 1
              /\ Passed(j[r])
              /\ rpc[r] \in {"setId", "setCb"} => cbInt[j[r]] = None

IInv == TypeOK /\ CallsRight /\ Cleared /\ Claims /\ Counts /\ CallBacks

\* A step of the service whose pins may be reported by any handler, as port A
\* reports pins that have no interrupt of their own.
ServiceNext == Next \/ \E p \in Pins : InterruptRoutine(p)

LEMMA ConstantFacts ==
    /\ None \notin Waiters /\ None \notin Registrars /\ None \notin Pins
    /\ None \notin Slots /\ None \notin CbSlots
    /\ 1 \in Slots /\ 1 \in CbSlots /\ IdZero \in Pins /\ Firing \subseteq Pins
    /\ Slots \subseteq Nat /\ CbSlots \subseteq Nat
  <1>1. None \notin Nat /\ Slots \subseteq Nat /\ CbSlots \subseteq Nat
    BY GpioAssumption, SMT DEF GpioAssumption, Slots, CbSlots
  <1>2. 1 \in Slots /\ 1 \in CbSlots
    BY GpioAssumption, SMT DEF GpioAssumption, Slots, CbSlots
  <1> QED
    BY <1>1, <1>2, GpioAssumption DEF GpioAssumption, Pins

LEMMA InvInit == Init => IInv
  <1> SUFFICES ASSUME Init PROVE IInv
    OBVIOUS
  <1> USE ConstantFacts
  <1>1. NotifyInit \in Notification({0, 1})
    BY InitFacts
  <1>2. TypeOK
    BY <1>1, SMT DEF Init, TypeOK, Locations
  <1>3. CallsRight /\ Cleared
    BY SMT DEF Init, CallsRight, CallAt, Cleared
  <1>4. Claims
    BY SMT DEF Init, Claims, ClaimAt, SlotAt, Claiming, Fired, Registered, Slots
  <1>5. Counts
    BY SMT DEF Init, Counts, CountAt
  <1>6. CallBacks
    BY SMT DEF Init, CallBacks, Passed, CbSlots
  <1> QED
    BY <1>2, <1>3, <1>4, <1>5, <1>6 DEF IInv

\* The first part of the invariant: types, and the arguments of the calls.
LEMMA TypeStep == TypeOK /\ CallsRight /\ [ServiceNext]_vars => TypeOK' /\ CallsRight'
  <1> SUFFICES ASSUME TypeOK, CallsRight, [ServiceNext]_vars PROVE TypeOK' /\ CallsRight'
    OBVIOUS
  <1> USE ConstantFacts
  <1>0. \A u \in Waiters : ntf[u] \in Notification({0, 1})
    BY DEF TypeOK
  <1>1. ASSUME NEW t \in Waiters, NEW p \in Pins, Call(t, p)
        PROVE  TypeOK' /\ CallsRight'
    <2>1. TypeOK'
      BY <1>1, SMT DEF Call, Goto, BeginClaim, waitVars, slotVars, cbVars, histVars,
         TypeOK, Locations, Claiming, Registered
    <2>2. CallsRight'
      BY <1>1, SMT DEF Call, Goto, BeginClaim, waitVars, slotVars, cbVars, histVars,
         TypeOK, CallsRight, CallAt
    <2> QED
      BY <2>1, <2>2
  <1>2. ASSUME NEW t \in Waiters, Scan(t)
        PROVE  TypeOK' /\ CallsRight'
    <2>1. TypeOK'
      <3>1. i[t] < NSlots => i[t] + 1 \in Slots
        BY GpioAssumption, SMT DEF GpioAssumption, TypeOK, Slots
      <3> QED
        BY <1>2, <3>1, SMT DEF Scan, slotVars, cbVars, histVars,
           TypeOK, Locations, Claiming, Registered
    <2>2. CallsRight'
      BY <1>2, SMT DEF Scan, waitVars, slotVars, cbVars, histVars,
         TypeOK, CallsRight, CallAt
    <2> QED
      BY <2>1, <2>2
  <1>3. ASSUME NEW t \in Waiters, SetId(t)
        PROVE  TypeOK' /\ CallsRight'
    <2>1. TypeOK'
      BY <1>3, SMT DEF SetId, Goto, waitVars, slotVars, cbVars, histVars,
         TypeOK, Locations, Claiming, Registered
    <2>2. CallsRight'
      BY <1>3, SMT DEF SetId, Goto, waitVars, slotVars, cbVars, histVars,
         TypeOK, CallsRight, CallAt
    <2> QED
      BY <2>1, <2>2
  <1>4. ASSUME NEW t \in Waiters, SetHandle(t)
        PROVE  TypeOK' /\ CallsRight'
    <2>1. TypeOK'
      BY <1>4, SMT DEF SetHandle, Goto, waitVars, slotVars, cbVars, histVars,
         TypeOK, Locations, Claiming, Registered
    <2>2. CallsRight'
      BY <1>4, SMT DEF SetHandle, Goto, waitVars, slotVars, cbVars, histVars,
         TypeOK, CallsRight, CallAt
    <2> QED
      BY <2>1, <2>2
  <1>5. ASSUME NEW t \in Waiters, ClearState(t)
        PROVE  TypeOK' /\ CallsRight'
    <2>1. \A u \in Waiters : StateClear(ntf[u]) \in Notification({0, 1})
      BY <1>0, ClearFacts
    <2>2. TypeOK'
      <3>1. ntf' \in [Waiters -> Notification({0, 1})]
        BY <1>5, <2>1 DEF ClearState, TypeOK
      <3>2. /\ pc' \in [Waiters -> Locations]
            /\ UNCHANGED <<pin, i, ret, slotVars, cbVars, histVars>>
        BY <1>5, SMT DEF ClearState, Goto, TypeOK, Locations, Registered
      <3> QED
        BY <3>1, <3>2 DEF TypeOK, slotVars, cbVars, histVars
    <2>3. CallsRight'
      BY <1>5, SMT DEF ClearState, Goto, waitVars, slotVars, cbVars, histVars,
         TypeOK, CallsRight, CallAt
    <2> QED
      BY <2>2, <2>3
  <1>6. ASSUME NEW t \in Waiters, Take(t)
        PROVE  TypeOK' /\ CallsRight'
    <2>1. TakeEnter(ntf[t]) \in Notification({0, 1})
      BY <1>0, TakeFacts
    <2>2. TypeOK'
      BY <1>6, <2>1, SMT DEF Take, Goto, waitVars, slotVars, cbVars, histVars,
         TypeOK, Locations, Claiming, Registered
    <2>3. CallsRight'
      BY <1>6, SMT DEF Take, Goto, waitVars, slotVars, cbVars, histVars,
         TypeOK, CallsRight, CallAt
    <2> QED
      BY <2>2, <2>3
  <1>7. ASSUME NEW t \in Waiters, Wake(t)
        PROVE  TypeOK' /\ CallsRight'
    <2>1. TakeExit(ntf[t]) \in Notification({0, 1}) /\ TakeResult(ntf[t]) \in BOOLEAN
      BY <1>0, TakeFacts
    <2>2. TypeOK'
      BY <1>7, <2>1, SMT DEF Wake, Goto, waitVars, slotVars, cbVars, histVars,
         TypeOK, Locations, Claiming, Registered
    <2>3. CallsRight'
      BY <1>7, SMT DEF Wake, Goto, waitVars, slotVars, cbVars, histVars,
         TypeOK, CallsRight, CallAt
    <2> QED
      BY <2>2, <2>3
  <1>8. ASSUME NEW t \in Waiters, ReleaseId(t)
        PROVE  TypeOK' /\ CallsRight'
    <2>1. TypeOK'
      BY <1>8, SMT DEF ReleaseId, Goto, waitVars, slotVars, cbVars, histVars,
         TypeOK, Locations, Claiming, Registered
    <2>2. CallsRight'
      BY <1>8, SMT DEF ReleaseId, Goto, waitVars, slotVars, cbVars, histVars,
         TypeOK, CallsRight, CallAt
    <2> QED
      BY <2>1, <2>2
  <1>9. ASSUME NEW t \in Waiters, ReleaseHandle(t)
        PROVE  TypeOK' /\ CallsRight'
    <2>1. TypeOK'
      BY <1>9, SMT DEF ReleaseHandle, Goto, waitVars, slotVars, cbVars, histVars,
         TypeOK, Locations, Claiming, Registered
    <2>2. CallsRight'
      BY <1>9, SMT DEF ReleaseHandle, Goto, waitVars, slotVars, cbVars, histVars,
         TypeOK, CallsRight, CallAt
    <2> QED
      BY <2>1, <2>2
  <1>10. ASSUME NEW t \in Waiters, Timeout(t)
        PROVE  TypeOK' /\ CallsRight'
    <2>1. TypeOK'
      BY <1>10, SMT DEF Timeout, Goto, waitVars, slotVars, cbVars, histVars,
         TypeOK, Locations, Claiming, Registered
    <2>2. CallsRight'
      BY <1>10, SMT DEF Timeout, Goto, waitVars, slotVars, cbVars, histVars,
         TypeOK, CallsRight, CallAt
    <2> QED
      BY <2>1, <2>2
  <1>11. ASSUME NEW r \in Registrars, NEW p \in Firing, SetCallBackInt(r, p)
        PROVE  TypeOK' /\ CallsRight'
    <2>1. TypeOK'
      BY <1>11, SMT DEF SetCallBackInt, BeginClaim, waitVars, slotVars, cbVars, histVars,
         TypeOK, Locations, Claiming, Registered
    <2>2. CallsRight'
      BY <1>11, SMT DEF SetCallBackInt, BeginClaim, waitVars, slotVars, cbVars, histVars,
         TypeOK, CallsRight, CallAt
    <2> QED
      BY <2>1, <2>2
  <1>12. ASSUME NEW r \in Registrars, CbScan(r)
        PROVE  TypeOK' /\ CallsRight'
    <2>1. TypeOK'
      <3>1. j[r] < NCallBacks => j[r] + 1 \in CbSlots
        BY GpioAssumption, SMT DEF GpioAssumption, TypeOK, CbSlots
      <3> QED
        BY <1>12, <3>1, SMT DEF CbScan, waitVars, slotVars, histVars, TypeOK
    <2>2. CallsRight'
      BY <1>12, SMT DEF CbScan, waitVars, slotVars, cbVars, histVars,
         TypeOK, CallsRight, CallAt
    <2> QED
      BY <2>1, <2>2
  <1>13. ASSUME NEW r \in Registrars, CbSetId(r)
        PROVE  TypeOK' /\ CallsRight'
    <2>1. TypeOK'
      BY <1>13, SMT DEF CbSetId, waitVars, slotVars, cbVars, histVars,
         TypeOK, Locations, Claiming, Registered
    <2>2. CallsRight'
      BY <1>13, SMT DEF CbSetId, waitVars, slotVars, cbVars, histVars,
         TypeOK, CallsRight, CallAt
    <2> QED
      BY <2>1, <2>2
  <1>14. ASSUME NEW r \in Registrars, CbSetCb(r)
        PROVE  TypeOK' /\ CallsRight'
    <2>1. TypeOK'
      BY <1>14, SMT DEF CbSetCb, waitVars, slotVars, cbVars, histVars,
         TypeOK, Locations, Claiming, Registered
    <2>2. CallsRight'
      BY <1>14, SMT DEF CbSetCb, waitVars, slotVars, cbVars, histVars,
         TypeOK, CallsRight, CallAt
    <2> QED
      BY <2>1, <2>2
  <1>15. ASSUME NEW p \in Pins, InterruptRoutine(p)
        PROVE  TypeOK' /\ CallsRight'
    <2>1. \A u \in Waiters : Give(ntf[u]) \in Notification({0, 1})
      BY <1>0, GiveFacts
    <2>2. TypeOK'
      BY <1>15, <2>1, SMT DEF InterruptRoutine, waitVars, slotVars, cbVars, histVars,
         TypeOK, Locations, Claiming, Registered
    <2>3. CallsRight'
      BY <1>15, SMT DEF InterruptRoutine, waitVars, slotVars, cbVars, histVars,
         TypeOK, CallsRight, CallAt
    <2> QED
      BY <2>2, <2>3
  <1>16. ASSUME UNCHANGED vars
        PROVE  TypeOK' /\ CallsRight'
    BY <1>16 DEF vars, waitVars, slotVars, cbVars, histVars, TypeOK, CallsRight, CallAt
  <1> QED
    BY <1>1, <1>2, <1>3, <1>4, <1>5, <1>6, <1>7, <1>8, <1>9, <1>10, <1>11, <1>12, <1>13,
       <1>14, <1>15, <1>16 DEF ServiceNext, Next, Run, RunRegistrar

(***************************************************************************)
(* The steps of a task between the claim and the release of its slot, and  *)
(* the interrupts, leave both tables alone.                                *)
(***************************************************************************)
Inside ==
    \/ \E t \in Waiters : ClearState(t) \/ Take(t) \/ Wake(t) \/ Timeout(t)
    \/ \E p \in Pins : InterruptRoutine(p)

LEMMA InsideStep ==
  ASSUME TypeOK, Inside
  PROVE  /\ UNCHANGED <<pin, i, slotVars, cbVars, overlapped>>
         /\ \A u \in Waiters : \/ pc'[u] = pc[u]
                               \/ pc[u] \in Registered /\ pc'[u] \in Registered
  <1>1. CASE \E t \in Waiters : ClearState(t) \/ Take(t) \/ Wake(t) \/ Timeout(t)
    <2>1. PICK t \in Waiters : ClearState(t) \/ Take(t) \/ Wake(t) \/ Timeout(t)
      BY <1>1
    <2>2. /\ pc[t] \in Registered
          /\ \E l \in Registered : pc' = [pc EXCEPT ![t] = l]
          /\ UNCHANGED <<pin, i, slotVars, cbVars, overlapped>>
      BY <2>1, Zenon DEF ClearState, Take, Wake, Timeout, Goto, Registered, histVars
    <2> QED
      BY <2>2 DEF TypeOK
  <1>2. CASE \E p \in Pins : InterruptRoutine(p)
    <2>1. \/ UNCHANGED pc
          \/ \E u \in Waiters : pc[u] = "blocked" /\ pc' = [pc EXCEPT ![u] = "woken"]
      BY <1>2, ConstantFacts DEF InterruptRoutine, TypeOK
    <2>2. UNCHANGED <<pin, i, slotVars, cbVars, overlapped>>
      BY <1>2 DEF InterruptRoutine
    <2> QED
      BY <2>1, <2>2 DEF TypeOK, Registered
  <1> QED
    BY <1>1, <1>2 DEF Inside

\* The steps of a task that registers callbacks do not touch the waiting side.
Registering ==
    \E r \in Registrars : RunRegistrar(r) \/ \E p \in Firing : SetCallBackInt(r, p)

LEMMA RegisteringStep ==
  ASSUME Registering
  PROVE  /\ UNCHANGED <<waitVars, ntf, slotVars, seen>>
         /\ "wait" \in overlapped => "wait" \in overlapped'
  BY DEF Registering, RunRegistrar, SetCallBackInt, BeginClaim, CbScan, CbSetId, CbSetCb, histVars

LEMMA NextSteps ==
  ASSUME [ServiceNext]_vars
  PROVE  \/ \E t \in Waiters : \/ \E p \in Pins : Call(t, p)
                               \/ Scan(t) \/ SetId(t) \/ SetHandle(t)
                               \/ ReleaseId(t) \/ ReleaseHandle(t)
         \/ Inside \/ Registering \/ UNCHANGED vars
  BY ConstantFacts DEF ServiceNext, Next, Run, Inside, Registering

\* The second part: a slot in use has a task that will clear it.
LEMMA ClearedStep == TypeOK /\ Cleared /\ [ServiceNext]_vars => Cleared'
  <1> SUFFICES ASSUME TypeOK, Cleared, [ServiceNext]_vars PROVE Cleared'
    OBVIOUS
  <1> USE ConstantFacts
  <1>1. ASSUME NEW t \in Waiters, NEW p \in Pins, Call(t, p)
        PROVE  Cleared'
    BY <1>1, SMT DEF Call, Goto, slotVars, TypeOK, Cleared, Fired, Registered
  <1>2. ASSUME NEW t \in Waiters, Scan(t)
        PROVE  Cleared'
    BY <1>2, SMT DEF Scan, slotVars, TypeOK, Cleared, Fired, Registered
  <1>3. ASSUME NEW t \in Waiters, SetId(t)
        PROVE  Cleared'
    BY <1>3, SMT DEF SetId, Goto, TypeOK, Cleared, Fired, Registered
  <1>4. ASSUME NEW t \in Waiters, SetHandle(t)
        PROVE  Cleared'
    BY <1>4, SMT DEF SetHandle, Goto, TypeOK, Cleared, Fired, Registered
  <1>5. ASSUME NEW t \in Waiters, ReleaseId(t)
        PROVE  Cleared'
    <2>1. /\ pc[t] = "relId" /\ pc'[t] = "relHandle" /\ UNCHANGED <<i, taskHandle>>
          /\ \A u \in Waiters : u # t => pc'[u] = pc[u]
          /\ gpioId'[i[t]] = None
          /\ \A s \in Slots : s # i[t] => gpioId'[s] = gpioId[s]
      BY <1>5 DEF ReleaseId, Goto, TypeOK
    <2>2. ASSUME NEW s \in Slots, taskHandle'[s] # None
          PROVE  \E v \in Waiters : pc'[v] \in Fired /\ i'[v] = s
      BY <2>1, <2>2 DEF Cleared, Fired
    <2>3. ASSUME NEW s \in Slots, gpioId'[s] \notin {None, IdZero}
          PROVE  \E v \in Waiters : pc'[v] \in Registered \cup {"setHandle"} /\ i'[v] = s
      BY <2>1, <2>3 DEF Cleared
    <2> QED
      BY <2>2, <2>3 DEF Cleared
  <1>6. ASSUME NEW t \in Waiters, ReleaseHandle(t)
        PROVE  Cleared'
    BY <1>6, SMT DEF ReleaseHandle, Goto, TypeOK, Cleared, Fired, Registered
  <1>7. CASE Inside
    BY <1>7, InsideStep DEF Cleared, Fired, slotVars
  <1>8. CASE Registering
    BY <1>8, RegisteringStep DEF Cleared, waitVars, slotVars
  <1>9. CASE UNCHANGED vars
    BY <1>9 DEF vars, waitVars, slotVars, Cleared
  <1> QED
    BY <1>1, <1>2, <1>3, <1>4, <1>5, <1>6, <1>7, <1>8, <1>9, NextSteps

\* The third part: who has which slot.
LEMMA ClaimsStep == TypeOK /\ Claims /\ CallsRight /\ [ServiceNext]_vars => Claims'
  <1> SUFFICES ASSUME TypeOK, Claims, CallsRight, [ServiceNext]_vars, "wait" \notin overlapped'
               PROVE  /\ \A t, u \in Waiters : pc'[t] \in Claiming /\ pc'[u] \in Claiming => t = u
                      /\ \A t \in Waiters : ClaimAt(t)'
                      /\ \A s \in Slots : SlotAt(s)'
    BY DEF Claims
  <1> USE ConstantFacts
  <1> DEFINE Goal == /\ \A t, u \in Waiters : pc'[t] \in Claiming /\ pc'[u] \in Claiming => t = u
                     /\ \A t \in Waiters : ClaimAt(t)'
                     /\ \A s \in Slots : SlotAt(s)'
  <1>0. ASSUME "wait" \notin overlapped
        PROVE  /\ \A t, u \in Waiters : pc[t] \in Claiming /\ pc[u] \in Claiming => t = u
               /\ \A t \in Waiters : ClaimAt(t)
               /\ \A s \in Slots : SlotAt(s)
    BY <1>0 DEF Claims
  <1>1. ASSUME NEW t \in Waiters, NEW p \in Pins, Call(t, p)
        PROVE  Goal
    <2>1. /\ "wait" \notin overlapped /\ \A u \in Waiters : pc[u] \notin Claiming
          /\ pc[t] = "idle" /\ pc'[t] = "scan" /\ UNCHANGED <<i, taskHandle, gpioId>>
          /\ \A u \in Waiters : u # t => pc'[u] = pc[u] /\ pin'[u] = pin[u]
      BY <1>1 DEF Call, Goto, BeginClaim, slotVars, TypeOK
    <2>2. \A u, v \in Waiters : pc'[u] \in Claiming /\ pc'[v] \in Claiming => u = v
      BY <2>1
    <2>3. \A u \in Waiters : ClaimAt(u)'
      BY <2>1, <1>0 DEF ClaimAt, Fired, Registered
    <2>4. \A s \in Slots : SlotAt(s)'
      <3>1. taskHandle \in [Slots -> Waiters \cup {None}]
        BY DEF TypeOK
      <3>2. \A u \in Waiters : pc[u] \in Fired \cup {"setHandle"} => pc'[u] = pc[u]
        BY <2>1 DEF Fired, Registered
      <3> QED
        BY <2>1, <1>0, <3>1, <3>2 DEF SlotAt, BeingClaimed
    <2> QED
      BY <2>2, <2>3, <2>4
  <1>2. ASSUME NEW t \in Waiters, Scan(t)
        PROVE  Goal
    <2>1. /\ "wait" \notin overlapped /\ UNCHANGED <<taskHandle, gpioId>>
          /\ pc[t] = "scan" /\ pc'[t] \in {"scan", "setId", "idle"}
          /\ \A u \in Waiters : u # t => pc'[u] = pc[u] /\ pin'[u] = pin[u] /\ i'[u] = i[u]
      BY <1>2 DEF Scan, histVars, slotVars, TypeOK
    <2>2. pc'[t] = "setId" => i'[t] = i[t] /\ taskHandle[i[t]] = None
      BY <1>2 DEF Scan, TypeOK
    <2>3. i'[t] = i[t] \/ i'[t] = 1 \/ (i'[t] = i[t] + 1 /\ taskHandle[i[t]] # None)
      BY <1>2 DEF Scan, TypeOK
    <2>4. \A u, v \in Waiters : pc'[u] \in Claiming /\ pc'[v] \in Claiming => u = v
      BY <2>1, <1>0 DEF Claiming
    <2>5. ClaimAt(t)'
      BY <2>1, <2>2 DEF ClaimAt, Fired, Registered
    <2>6. \A u \in Waiters : u # t => ClaimAt(u)'
      BY <2>1, <1>0 DEF ClaimAt
    <2>7. ASSUME NEW s \in Slots
          PROVE  SlotAt(s)'
      <3>1. \A u \in Waiters : pc[u] \in Fired \cup {"setHandle"} => pc'[u] = pc[u] /\ i'[u] = i[u]
        BY <2>1 DEF Fired, Registered
      <3>2. taskHandle[s] = None /\ i[t] <= s => i'[t] <= s
        BY <2>3, SMT DEF TypeOK, Slots
      <3>3. taskHandle[s] # None => pc'[taskHandle[s]] \in Fired /\ i'[taskHandle[s]] = s
        <4>1. taskHandle[s] \in Waiters \cup {None} /\ SlotAt(s)
          BY <2>1, <1>0 DEF TypeOK
        <4> QED
          BY <3>1, <4>1 DEF SlotAt
      <3>4. BeingClaimed(s) => BeingClaimed(s)'
        BY <3>1 DEF BeingClaimed
      <3> QED
        BY <2>1, <1>0, <3>2, <3>3, <3>4 DEF SlotAt
    <2> QED
      BY <2>4, <2>5, <2>6, <2>7
  <1>3. ASSUME NEW t \in Waiters, SetId(t)
        PROVE  Goal
    <2>1. /\ "wait" \notin overlapped /\ UNCHANGED <<taskHandle, pin, i>>
          /\ pc[t] = "setId" /\ pc'[t] = "setHandle"
          /\ \A u \in Waiters : u # t => pc'[u] = pc[u]
          /\ gpioId'[i[t]] = pin[t]
          /\ \A s \in Slots : s # i[t] => gpioId'[s] = gpioId[s]
      BY <1>3 DEF SetId, Goto, histVars, TypeOK
    <2>2. taskHandle[i[t]] = None
      BY <2>1, <1>0 DEF ClaimAt
    <2>3. \A u, v \in Waiters : pc'[u] \in Claiming /\ pc'[v] \in Claiming => u = v
      BY <2>1, <1>0 DEF Claiming
    <2>4. ClaimAt(t)'
      BY <2>1, <2>2 DEF ClaimAt, Fired, Registered
    <2>5. ASSUME NEW u \in Waiters, u # t
          PROVE  ClaimAt(u)'
      <3>1. pc[u] \notin Claiming
        BY <2>1, <2>5, <1>0 DEF Claiming
      <3>2. pc[u] \in Fired => i[u] # i[t] /\ i[u] \in Slots
        BY <2>1, <2>2, <1>0 DEF ClaimAt, TypeOK
      <3> QED
        BY <2>1, <2>5, <1>0, <3>1, <3>2 DEF ClaimAt, Fired, Claiming
    <2>6. ASSUME NEW s \in Slots
          PROVE  SlotAt(s)'
      <3>1. \A u \in Waiters : pc[u] \in Fired \cup {"setHandle"} => pc'[u] = pc[u]
        BY <2>1 DEF Fired, Registered
      <3>2. taskHandle[s] # None => pc'[taskHandle[s]] \in Fired /\ i'[taskHandle[s]] = s
        BY <2>1, <1>0, <3>1 DEF SlotAt, TypeOK
      <3>3. BeingClaimed(s) => BeingClaimed(s)'
        BY <2>1, <3>1 DEF BeingClaimed
      <3>4. CASE s = i[t]
        <4>1. BeingClaimed(s)'
          BY <2>1, <3>4 DEF BeingClaimed
        <4> QED
          BY <2>1, <3>2, <4>1 DEF SlotAt
      <3>5. CASE s # i[t]
        BY <2>1, <1>0, <3>2, <3>3, <3>5 DEF SlotAt
      <3> QED
        BY <3>4, <3>5
    <2> QED
      BY <2>3, <2>4, <2>5, <2>6
  <1>4. ASSUME NEW t \in Waiters, SetHandle(t)
        PROVE  Goal
    BY <1>4, <1>0, SMT DEF SetHandle, Goto, TypeOK, ClaimAt, SlotAt, BeingClaimed,
       Claiming, Fired, Registered
  <1>5. ASSUME NEW t \in Waiters, ReleaseId(t)
        PROVE  Goal
    <2>1. /\ "wait" \notin overlapped /\ UNCHANGED <<taskHandle, pin, i>>
          /\ pc[t] = "relId" /\ pc'[t] = "relHandle"
          /\ \A u \in Waiters : u # t => pc'[u] = pc[u]
          /\ gpioId'[i[t]] = None
          /\ \A s \in Slots : s # i[t] => gpioId'[s] = gpioId[s]
      BY <1>5 DEF ReleaseId, Goto, histVars, TypeOK
    <2>2. taskHandle[i[t]] = t /\ i[t] \in Slots
      BY <2>1, <1>0 DEF ClaimAt, Fired, Registered, TypeOK
    <2>3. \A u, v \in Waiters : pc'[u] \in Claiming /\ pc'[v] \in Claiming => u = v
      BY <2>1, <1>0 DEF Claiming
    <2>4. ClaimAt(t)'
      BY <2>1, <2>2 DEF ClaimAt, Fired, Registered
    <2>5. ASSUME NEW u \in Waiters, u # t
          PROVE  ClaimAt(u)'
      <3>1. pc[u] \in Registered \cup {"setHandle"} => i[u] # i[t] /\ i[u] \in Slots
        BY <2>1, <2>2, <2>5, <1>0 DEF ClaimAt, TypeOK, Fired
      <3>2. pc[u] = "relHandle" => i[u] \in Slots
        BY DEF TypeOK
      <3> QED
        BY <2>1, <2>5, <1>0, <3>1, <3>2 DEF ClaimAt
    <2>6. ASSUME NEW s \in Slots
          PROVE  SlotAt(s)'
      <3>1. \A u \in Waiters : pc[u] \in Fired => pc'[u] \in Fired
        BY <2>1 DEF Fired
      <3>2. taskHandle[s] # None => pc'[taskHandle[s]] \in Fired /\ i'[taskHandle[s]] = s
        <4>1. taskHandle[s] \in Waiters \cup {None} /\ SlotAt(s) /\ UNCHANGED <<taskHandle, i>>
          BY <2>1, <1>0 DEF TypeOK
        <4> QED
          BY <3>1, <4>1 DEF SlotAt
      <3>3. BeingClaimed(s) => BeingClaimed(s)'
        BY <2>1 DEF BeingClaimed
      <3>4. taskHandle[s] = None => gpioId'[s] = gpioId[s]
        BY <2>1, <2>2
      <3> QED
        BY <2>1, <1>0, <3>2, <3>3, <3>4 DEF SlotAt
    <2> QED
      BY <2>3, <2>4, <2>5, <2>6
  <1>6. ASSUME NEW t \in Waiters, ReleaseHandle(t)
        PROVE  Goal
    <2>1. /\ "wait" \notin overlapped /\ UNCHANGED gpioId
          /\ pc[t] = "relHandle" /\ pc'[t] = "idle" /\ i'[t] = 1
          /\ \A u \in Waiters : u # t => pc'[u] = pc[u] /\ pin'[u] = pin[u] /\ i'[u] = i[u]
          /\ taskHandle'[i[t]] = None
          /\ \A s \in Slots : s # i[t] => taskHandle'[s] = taskHandle[s]
      BY <1>6 DEF ReleaseHandle, Goto, TypeOK
    <2>2. taskHandle[i[t]] = t /\ i[t] \in Slots /\ gpioId[i[t]] = None
      BY <2>1, <1>0 DEF ClaimAt, Fired, TypeOK
    <2>3. \A u, v \in Waiters : pc'[u] \in Claiming /\ pc'[v] \in Claiming => u = v
      BY <2>1, <1>0 DEF Claiming
    <2>4. ClaimAt(t)'
      BY <2>1 DEF ClaimAt, Fired, Registered
    <2>5. ASSUME NEW u \in Waiters, u # t
          PROVE  ClaimAt(u)'
      <3>1. i[u] \in Slots /\ (pc[u] \in Fired => i[u] # i[t])
        BY <2>1, <2>2, <2>5, <1>0 DEF ClaimAt, TypeOK
      <3>2. pc[u] \in {"setId", "setHandle"} => taskHandle'[i[u]] = None
        BY <2>1, <1>0, <3>1 DEF ClaimAt
      <3>3. UNCHANGED <<pc[u], pin[u], i[u], gpioId>> /\ ClaimAt(u)
        BY <2>1, <2>5, <1>0
      <3>4. pc[u] \in Fired => taskHandle'[i[u]] = u
        BY <2>1, <3>1, <3>3 DEF ClaimAt
      <3> QED
        BY <3>2, <3>3, <3>4 DEF ClaimAt
    <2>6. ASSUME NEW s \in Slots
          PROVE  SlotAt(s)'
      <3>1. BeingClaimed(s) => BeingClaimed(s)'
        BY <2>1 DEF BeingClaimed
      <3>2. CASE s = i[t]
        BY <2>1, <2>2, <3>2 DEF SlotAt
      <3>3. CASE s # i[t]
        <4>1. taskHandle'[s] # None =>
                 taskHandle[s] # t /\ taskHandle[s] \in Waiters /\ i[taskHandle[s]] = s
                 /\ pc[taskHandle[s]] \in Fired
          <5>1. taskHandle'[s] = taskHandle[s] /\ SlotAt(s)
            BY <2>1, <1>0, <3>3
          <5>2. taskHandle[s] # None => taskHandle[s] \in Waiters
            BY DEF TypeOK
          <5>3. taskHandle[s] # None => pc[taskHandle[s]] \in Fired /\ i[taskHandle[s]] = s
            BY <5>1 DEF SlotAt
          <5> QED
            BY <3>3, <5>1, <5>2, <5>3
        <4>2. i'[t] <= s
          BY <2>1, SMT DEF Slots
        <4> QED
          BY <2>1, <1>0, <3>1, <3>3, <4>1, <4>2 DEF SlotAt
      <3> QED
        BY <3>2, <3>3
    <2> QED
      BY <2>3, <2>4, <2>5, <2>6
  <1>7. CASE Inside
    <2>1. /\ UNCHANGED <<pin, i, taskHandle, gpioId, overlapped>>
          /\ \A u \in Waiters : \/ pc'[u] = pc[u]
                                \/ pc[u] \in Registered /\ pc'[u] \in Registered
      BY <1>7, InsideStep DEF slotVars
    <2>2. \A u \in Waiters :
             /\ pc'[u] \in Claiming => pc[u] \in Claiming
             /\ pc'[u] \in Fired <=> pc[u] \in Fired
             /\ pc'[u] \in {"setId", "setHandle"} => pc[u] \in {"setId", "setHandle"}
             /\ pc'[u] \in Registered \cup {"setHandle"} => pc[u] \in Registered \cup {"setHandle"}
             /\ pc'[u] = "relHandle" => pc[u] = "relHandle"
             /\ pc[u] = "setHandle" => pc'[u] = "setHandle"
      BY <2>1 DEF Claiming, Fired, Registered
    <2>3. \A u \in Waiters : ClaimAt(u)'
      BY <2>1, <2>2, <1>0 DEF ClaimAt
    <2>4. \A s \in Slots : SlotAt(s)'
      <3>1. taskHandle \in [Slots -> Waiters \cup {None}]
        BY DEF TypeOK
      <3> QED
        BY <2>1, <2>2, <1>0, <3>1 DEF SlotAt, BeingClaimed
    <2> QED
      BY <2>1, <2>2, <2>3, <2>4, <1>0
  <1>8. CASE Registering
    BY <1>8, <1>0, RegisteringStep DEF ClaimAt, SlotAt, BeingClaimed, waitVars, slotVars
  <1>9. CASE UNCHANGED vars
    BY <1>9, <1>0 DEF vars, waitVars, slotVars, histVars, ClaimAt, SlotAt, BeingClaimed
  <1> QED
    BY <1>1, <1>2, <1>3, <1>4, <1>5, <1>6, <1>7, <1>8, <1>9, NextSteps

(***************************************************************************)
(* An interrupt of the pin that a task with pins of its own waits for      *)
(* finds that task's slot, and no other slot with the pin before it.       *)
(***************************************************************************)
LEMMA SlotFound ==
  ASSUME TypeOK, CallsRight, Claims, "wait" \notin overlapped,
         NEW t \in Waiters, Private(t), pc[t] \in Registered
  PROVE  First(i[t], gpioId, pin[t]) /\ taskHandle[i[t]] = t
  <1> USE ConstantFacts
  <1>1. /\ taskHandle[i[t]] = t /\ gpioId[i[t]] = pin[t] /\ i[t] \in Slots
        /\ pin[t] \in Pins /\ <<t, pin[t]>> \in WaitsFor
    BY GpioAssumption DEF GpioAssumption, TypeOK, CallsRight, CallAt, Claims, ClaimAt, Fired, Registered
  <1>2. ASSUME NEW s \in Slots, s < i[t], gpioId[s] = pin[t]
        PROVE  FALSE
    <2>1. ASSUME NEW u \in Waiters, pc[u] \in Fired \cup {"setHandle"}, i[u] = s
          PROVE  FALSE
      <3>1. u # t
        BY <1>1, <1>2, <2>1, SMT DEF Slots
      <3>2. pc[u] # "idle" /\ ClaimAt(u)
        BY <2>1 DEF Fired, Registered, Claims
      <3>3. gpioId[s] = pin[u]
        BY <1>1, <1>2, <2>1, <3>2 DEF ClaimAt, Fired
      <3>4. <<u, pin[t]>> \in WaitsFor
        BY <1>2, <3>2, <3>3 DEF CallsRight, CallAt
      <3> QED
        BY <1>1, <3>1, <3>4 DEF Private
    <2>2. SlotAt(s) /\ ~(i[t] <= s)
      BY <1>1, <1>2, SMT DEF Claims, Slots
    <2>3. taskHandle[s] \in Waiters \cup {None}
      BY DEF TypeOK
    <2> QED
      BY <1>1, <1>2, <2>1, <2>2, <2>3 DEF SlotAt, BeingClaimed
  <1>3. DOMAIN gpioId = Slots
    BY DEF TypeOK
  <1> QED
    BY <1>1, <1>2, <1>3 DEF First

\* The fourth part: what the notifications say.
LEMMA CountsStep == TypeOK /\ CallsRight /\ Claims /\ Counts /\ [ServiceNext]_vars => Counts'
  <1> SUFFICES ASSUME TypeOK, CallsRight, Claims, Counts, [ServiceNext]_vars, "wait" \notin overlapped',
                      NEW v \in Waiters, Private(v)
               PROVE  CountAt(v)'
    BY DEF Counts, Private
  <1> USE ConstantFacts
  <1>0. "wait" \notin overlapped => CountAt(v)
    BY DEF Counts
  <1>1. ASSUME NEW t \in Waiters, NEW p \in Pins, Call(t, p)
        PROVE  CountAt(v)'
    BY <1>0, <1>1 DEF Call, Goto, BeginClaim, TypeOK, CountAt
  <1>2. ASSUME NEW t \in Waiters, Scan(t)
        PROVE  CountAt(v)'
    <2>1. UNCHANGED <<ntf, seen, overlapped>>
      BY <1>2 DEF Scan, histVars
    <2>2. pc'[v] = pc[v] \/ pc'[v] \in {"setId", "idle"}
      BY <1>2 DEF Scan, TypeOK
    <2> QED
      BY <1>0, <2>1, <2>2 DEF CountAt
  <1>3. ASSUME NEW t \in Waiters, SetId(t) \/ ReleaseId(t)
        PROVE  CountAt(v)'
    BY <1>0, <1>3 DEF SetId, ReleaseId, Goto, histVars, TypeOK, CountAt
  <1>4. ASSUME NEW t \in Waiters, SetHandle(t)
        PROVE  CountAt(v)'
    BY <1>0, <1>4 DEF SetHandle, Goto, TypeOK, CountAt
  <1>5. ASSUME NEW t \in Waiters, ReleaseHandle(t)
        PROVE  CountAt(v)'
    BY <1>0, <1>5 DEF ReleaseHandle, Goto, TypeOK, CountAt
  <1>6. ASSUME NEW t \in Waiters, ClearState(t)
        PROVE  CountAt(v)'
    <2>1. /\ pc[t] = "clear" /\ pc' = [pc EXCEPT ![t] = "take"] /\ UNCHANGED <<seen, overlapped>>
          /\ ntf' = [ntf EXCEPT ![IF taskHandle[i[t]] = None THEN t ELSE taskHandle[i[t]]]
                         = StateClear(@)]
      BY <1>6 DEF ClearState, Goto, histVars
    <2>2. taskHandle[i[t]] = t
      BY <2>1 DEF Claims, ClaimAt, Fired, Registered
    <2>3. StateClear(ntf[t]).value = ntf[t].value
      BY ClearFacts DEF TypeOK
    <2>4. ntf' = [ntf EXCEPT ![t] = StateClear(@)]
      BY <2>1, <2>2
    <2> QED
      BY <1>0, <2>1, <2>3, <2>4 DEF TypeOK, CountAt
  <1>7. ASSUME NEW t \in Waiters, Take(t)
        PROVE  CountAt(v)'
    <2>1. /\ pc[t] = "take" /\ UNCHANGED <<seen, overlapped>>
          /\ pc' = [pc EXCEPT ![t] = IF TakeMustBlock(ntf[t]) THEN "blocked" ELSE "woken"]
          /\ ntf' = [ntf EXCEPT ![t] = TakeEnter(@)]
      BY <1>7 DEF Take, Goto, histVars
    <2>2. /\ TakeMustBlock(ntf[t]) => TakeEnter(ntf[t]).state = Waiting
          /\ TakeMustBlock(ntf[t]) <=> ntf[t].value = 0
      BY TakeFacts DEF TypeOK
    <2>3. CASE v = t
      <3>1. pc'[v] = "blocked" => ~seen'[v] /\ ntf'[v].state = Waiting
        BY <1>0, <2>1, <2>2, <2>3 DEF TypeOK, CountAt
      <3>2. pc'[v] \in {"blocked", "woken"}
        BY <2>1, <2>3 DEF TypeOK
      <3> QED
        BY <3>1, <3>2 DEF CountAt
    <2>4. CASE v # t
      BY <1>0, <2>1, <2>4 DEF TypeOK, CountAt
    <2> QED
      BY <2>3, <2>4
  <1>8. ASSUME NEW t \in Waiters, Wake(t) \/ Timeout(t)
        PROVE  CountAt(v)'
    <2>1. /\ UNCHANGED <<seen, overlapped>> /\ (v # t => UNCHANGED <<pc[v], ntf[v]>>)
          /\ pc'[t] \in {"relId", "woken"}
      BY <1>8 DEF Wake, Timeout, Goto, histVars, TypeOK
    <2> QED
      BY <1>0, <2>1 DEF CountAt
  <1>9. ASSUME NEW p \in Pins, InterruptRoutine(p)
        PROVE  CountAt(v)'
    <2>1. /\ UNCHANGED overlapped
          /\ seen' = [t \in Waiters |-> seen[t] \/ (pin[t] = p /\ pc[t] \in Registered)]
          /\ \/ UNCHANGED <<ntf, pc>>
             \/ \E t \in Waiters :
                   /\ ntf' = [ntf EXCEPT ![t] = Give(@)]
                   /\ pc' = IF Wakes(ntf[t]) /\ pc[t] = "blocked"
                            THEN [pc EXCEPT ![t] = "woken"] ELSE pc
      BY <1>9 DEF InterruptRoutine, TypeOK
    <2>2. \A t \in Waiters : /\ Give(ntf[t]).value = 1 /\ Give(ntf[t]).state = Received
                             /\ Wakes(ntf[t]) <=> ntf[t].state = Waiting
      BY GiveFacts, WaitFacts DEF TypeOK
    \* Its own pin has fired: it gets the count, and wakes if it sleeps.
    <2>3. CASE pin[v] = p /\ pc[v] \in Registered
      <3>1. First(i[v], gpioId, p) /\ taskHandle[i[v]] = v /\ i[v] \in Slots
        BY <2>1, <2>3, SlotFound DEF TypeOK
      <3>2. \A s \in Slots : First(s, gpioId, p) => s = i[v]
        <4>1. DOMAIN gpioId = Slots /\ \A r, s \in Slots : r < s \/ s < r \/ r = s
          BY SMT DEF TypeOK, Slots
        <4> QED
          BY <3>1, <4>1 DEF First
      <3>3. /\ ntf' = [ntf EXCEPT ![v] = Give(@)]
            /\ pc' = IF Wakes(ntf[v]) /\ pc[v] = "blocked"
                     THEN [pc EXCEPT ![v] = "woken"] ELSE pc
        BY <1>9, <3>1, <3>2 DEF InterruptRoutine
      <3>4. ntf'[v].value = 1
        BY <2>2, <3>3 DEF TypeOK
      <3>5. pc'[v] # "blocked"
        BY <1>0, <2>1, <2>2, <3>3 DEF TypeOK, CountAt
      <3> QED
        BY <3>4, <3>5 DEF CountAt
    \* Another pin has: at most a task is woken that was not to be.
    <2>4. CASE ~(pin[v] = p /\ pc[v] \in Registered)
      <3>1. seen'[v] = seen[v]
        BY <2>1, <2>4 DEF TypeOK
      <3>2. \/ UNCHANGED <<ntf[v], pc[v]>>
            \/ ntf'[v].value = 1 /\ pc'[v] = pc[v] /\ pc[v] # "blocked"
            \/ pc'[v] = "woken"
        BY <1>0, <2>1, <2>2 DEF TypeOK, CountAt
      <3> QED
        BY <1>0, <2>1, <3>1, <3>2 DEF CountAt
    <2> QED
      BY <2>3, <2>4
  <1>10. CASE Registering
    BY <1>0, <1>10, RegisteringStep DEF waitVars, CountAt
  <1>11. CASE UNCHANGED vars
    BY <1>0, <1>11 DEF vars, waitVars, histVars, CountAt
  <1> QED
    BY <1>1, <1>2, <1>3, <1>4, <1>5, <1>6, <1>7, <1>8, <1>9, <1>10, <1>11, NextSteps DEF Inside

\* The fifth part: the callback table.  Only registrations touch it.
LEMMA WaitingStep ==
  ASSUME \/ \E t \in Waiters : (\E p \in Pins : Call(t, p)) \/ Run(t) \/ Timeout(t)
         \/ \E p \in Pins : InterruptRoutine(p)
         \/ UNCHANGED vars
  PROVE  UNCHANGED cbVars /\ ("callBack" \in overlapped' <=> "callBack" \in overlapped)
  <1>1. ASSUME NEW t \in Waiters, NEW p \in Pins, Call(t, p)
        PROVE  UNCHANGED cbVars /\ ("callBack" \in overlapped' <=> "callBack" \in overlapped)
    BY <1>1 DEF Call, BeginClaim
  <1>2. ASSUME NEW t \in Waiters, Run(t) \/ Timeout(t)
        PROVE  UNCHANGED <<cbVars, overlapped>>
    BY <1>2 DEF Run, Scan, SetId, SetHandle, ClearState, Take, Wake, ReleaseId, ReleaseHandle,
       Timeout, histVars
  <1>3. ASSUME NEW p \in Pins, InterruptRoutine(p)
        PROVE  UNCHANGED <<cbVars, overlapped>>
    BY <1>3 DEF InterruptRoutine
  <1>4. CASE UNCHANGED vars
    BY <1>4 DEF vars, histVars
  <1> QED
    BY <1>1, <1>2, <1>3, <1>4

LEMMA CallBacksStep == TypeOK /\ CallBacks /\ [ServiceNext]_vars => CallBacks'
  <1> SUFFICES ASSUME TypeOK, CallBacks, [ServiceNext]_vars PROVE CallBacks'
    OBVIOUS
  <1> USE ConstantFacts
  <1>1. ASSUME NEW r \in Registrars, NEW p \in Firing, SetCallBackInt(r, p)
        PROVE  CallBacks'
    BY <1>1, SMT DEF SetCallBackInt, BeginClaim, TypeOK, CallBacks, Passed
  <1>2. ASSUME NEW r \in Registrars, CbScan(r)
        PROVE  CallBacks'
    <2> SUFFICES ASSUME "callBack" \notin overlapped
                 PROVE  CallBacks'
      BY <1>2 DEF CbScan, histVars, CallBacks
    <2>1. /\ rpc[r] = "scan" /\ UNCHANGED cbInt
          /\ \A q \in Registrars : q # r => rpc'[q] = rpc[q] /\ j'[q] = j[q]
      BY <1>2 DEF CbScan, TypeOK
    <2>2. \/ cbInt[j[r]] = None /\ rpc'[r] = "setId" /\ j'[r] = j[r]
          \/ cbInt[j[r]] # None /\ rpc'[r] = "scan" /\ j'[r] = j[r] + 1
          \/ rpc'[r] = "idle" /\ j'[r] = 1
      BY <1>2 DEF CbScan, TypeOK
    <2>3. Passed(j[r]) /\ j[r] \in CbSlots
      BY DEF CallBacks, TypeOK
    <2>4. Passed(j'[r])
      BY <2>2, <2>3, SMT DEF Passed, CbSlots
    <2>5. \A c : Passed(c)' <=> Passed(c)
      BY <2>1 DEF Passed
    <2>6. \A q1, q2 \in Registrars : rpc'[q1] # "idle" /\ rpc'[q2] # "idle" => q1 = q2
      BY <2>1 DEF CallBacks
    <2>7. ASSUME NEW q \in Registrars
          PROVE  /\ rpc'[q] = "idle" => j'[q] = 1
                 /\ Passed(j'[q])
                 /\ rpc'[q] \in {"setId", "setCb"} => cbInt'[j'[q]] = None
      BY <2>1, <2>2, <2>4 DEF CallBacks
    <2>8. \A c \in CbSlots : cbInt'[c] # None => Passed(c)'
      BY <2>1, <2>5 DEF CallBacks
    <2> QED
      BY <2>1, <2>5, <2>6, <2>7, <2>8 DEF CallBacks, Passed
  <1>3. ASSUME NEW r \in Registrars, CbSetId(r)
        PROVE  CallBacks'
    BY <1>3, SMT DEF CbSetId, histVars, TypeOK, CallBacks, Passed
  <1>4. ASSUME NEW r \in Registrars, CbSetCb(r)
        PROVE  CallBacks'
    BY <1>4, SMT DEF CbSetCb, histVars, TypeOK, CallBacks, Passed, CbSlots
  <1>5. ASSUME UNCHANGED cbVars, "callBack" \in overlapped' <=> "callBack" \in overlapped
        PROVE  CallBacks'
    BY <1>5 DEF cbVars, CallBacks, Passed
  <1> QED
    BY <1>1, <1>2, <1>3, <1>4, <1>5, WaitingStep DEF ServiceNext, Next, RunRegistrar

LEMMA InvAlways == Spec => []IInv
  <1>1. IInv /\ [ServiceNext]_vars => IInv'
    BY TypeStep, ClearedStep, ClaimsStep, CountsStep, CallBacksStep DEF IInv
  <1>2. [Next]_vars => [ServiceNext]_vars
    BY DEF ServiceNext
  <1> QED
    BY <1>1, <1>2, InvInit, PTL DEF Spec

\* Every variable of the GPIO service keeps its type.
THEOREM TypeCorrect == Spec => []TypeOK
  BY InvAlways, PTL DEF IInv

(***************************************************************************)
(* efHal_gpio_waitForInt: for any number of tasks and slots, no two tasks  *)
(* share a slot as long as no two claims overlap.                          *)
(***************************************************************************)
THEOREM SlotsAreOwned == Spec => []SlotsOwned
  <1>1. IInv => SlotsOwned
    BY DEF IInv, SlotsOwned, Claims, ClaimAt, Fired
  <1> QED
    BY <1>1, InvAlways, PTL

(***************************************************************************)
(* Nor does, then, a task with pins of its own sleep through an interrupt. *)
(***************************************************************************)
THEOREM InterruptNotMissed == Spec => []NotSleptThrough
  <1>1. IInv => NotSleptThrough
    BY DEF IInv, NotSleptThrough, Counts, CountAt
  <1> QED
    BY <1>1, InvAlways, PTL

(***************************************************************************)
(* Whatever claims overlap, every slot is free once all calls have         *)
(* returned.                                                               *)
(***************************************************************************)
THEOREM SlotsComeBack == Spec => []NoSlotLeaks
  <1>1. IInv => NoSlotLeaks
    BY DEF IInv, NoSlotLeaks, Cleared, Fired, Registered
  <1> QED
    BY <1>1, InvAlways, PTL

\* A callback that is called stays the one that is called.
LEMMA CalleeStep ==
  ASSUME IInv, [ServiceNext]_vars, "callBack" \notin overlapped',
         NEW p \in Firing, Callee(p) # None
  PROVE  Callee(p)' = Callee(p)
  <1> USE ConstantFacts DEF IInv
  <1>1. PICK c \in CbSlots : First(c, cbId, p)
    BY DEF Callee
  <1>2. \A d \in CbSlots : First(d, cbId, p) => d = c
    <2>1. DOMAIN cbId = CbSlots /\ \A a, b \in CbSlots : a < b \/ b < a \/ a = b
      BY SMT DEF TypeOK, CbSlots
    <2> QED
      BY <1>1, <2>1 DEF First
  <1>3. Callee(p) = cbInt[c] /\ cbInt[c] # None
    BY <1>1, <1>2 DEF Callee
  <1>4. SUFFICES First(c, cbId', p) /\ cbInt'[c] = cbInt[c] /\ cbId' \in [CbSlots -> Pins \cup {None}]
    <2>1. ASSUME First(c, cbId', p), cbInt'[c] = cbInt[c], cbId' \in [CbSlots -> Pins \cup {None}]
          PROVE  Callee(p)' = Callee(p)
      <3>1. \A d \in CbSlots : First(d, cbId', p) => d = c
        BY <2>1, SMT DEF First, CbSlots
      <3>2. Callee(p)' = cbInt'[c]
        BY <2>1, <3>1 DEF Callee
      <3> QED
        BY <1>3, <2>1, <3>2
    <2> QED
      BY <1>4, <2>1
  <1>5. cbId' \in [CbSlots -> Pins \cup {None}]
    BY TypeStep DEF TypeOK
  <1>6. ASSUME NEW r \in Registrars, CbSetId(r)
        PROVE  First(c, cbId', p) /\ cbInt'[c] = cbInt[c]
    <2>1. /\ cbId' = [cbId EXCEPT ![j[r]] = rpin[r]] /\ UNCHANGED <<cbInt, overlapped>>
          /\ cbInt[j[r]] = None /\ j[r] \in CbSlots
      BY <1>6 DEF CbSetId, histVars, CallBacks, TypeOK
    <2>2. c < j[r]
      <3>1. j[r] # c /\ ~(j[r] < c)
        BY <1>3, <2>1 DEF CallBacks, Passed
      <3> QED
        BY <2>1, <3>1, SMT DEF CbSlots
    <2> QED
      BY <1>1, <2>1, <2>2, SMT DEF First, TypeOK, CbSlots
  <1>7. ASSUME NEW r \in Registrars, CbSetCb(r)
        PROVE  First(c, cbId', p) /\ cbInt'[c] = cbInt[c]
    <2>1. /\ cbInt' = [cbInt EXCEPT ![j[r]] = r] /\ UNCHANGED <<cbId, overlapped>>
          /\ cbInt[j[r]] = None
      BY <1>7 DEF CbSetCb, histVars, CallBacks
    <2> QED
      BY <1>1, <1>3, <2>1 DEF TypeOK
  <1>8. ASSUME UNCHANGED <<cbInt, cbId>>
        PROVE  First(c, cbId', p) /\ cbInt'[c] = cbInt[c]
    BY <1>1, <1>8
  <1>9. ASSUME NEW r \in Registrars, CbScan(r) \/ \E q \in Firing : SetCallBackInt(r, q)
        PROVE  UNCHANGED <<cbInt, cbId>>
    BY <1>9 DEF CbScan, SetCallBackInt
  <1> QED
    BY <1>5, <1>6, <1>7, <1>8, <1>9, WaitingStep DEF ServiceNext, Next, RunRegistrar, cbVars

(***************************************************************************)
(* efHal_gpio_setCallBackInt: however long the table, a registration never *)
(* displaces the callback of a pin, as long as registrations do not        *)
(* overlap.                                                                *)
(***************************************************************************)
THEOREM CallBacksAreKept == Spec => CallBackKept
  <1>1. IInv /\ [ServiceNext]_vars =>
           [\A p \in Firing :
               Callee(p) # None /\ "callBack" \notin overlapped' => Callee(p)' = Callee(p)]_vars
    BY CalleeStep
  <1>2. [Next]_vars => [ServiceNext]_vars
    BY DEF ServiceNext
  <1> QED
    BY <1>1, <1>2, InvAlways, PTL DEF Spec, CallBackKept

-----------------------------------------------------------------------------
(***************************************************************************)
(* The port handlers.  To the service they are interrupts of any pin.      *)
(***************************************************************************)
LEMMA PortsServe == [PortNext]_allVars => [ServiceNext]_vars
  <1> SUFFICES ASSUME [PortNext]_allVars PROVE [ServiceNext]_vars
    OBVIOUS
  <1>1. ASSUME TaskStep PROVE ServiceNext
    BY <1>1 DEF TaskStep, ServiceNext, Next
  <1>2. ASSUME NEW p \in Pins, Notify(p) PROVE ServiceNext
    BY <1>2 DEF Notify, ServiceNext
  <1>3. ASSUME \/ \E p \in Firing : Edge(p)
               \/ \E port \in {PortA, Pins \ PortA} : Enter(port)
               \/ \E p \in Pins : Skip(p)
               \/ ClearFlag \/ Leave
        PROVE  UNCHANGED vars
    BY <1>3 DEF Edge, Enter, Skip, ClearFlag, Leave
  <1>4. CASE UNCHANGED allVars
    BY <1>4 DEF allVars
  <1> QED
    BY <1>1, <1>2, <1>3, <1>4 DEF PortNext

LEMMA ServiceHolds == PortSpec => []IInv
  <1>1. IInv /\ [ServiceNext]_vars => IInv'
    BY TypeStep, ClearedStep, ClaimsStep, CountsStep, CallBacksStep DEF IInv
  <1>2. PortInit => IInv
    BY InvInit DEF PortInit
  <1> QED
    BY <1>1, <1>2, PortsServe, PTL DEF PortSpec

(***************************************************************************)
(* The invariant of the handlers.  While one runs, no task does, and the   *)
(* pin whose flag it will clear has been seen by every task in the call.   *)
(***************************************************************************)
Serving ==
    /\ edge \in [Waiters -> BOOLEAN]
    /\ todo \subseteq handler
    /\ served # None =>
          /\ handler # {}
          /\ \A t \in Waiters : pin[t] = served /\ pc[t] \in Registered => seen[t]

(***************************************************************************)
(* Edges and flags, for a task: what it has seen and the edges of its pin  *)
(* are of this call; a set flag is an edge it had; an edge it had is still *)
(* flagged or has been seen; and, of a pin not on port A, what it has seen *)
(* was an edge.                                                            *)
(***************************************************************************)
EdgeAt(t) ==
    /\ seen[t] \/ edge[t] => pc[t] \in Fired
    /\ pin[t] \in isfr /\ pc[t] \in Registered => edge[t]
    /\ edge[t] /\ pc[t] \in Registered => pin[t] \in isfr \/ seen[t]
    /\ seen[t] /\ pin[t] \notin PortA => edge[t]

PortInv == Serving /\ \A t \in Waiters : EdgeAt(t)

LEMMA PortInvInit == PortInit => PortInv
  BY DEF PortInit, Init, PortInv, Serving, EdgeAt

(***************************************************************************)
(* A step of a task, seen from one task of the service: it stays in the    *)
(* call with what it has seen, or is outside it, having seen nothing.      *)
(***************************************************************************)
LEMMA TaskMoves ==
  ASSUME TypeOK, TaskStep, NEW u \in Waiters, seen[u] => pc[u] \in Fired
  PROVE  \/ /\ pc[u] \in Registered /\ pc'[u] \in Fired
            /\ pin'[u] = pin[u] /\ seen'[u] = seen[u]
         \/ pc[u] \notin Registered /\ ~seen'[u] /\ (pc[u] = "relHandle" => pc'[u] = "idle")
         \/ UNCHANGED <<pc[u], pin[u], seen[u]>>
  <1>1. ASSUME NEW t \in Waiters, NEW p \in Pins, Call(t, p)
        PROVE  \/ pc[u] \notin Registered /\ ~seen'[u] /\ (pc[u] = "relHandle" => pc'[u] = "idle")
               \/ UNCHANGED <<pc[u], pin[u], seen[u]>>
    BY <1>1 DEF Call, Goto, TypeOK, Fired, Registered
  <1>2. ASSUME NEW t \in Waiters, Scan(t) \/ SetId(t) \/ SetHandle(t)
        PROVE  \/ pc[u] \notin Registered /\ ~seen'[u] /\ (pc[u] = "relHandle" => pc'[u] = "idle")
               \/ UNCHANGED <<pc[u], pin[u], seen[u]>>
    BY <1>2 DEF Scan, SetId, SetHandle, Goto, histVars, TypeOK, Fired, Registered
  <1>3. ASSUME NEW t \in Waiters, ClearState(t) \/ Take(t) \/ Wake(t) \/ Timeout(t) \/ ReleaseId(t)
        PROVE  \/ /\ pc[u] \in Registered /\ pc'[u] \in Fired
                  /\ pin'[u] = pin[u] /\ seen'[u] = seen[u]
               \/ UNCHANGED <<pc[u], pin[u], seen[u]>>
    <2>1. /\ pc[t] \in Registered /\ UNCHANGED <<pin, seen>>
          /\ \E l \in Fired : pc' = [pc EXCEPT ![t] = l]
      BY <1>3, Zenon DEF ClearState, Take, Wake, Timeout, ReleaseId, Goto, histVars, Fired, Registered
    <2> QED
      BY <2>1 DEF TypeOK
  <1>4. ASSUME NEW t \in Waiters, ReleaseHandle(t)
        PROVE  \/ pc[u] \notin Registered /\ ~seen'[u] /\ (pc[u] = "relHandle" => pc'[u] = "idle")
               \/ UNCHANGED <<pc[u], pin[u], seen[u]>>
    BY <1>4 DEF ReleaseHandle, Goto, TypeOK, Fired, Registered
  <1>5. ASSUME Registering
        PROVE  UNCHANGED <<pc[u], pin[u], seen[u]>>
    BY <1>5, RegisteringStep DEF waitVars
  <1> QED
    BY <1>1, <1>2, <1>3, <1>4, <1>5 DEF TaskStep, Run, Registering

LEMMA PortInvStep == TypeOK /\ PortInv /\ [PortNext]_allVars => PortInv'
  <1> SUFFICES ASSUME TypeOK, PortInv, [PortNext]_allVars PROVE PortInv'
    OBVIOUS
  <1> USE ConstantFacts DEF PortInv
  <1>1. ASSUME TaskStep
        PROVE  PortInv'
    <2>1. /\ handler = {} /\ isfr = {} /\ UNCHANGED <<isfr, handler, todo, served>>
          /\ edge' = [t \in Waiters |-> edge[t] /\ pc'[t] # "idle"]
      BY <1>1 DEF TaskStep, portVars
    <2>2. Serving'
      BY <2>1 DEF Serving
    <2>3. ASSUME NEW u \in Waiters
          PROVE  EdgeAt(u)'
      <3>1. edge'[u] <=> edge[u] /\ pc'[u] # "idle"
        BY <2>1
      <3>2. \/ /\ pc[u] \in Registered /\ pc'[u] \in Fired
               /\ pin'[u] = pin[u] /\ seen'[u] = seen[u]
            \/ pc[u] \notin Registered /\ ~seen'[u] /\ (pc[u] = "relHandle" => pc'[u] = "idle")
            \/ UNCHANGED <<pc[u], pin[u], seen[u]>>
        BY <1>1, TaskMoves DEF EdgeAt
      <3> QED
        BY <2>1, <3>1, <3>2 DEF EdgeAt, Fired, Registered
    <2> QED
      BY <2>2, <2>3
  <1>2. ASSUME NEW p \in Firing, Edge(p)
        PROVE  PortInv'
    BY <1>2 DEF Edge, vars, waitVars, histVars, Serving, EdgeAt, Fired
  <1>3. ASSUME NEW port \in {PortA, Pins \ PortA}, Enter(port)
        PROVE  PortInv'
    BY <1>3 DEF Enter, vars, waitVars, histVars, Serving, EdgeAt
  <1>4. ASSUME NEW p \in Pins, Skip(p)
        PROVE  PortInv'
    BY <1>4 DEF Skip, vars, waitVars, histVars, Serving, EdgeAt
  <1>5. ASSUME NEW p \in Pins, Notify(p)
        PROVE  PortInv'
    <2>1. /\ InterruptRoutine(p) /\ p \in todo /\ (p \in isfr \/ p \in PortA)
          /\ todo' = todo \ {p} /\ served' = p /\ UNCHANGED <<isfr, handler, edge>>
      BY <1>5 DEF Notify, Flagged
    <2>2. /\ UNCHANGED pin
          /\ \A t \in Waiters : \/ pc'[t] = pc[t]
                                \/ pc[t] \in Registered /\ pc'[t] \in Registered
      BY <2>1, InsideStep DEF Inside
    <2>3. \A t \in Waiters : seen'[t] <=> seen[t] \/ (pin[t] = p /\ pc[t] \in Registered)
      BY <2>1 DEF InterruptRoutine, TypeOK
    <2>4. Serving'
      BY <2>1, <2>2, <2>3 DEF Serving
    <2>5. ASSUME NEW t \in Waiters
          PROVE  EdgeAt(t)'
      BY <2>1, <2>2, <2>3 DEF EdgeAt, Fired
    <2> QED
      BY <2>4, <2>5
  <1>6. ASSUME ClearFlag
        PROVE  PortInv'
    BY <1>6 DEF ClearFlag, vars, waitVars, histVars, Serving, EdgeAt
  <1>7. ASSUME Leave
        PROVE  PortInv'
    BY <1>7 DEF Leave, vars, waitVars, histVars, Serving, EdgeAt
  <1>8. CASE UNCHANGED allVars
    BY <1>8 DEF allVars, portVars, vars, waitVars, histVars, Serving, EdgeAt
  <1> QED
    BY <1>1, <1>2, <1>3, <1>4, <1>5, <1>6, <1>7, <1>8 DEF PortNext

LEMMA PortInvHolds == PortSpec => [](IInv /\ PortInv)
  <1>1. IInv /\ PortInv /\ [PortNext]_allVars => PortInv'
    BY PortInvStep DEF IInv
  <1> QED
    BY <1>1, PortInvInit, ServiceHolds, PTL DEF PortSpec

(***************************************************************************)
(* PORTA_IRQHandler and PORTC_PORTD_IRQHandler: an edge of the pin that a  *)
(* sleeping task has to itself, at whatever point of a handler it comes,   *)
(* still has its flag.                                                     *)
(***************************************************************************)
THEOREM EdgesAreKept == PortSpec => []EdgeNotLost
  <1>1. IInv /\ PortInv => EdgeNotLost
    BY DEF IInv, PortInv, EdgeAt, EdgeNotLost, Counts, CountAt, Registered
  <1> QED
    BY <1>1, PortInvHolds, PTL

(***************************************************************************)
(* On ports C and D, a task sees an interrupt only after an edge of the    *)
(* pin it waits for.                                                       *)
(***************************************************************************)
THEOREM SeenIsEdge == PortSpec => []SeenMeansEdge
  <1>1. PortInv => SeenMeansEdge
    BY DEF PortInv, EdgeAt, SeenMeansEdge
  <1> QED
    BY <1>1, PortInvHolds, PTL

\* Nor does the dispatch of the ports displace a callback.
THEOREM CallBacksAreKeptByPorts == PortSpec => CallBackKept
  <1>1. IInv /\ [ServiceNext]_vars =>
           [\A p \in Firing :
               Callee(p) # None /\ "callBack" \notin overlapped' => Callee(p)' = Callee(p)]_vars
    BY CalleeStep
  <1> QED
    BY <1>1, ServiceHolds, PortsServe, PTL DEF PortSpec, CallBackKept
=============================================================================
