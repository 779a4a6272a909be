--------------------------- MODULE EfHalUart_proofs ---------------------------
(***************************************************************************)
(* TLAPS proofs about EfHalUart, for any number of senders, queue lengths  *)
(* and sizes, and with a task that reconfigures the device at any time.    *)
(***************************************************************************)
EXTENDS EfHalUart, SequenceTheorems, TLAPS

LEMMA NoneIsNoByte == None \notin Bytes
  BY UartAssumption, SMT DEF UartAssumption, Bytes

\* Counting modulo Tags stays in range.
LEMMA NextTag == \A n \in 0 .. Tags - 1 : (n + 1) % Tags \in 0 .. Tags - 1
  BY UartAssumption, SMT DEF UartAssumption

\* What is left of a queue that loses its first two elements.
LEMMA AtLeastTwo ==
  ASSUME NEW S, NEW q \in Seq(S), q # <<>>, Len(q) # 1
  PROVE  /\ Head(q) \in S /\ q[2] \in S
         /\ Tail(Tail(q)) \in Seq(S)
         /\ Len(Tail(Tail(q))) = Len(q) - 2
  <1>1. /\ Head(q) \in S
        /\ Tail(q) \in Seq(S) /\ Len(Tail(q)) = Len(q) - 1
    BY HeadTailProperties
  <1>2. Len(q) \in Nat /\ Len(Tail(q)) \in Nat
    BY <1>1, LenProperties
  <1>3. Len(q) >= 2
    BY <1>1, <1>2, SMT
  <1>4. q[2] \in S
    BY <1>2, <1>3, ElementOfSeq, SMT
  <1>5. Tail(q) # <<>>
    <2>1. Len(<<>>) = 0
      BY EmptySeq
    <2>2. Len(Tail(q)) # 0
      BY <1>1, <1>2, <1>3, SMT
    <2> QED
      BY <2>1, <2>2
  <1>6. Tail(Tail(q)) \in Seq(S) /\ Len(Tail(Tail(q))) = Len(Tail(q)) - 1
    BY <1>1, <1>5, HeadTailProperties
  <1> QED
    BY <1>1, <1>2, <1>4, <1>6, SMT

(***************************************************************************)
(* The type invariant is inductive once it says that a sender about to     *)
(* queue a byte has one to queue.                                          *)
(***************************************************************************)
PutHasByte == \A s \in Senders : pc[s] = "put" => left[s] > 0

SendInv == SendersOK /\ PutHasByte

TypeInv == SendInv /\ TransmitterOK /\ ReceiverOK /\ ReadersOK /\ ConfOK

LEMMA TypeInit == Init => TypeInv
  <1> SUFFICES ASSUME Init PROVE TypeInv
    OBVIOUS
  <1> USE UartAssumption DEF Init, UartAssumption, Bits
  <1>1. SendInv
    BY SMT DEF SendInv, SendersOK, PutHasByte
  <1>2. TransmitterOK
    BY SMT DEF TransmitterOK
  <1>3. ReceiverOK
    BY SMT DEF ReceiverOK
  <1>4. ReadersOK
    BY SMT DEF ReadersOK
  <1>5. ConfOK
    BY DEF ConfOK
  <1> QED
    BY <1>1, <1>2, <1>3, <1>4, <1>5 DEF TypeInv

\* A step that leaves the variables of a part alone keeps the part.
LEMMA Unmoved ==
    /\ SendInv /\ UNCHANGED sendVars => SendInv'
    /\ TransmitterOK /\ UNCHANGED <<qSend, txHasEnded, c2, lineVars>> => TransmitterOK'
    /\ ReceiverOK /\ UNCHANGED <<qRecv, rdr, arrivals>> => ReceiverOK'
    /\ ReadersOK /\ UNCHANGED recvVars => ReadersOK'
    /\ ConfOK /\ UNCHANGED <<confVars, clobbered>> => ConfOK'
  BY DEF SendInv, SendersOK, PutHasByte, TransmitterOK, ReceiverOK, ReadersOK, ConfOK,
     sendVars, lineVars, recvVars, confVars

LEMMA TypeStep == TypeInv /\ [Next]_vars => TypeInv'
  <1> SUFFICES ASSUME TypeInv, [Next]_vars PROVE TypeInv'
    OBVIOUS
  <1> USE Unmoved DEF TypeInv
  <1>1. ASSUME NEW s \in Senders, NEW n \in Sizes, NEW forever \in Waits, Send(s, n, forever)
        PROVE  TypeInv'
    <2>1. SendInv'
      BY <1>1, UartAssumption, SMT
      DEF UartAssumption, SendInv, SendersOK, PutHasByte, Send, Goto, Handing
    <2> QED
      BY <1>1, <2>1 DEF Send
  <1>2. ASSUME NEW s \in Senders, Put(s)
        PROVE  TypeInv'
    <2>1. SendInv'
      <3>1. accepted' \in [Senders -> 0 .. Tags - 1]
        BY <1>2, NextTag DEF SendInv, SendersOK, Put
      <3>2. /\ pc' \in [Senders -> {"idle", "put"} \cup Handing]
            /\ left' \in [Senders -> Nat]
            /\ PutHasByte'
        BY <1>2, SMT DEF SendInv, SendersOK, PutHasByte, Put, Goto, Handing
      <3> QED
        BY <1>2, <3>1, <3>2 DEF SendInv, SendersOK, Put
    <2>2. <<s, accepted[s]>> \in Bytes
      BY <1>2, SMT DEF SendInv, SendersOK, Bytes
    <2>3. TransmitterOK'
      BY <1>2, <2>2, UartAssumption, SMT DEF UartAssumption, TransmitterOK, Put, lineVars
    <2> QED
      BY <1>2, <2>1, <2>3 DEF Put
  <1>3. ASSUME NEW s \in Senders, PutTimeout(s)
        PROVE  TypeInv'
    <2>1. SendInv'
      BY <1>3, SMT DEF SendInv, SendersOK, PutHasByte, PutTimeout, Goto, Handing
    <2> QED
      BY <1>3, <2>1 DEF PutTimeout
  <1>4. ASSUME NEW s \in Senders, CheckEnded(s)
        PROVE  TypeInv'
    <2>1. SendInv'
      BY <1>4, SMT DEF SendInv, SendersOK, PutHasByte, CheckEnded, NextByte, Goto, Handing
    <2> QED
      BY <1>4, <2>1 DEF CheckEnded
  <1>5. ASSUME NEW s \in Senders, ClaimTx(s)
        PROVE  TypeInv'
    <2>1. SendInv'
      BY <1>5, SMT DEF SendInv, SendersOK, PutHasByte, ClaimTx, Goto, Handing
    <2>2. TransmitterOK'
      BY <1>5 DEF TransmitterOK, ClaimTx, lineVars
    <2> QED
      BY <1>5, <2>1, <2>2 DEF ClaimTx
  <1>6. ASSUME NEW s \in Senders, ReadC2(s)
        PROVE  TypeInv'
    <2>1. SendInv'
      BY <1>6, SMT DEF SendInv, SendersOK, PutHasByte, TransmitterOK, ReadC2, Goto, Handing
    <2> QED
      BY <1>6, <2>1 DEF ReadC2
  <1>7. ASSUME NEW s \in Senders, WriteC2(s)
        PROVE  TypeInv'
    <2>1. SendInv'
      BY <1>7, SMT DEF SendInv, SendersOK, PutHasByte, WriteC2, NextByte, Goto, Handing, Bits
    <2>2. TransmitterOK'
      BY <1>7, SMT DEF SendInv, SendersOK, TransmitterOK, WriteC2, lineVars, Bits
    <2>3. ConfOK'
      BY <1>7, SMT DEF ConfOK, WriteC2, confVars
    <2> QED
      BY <1>7, <2>1, <2>2, <2>3 DEF WriteC2
  <1>8. ASSUME Irq
        PROVE  TypeInv'
    <2>1. ReceiverOK'
      <3>1. CASE RxPending
        <4>1. rdr \in 1 .. MaxArrivals /\ rdr' = None
          BY <1>8, <3>1 DEF ReceiverOK, Irq, RxPart, RxPending
        <4>2. qRecv' \in Seq(1 .. MaxArrivals) /\ Len(qRecv') <= RecvLength
          BY <1>8, <3>1, <4>1, AppendProperties, UartAssumption, SMT
          DEF UartAssumption, ReceiverOK, Irq, RxPart
        <4> QED
          BY <1>8, <4>1, <4>2 DEF ReceiverOK, Irq
      <3>2. CASE ~RxPending
        BY <1>8, <3>2 DEF ReceiverOK, Irq, RxPart
      <3> QED
        BY <3>1, <3>2
    <2>2. /\ qSend' \in Seq(Bytes) /\ Len(qSend') <= SendLength
          /\ dreg' \in Bytes \cup {None} /\ shift' \in Bytes \cup {None}
      <3>1. CASE UNCHANGED <<qSend, dreg, shift>>
        BY <3>1 DEF TransmitterOK
      <3>2. CASE qSend # <<>> /\ dreg' = Head(qSend) /\ qSend' = Tail(qSend) /\ UNCHANGED shift
        BY <3>2, HeadTailProperties, UartAssumption, SMT DEF UartAssumption, TransmitterOK
      <3>3. CASE /\ qSend # <<>> /\ shift' = Head(qSend)
                 /\ Len(qSend) = 1 /\ qSend' = <<>> /\ UNCHANGED dreg
        BY <3>3, HeadTailProperties, UartAssumption, SMT DEF UartAssumption, TransmitterOK
      <3>4. CASE /\ qSend # <<>> /\ shift' = Head(qSend)
                 /\ Len(qSend) # 1 /\ dreg' = qSend[2] /\ qSend' = Tail(Tail(qSend))
        BY <3>4, AtLeastTwo, UartAssumption, SMT DEF UartAssumption, TransmitterOK
      <3> QED
        BY <1>8, <3>1, <3>2, <3>3, <3>4 DEF Irq, TxPart
    <2>4. txHasEnded' \in BOOLEAN
      BY <1>8 DEF TransmitterOK, Irq, TxPart, TxEnded
    <2>5. c2' \in SUBSET Bits
      BY <1>8 DEF TransmitterOK, Irq
    <2>6. TransmitterOK'
      BY <1>8, <2>2, <2>4, <2>5 DEF TransmitterOK, Irq
    <2> QED
      BY <1>8, <2>1, <2>6 DEF Irq
  <1>9. ASSUME LoadShift
        PROVE  TypeInv'
    <2>1. TransmitterOK'
      BY <1>9, SMT DEF TransmitterOK, LoadShift
    <2> QED
      BY <1>9, <2>1 DEF LoadShift
  <1>10. ASSUME ByteOut
         PROVE  TypeInv'
    <2>1. shift[1] \in Senders
      BY <1>10, SMT DEF TransmitterOK, ByteOut, Bytes
    <2>2. TransmitterOK'
      BY <1>10, <2>1, NextTag, SMT DEF TransmitterOK, ByteOut
    <2> QED
      BY <1>10, <2>2 DEF ByteOut
  <1>11. ASSUME Arrive
         PROVE  TypeInv'
    <2>1. ReceiverOK'
      BY <1>11, UartAssumption, SMT DEF UartAssumption, ReceiverOK, Arrive
    <2> QED
      BY <1>11, <2>1 DEF Arrive
  <1>12. ASSUME NEW r \in Readers, NEW n \in Sizes, NEW forever \in Waits, Recv(r, n, forever)
         PROVE  TypeInv'
    <2>1. ReadersOK'
      BY <1>12, UartAssumption, SMT DEF UartAssumption, ReadersOK, Recv
    <2> QED
      BY <1>12, <2>1 DEF Recv
  <1>13. ASSUME NEW r \in Readers, Receive(r)
         PROVE  TypeInv'
    <2>1. Head(qRecv) \in 1 .. MaxArrivals
      BY <1>13, HeadTailProperties DEF ReceiverOK, Receive
    <2>2. ReceiverOK'
      BY <1>13, HeadTailProperties, UartAssumption, SMT DEF UartAssumption, ReceiverOK, Receive
    <2>3. ReadersOK'
      BY <1>13, <2>1, UartAssumption, SMT DEF UartAssumption, ReadersOK, Receive
    <2> QED
      BY <1>13, <2>2, <2>3 DEF Receive
  <1>14. ASSUME NEW r \in Readers, RecvEmpty(r)
         PROVE  TypeInv'
    <2>1. ReadersOK'
      BY <1>14, SMT DEF ReadersOK, RecvEmpty
    <2> QED
      BY <1>14, <2>1 DEF RecvEmpty
  <1>15. ASSUME Conf \/ ConfRead
         PROVE  TypeInv'
    <2>1. ConfOK'
      BY <1>15, SMT DEF ConfOK, TransmitterOK, Conf, ConfRead
    <2> QED
      BY <1>15, <2>1 DEF Conf, ConfRead
  <1>16. ASSUME ConfOff \/ ConfOn
         PROVE  TypeInv'
    <2>1. ConfOK'
      BY <1>16 DEF ConfOK, ConfOff, ConfOn, ConfStore
    <2>2. TransmitterOK'
      <3>1. c2' \in SUBSET Bits
        BY <1>16 DEF ConfOK, ConfOff, ConfOn, ConfStore, Bits
      <3> QED
        BY <1>16, <3>1 DEF TransmitterOK, ConfOff, ConfOn, ConfStore, lineVars
    <2> QED
      BY <1>16, <2>1, <2>2 DEF ConfOff, ConfOn, ConfStore
  <1>17. ASSUME UNCHANGED vars
         PROVE  TypeInv'
    BY <1>17 DEF vars
  <1> QED
    BY <1>1, <1>2, <1>3, <1>4, <1>5, <1>6, <1>7, <1>8, <1>9, <1>10, <1>11, <1>12, <1>13,
       <1>14, <1>15, <1>16, <1>17
    DEF Next, RunSender, RunReader, RunConf, Line

\* Every variable keeps its type, and the queues their lengths.
THEOREM TypeCorrect == SafeSpec => []TypeOK
  <1>1. TypeInv => TypeOK
    BY DEF TypeInv, SendInv, TypeOK
  <1> QED
    BY TypeInit, TypeStep, <1>1, PTL DEF SafeSpec

-----------------------------------------------------------------------------
(***************************************************************************)
(* Why the transmitter never stalls.  The transmit interrupt is off either *)
(* with txHasEnded set, and then the queue is empty or a sender that       *)
(* queued a byte has still to look at the flag; or with it cleared, and    *)
(* then the sender that cleared it has still to turn the interrupt on.     *)
(***************************************************************************)
EndAnnounced ==
    qSend # <<>> /\ "TIE" \notin c2 /\ txHasEnded =>
        clobbered \/ \E s \in Senders : pc[s] \in {"check", "claim"}

EndClaimed ==
    "TIE" \notin c2 /\ ~txHasEnded =>
        clobbered \/ \E s \in Senders : pc[s] \in {"readC2", "writeC2"}

StallInv == TypeOK /\ EndAnnounced /\ EndClaimed

LEMMA StallInit == Init => EndAnnounced /\ EndClaimed
  BY DEF Init, EndAnnounced, EndClaimed, Bits

LEMMA StallStep == StallInv /\ [Next]_vars => (EndAnnounced /\ EndClaimed)'
  <1> SUFFICES ASSUME StallInv, [Next]_vars PROVE (EndAnnounced /\ EndClaimed)'
    OBVIOUS
  <1> USE DEF StallInv, EndAnnounced, EndClaimed
  <1>1. ASSUME NEW s \in Senders, NEW n \in Sizes, NEW forever \in Waits, Send(s, n, forever)
        PROVE  (EndAnnounced /\ EndClaimed)'
    BY <1>1, SMT DEF TypeOK, SendersOK, TransmitterOK, Send, Goto, Handing
  <1>2. ASSUME NEW s \in Senders, Put(s)
        PROVE  (EndAnnounced /\ EndClaimed)'
    BY <1>2, SMT DEF TypeOK, SendersOK, TransmitterOK, Put, Goto, Handing
  <1>3. ASSUME NEW s \in Senders, PutTimeout(s) \/ CheckEnded(s)
        PROVE  (EndAnnounced /\ EndClaimed)'
    BY <1>3, SMT DEF TypeOK, SendersOK, TransmitterOK, PutTimeout, CheckEnded, NextByte, Goto, Handing
  <1>4. ASSUME NEW s \in Senders, ClaimTx(s)
        PROVE  (EndAnnounced /\ EndClaimed)'
    BY <1>4, SMT DEF TypeOK, SendersOK, TransmitterOK, ClaimTx, Goto, Handing
  <1>5. ASSUME NEW s \in Senders, ReadC2(s) \/ WriteC2(s)
        PROVE  (EndAnnounced /\ EndClaimed)'
    BY <1>5, SMT DEF TypeOK, SendersOK, TransmitterOK, ReadC2, WriteC2, NextByte, Goto, Handing
  <1>6. ASSUME Irq
        PROVE  (EndAnnounced /\ EndClaimed)'
    <2>0. UNCHANGED <<pc, clobbered>>
      BY <1>6 DEF Irq, sendVars
    <2>1. CASE ~TxPending
      <3>1. UNCHANGED <<qSend, txHasEnded>> /\ ("TIE" \in c2 => "TIE" \in c2')
        BY <1>6, <2>1 DEF Irq, TxPart
      <3> QED
        BY <2>0, <3>1
    <2>2. CASE TxPending
      <3>1. CASE dreg' = None
        \* The loop ended on an empty queue, which announced the end.
        <4>1. qSend # <<>> => Head(qSend) \in Bytes /\ (Len(qSend) # 1 => qSend[2] \in Bytes)
          BY AtLeastTwo, HeadTailProperties DEF TypeOK, TransmitterOK
        <4>2. qSend' = <<>> /\ txHasEnded'
          BY <1>6, <2>2, <3>1, <4>1, NoneIsNoByte DEF Irq, TxPart, TxEnded, TxPending
        <4> QED
          BY <4>2
      <3>2. CASE dreg' # None
        <4>1. "TIE" \in c2'
          BY <1>6, <2>2, <3>2 DEF Irq, TxPending
        <4> QED
          BY <4>1
      <3> QED
        BY <3>1, <3>2
    <2> QED
      BY <2>1, <2>2
  <1>7. ASSUME Line \/ Arrive
        PROVE  (EndAnnounced /\ EndClaimed)'
    BY <1>7 DEF Line, LoadShift, ByteOut, Arrive, sendVars
  <1>8. ASSUME \E r \in Readers : (\E n \in Sizes, forever \in Waits : Recv(r, n, forever)) \/ RunReader(r)
        PROVE  (EndAnnounced /\ EndClaimed)'
    BY <1>8 DEF Recv, RunReader, Receive, RecvEmpty, sendVars
  <1>9. ASSUME Conf \/ RunConf
        PROVE  (EndAnnounced /\ EndClaimed)'
    \* A store that turns the interrupt off again is what clobbered records.
    <2>1. UNCHANGED <<pc, qSend, txHasEnded>>
      BY <1>9 DEF Conf, RunConf, ConfOff, ConfRead, ConfOn, ConfStore, sendVars
    <2>2. clobbered' \/ ("TIE" \in c2 => "TIE" \in c2')
      BY <1>9 DEF Conf, RunConf, ConfOff, ConfRead, ConfOn, ConfStore
    <2>3. clobbered => clobbered'
      BY <1>9 DEF Conf, RunConf, ConfOff, ConfRead, ConfOn, ConfStore
    <2> QED
      BY <2>1, <2>2, <2>3
  <1>10. ASSUME UNCHANGED vars
         PROVE  (EndAnnounced /\ EndClaimed)'
    BY <1>10 DEF vars, sendVars
  <1> QED
    BY <1>1, <1>2, <1>3, <1>4, <1>5, <1>6, <1>7, <1>8, <1>9, <1>10 DEF Next, RunSender

(***************************************************************************)
(* A queued byte is never left with the transmit interrupt off and nobody  *)
(* about to turn it on, unless a reconfiguration's store overlapped it.    *)
(***************************************************************************)
THEOREM NeverStalls == SafeSpec => []NoStall
  <1>1. StallInv => NoStall
    BY SMT DEF StallInv, EndAnnounced, EndClaimed, NoStall, Handing
  <1>2. Init /\ TypeOK => StallInv
    BY StallInit DEF StallInv
  <1>3. StallInv /\ [Next]_vars /\ TypeOK' => StallInv'
    BY StallStep DEF StallInv
  <1> QED
    BY TypeCorrect, <1>1, <1>2, <1>3, PTL DEF SafeSpec
-----------------------------------------------------------------------------
(***************************************************************************)
(* Why bytes are read in order: bytes are numbered as they arrive, so what *)
(* was read, what is queued, and what the register holds are rising.       *)
(***************************************************************************)
Rising(q, low, high) ==
    /\ \A k \in 1 .. Len(q) : low < q[k] /\ q[k] <= high
    /\ \A k, l \in 1 .. Len(q) : k < l => q[k] < q[l]

QueueInOrder == lastRead <= arrivals /\ Rising(qRecv, lastRead, arrivals)

RegisterIsNext ==
    rdr # None =>
        /\ lastRead < rdr /\ rdr <= arrivals
        /\ \A k \in 1 .. Len(qRecv) : qRecv[k] < rdr

OrderInv == TypeOK /\ QueueInOrder /\ RegisterIsNext

LEMMA ArrivalFacts ==
    /\ 1 .. MaxArrivals \subseteq Nat /\ 0 .. MaxArrivals \subseteq Nat
    /\ None \notin Nat
  BY UartAssumption, SMT DEF UartAssumption

\* A sequence over a set is one over any larger set.
LEMMA SeqOfMore ==
  ASSUME NEW A, NEW B, A \subseteq B, NEW q \in Seq(A)
  PROVE  q \in Seq(B)
  <1>1. Len(q) \in Nat /\ q \in [1 .. Len(q) -> A]
    BY LenProperties
  <1>2. q \in [1 .. Len(q) -> B]
    BY <1>1
  <1> QED
    BY <1>1, <1>2, SMT

\* What joins the rear of a rising queue, and is higher, keeps it rising.
LEMMA RisingAppend ==
  ASSUME NEW q \in Seq(Nat), NEW low \in Nat, NEW high \in Nat, NEW x \in Nat,
         Rising(q, low, high), low < x, x <= high, \A k \in 1 .. Len(q) : q[k] < x
  PROVE  Rising(Append(q, x), low, high)
  <1>1. /\ Len(q) \in Nat /\ Len(Append(q, x)) = Len(q) + 1
        /\ \A k \in 1 .. Len(q) : Append(q, x)[k] = q[k]
        /\ Append(q, x)[Len(q) + 1] = x
    BY AppendProperties, LenProperties
  <1>2. \A k \in 1 .. Len(q) : q[k] \in Nat
    BY ElementOfSeq
  <1> DEFINE r == Append(q, x)
             n == Len(q)
  <1>3. n \in Nat /\ Len(r) = n + 1 /\ (\A k \in 1 .. n : r[k] = q[k]) /\ r[n + 1] = x
    BY <1>1
  <1>4. \A k \in 1 .. n + 1 : k \in 1 .. n \/ k = n + 1
    BY <1>3, SMT
  <1> HIDE DEF r, n
  <1>5. \A k \in 1 .. n + 1 : low < r[k] /\ r[k] <= high
    BY <1>3, <1>4, SMT DEF Rising, n
  <1>6. \A k, l \in 1 .. n + 1 : k < l => r[k] < r[l]
    <2> SUFFICES ASSUME NEW k \in 1 .. n + 1, NEW l \in 1 .. n + 1, k < l PROVE r[k] < r[l]
      OBVIOUS
    <2>1. k \in 1 .. n
      BY <1>3, SMT
    <2>2. CASE l \in 1 .. n
      BY <1>3, <2>1, <2>2 DEF Rising, n
    <2>3. CASE l = n + 1
      BY <1>3, <2>1, <2>3 DEF n
    <2> QED
      BY <1>4, <2>2, <2>3
  <1> QED
    BY <1>3, <1>5, <1>6 DEF Rising, r

\* Taking the head raises the lower bound, to the head.
LEMMA RisingTail ==
  ASSUME NEW q \in Seq(Nat), NEW low \in Nat, NEW high \in Nat,
         Rising(q, low, high), q # <<>>
  PROVE  /\ Head(q) \in Nat /\ low < Head(q) /\ Head(q) <= high
         /\ Rising(Tail(q), Head(q), high)
         /\ \A x : (\A k \in 1 .. Len(q) : q[k] < x) =>
               Head(q) < x /\ \A k \in 1 .. Len(Tail(q)) : Tail(q)[k] < x
  <1>1. /\ Head(q) \in Nat /\ Len(Tail(q)) = Len(q) - 1
        /\ \A k \in 1 .. Len(Tail(q)) : Tail(q)[k] = q[k + 1]
    BY HeadTailProperties
  <1>2. Len(q) \in Nat \ {0} /\ Head(q) = q[1]
    BY EmptySeq, SMT
  <1> DEFINE r == Tail(q)
             n == Len(q)
  <1>3. /\ n \in Nat \ {0} /\ Len(r) = n - 1
        /\ \A k \in 1 .. n - 1 : r[k] = q[k + 1] /\ k + 1 \in 1 .. n /\ 1 < k + 1
        /\ 1 \in 1 .. n
    BY <1>1, <1>2, SMT
  <1>4. /\ \A k \in 1 .. n : low < q[k] /\ q[k] <= high
        /\ \A k, l \in 1 .. n : k < l => q[k] < q[l]
    BY DEF Rising
  <1> HIDE DEF r, n
  <1>5. low < q[1] /\ q[1] <= high
    BY <1>3, <1>4
  <1>6. \A k \in 1 .. n - 1 : q[1] < r[k] /\ r[k] <= high
    BY <1>3, <1>4
  <1>7. \A k, l \in 1 .. n - 1 : k < l => r[k] < r[l]
    <2> SUFFICES ASSUME NEW k \in 1 .. n - 1, NEW l \in 1 .. n - 1, k < l PROVE r[k] < r[l]
      OBVIOUS
    <2>1. k + 1 < l + 1
      BY <1>3, SMT
    <2> QED
      BY <1>3, <1>4, <2>1
  <1>8. Rising(Tail(q), Head(q), high)
    BY <1>2, <1>3, <1>6, <1>7 DEF Rising, r
  <1>9. \A x : (\A k \in 1 .. n : q[k] < x) => q[1] < x /\ \A k \in 1 .. n - 1 : r[k] < x
    BY <1>3
  <1> QED
    BY <1>1, <1>2, <1>3, <1>5, <1>8, <1>9 DEF r, n

LEMMA OrderInit == Init => QueueInOrder /\ RegisterIsNext
  BY SMT DEF Init, QueueInOrder, RegisterIsNext, Rising

LEMMA OrderStep == OrderInv /\ [Next]_vars => (QueueInOrder /\ RegisterIsNext)'
  <1> SUFFICES ASSUME OrderInv, [Next]_vars PROVE (QueueInOrder /\ RegisterIsNext)'
    OBVIOUS
  <1> USE ArrivalFacts DEF OrderInv
  <1>0. /\ qRecv \in Seq(Nat) /\ lastRead \in Nat /\ arrivals \in Nat
        /\ rdr # None => rdr \in Nat
        /\ \A k \in 1 .. Len(qRecv) : qRecv[k] \in Nat
    <2>1. qRecv \in Seq(1 .. MaxArrivals)
      BY DEF TypeOK, ReceiverOK
    <2>2. qRecv \in Seq(Nat)
      BY <2>1, SeqOfMore
    <2> QED
      BY <2>2, ElementOfSeq DEF TypeOK, ReceiverOK, ReadersOK
  <1>1. ASSUME UNCHANGED <<qRecv, rdr, arrivals, lastRead>>
        PROVE  (QueueInOrder /\ RegisterIsNext)'
    BY <1>1 DEF QueueInOrder, RegisterIsNext
  <1>2. ASSUME Irq
        PROVE  (QueueInOrder /\ RegisterIsNext)'
    <2>1. UNCHANGED <<arrivals, lastRead>>
      BY <1>2 DEF Irq, recvVars
    <2>2. CASE rdr' = None /\ qRecv' = qRecv
      BY <2>1, <2>2 DEF QueueInOrder, RegisterIsNext
    <2>3. CASE rdr # None /\ rdr' = None /\ qRecv' = Append(qRecv, rdr)
      <3>1. Rising(qRecv', lastRead, arrivals)
        BY <1>0, <2>3, RisingAppend DEF QueueInOrder, RegisterIsNext
      <3> QED
        BY <2>1, <2>3, <3>1 DEF QueueInOrder, RegisterIsNext
    <2> QED
      BY <1>1, <1>2, <2>1, <2>2, <2>3 DEF Irq, RxPart, RxPending
  <1>3. ASSUME Arrive
        PROVE  (QueueInOrder /\ RegisterIsNext)'
    <2>1. UNCHANGED <<qRecv, lastRead>> /\ arrivals' = arrivals + 1 /\ rdr' \in {rdr, arrivals + 1}
      BY <1>3 DEF Arrive, recvVars
    <2>2. QueueInOrder'
      BY <1>0, <2>1, SMT DEF QueueInOrder, Rising
    <2>3. RegisterIsNext'
      BY <1>0, <2>1, SMT DEF QueueInOrder, Rising, RegisterIsNext
    <2> QED
      BY <2>2, <2>3
  <1>4. ASSUME NEW r \in Readers, Receive(r)
        PROVE  (QueueInOrder /\ RegisterIsNext)'
    <2>1. /\ qRecv # <<>> /\ qRecv' = Tail(qRecv) /\ lastRead' = Head(qRecv)
          /\ UNCHANGED <<rdr, arrivals>>
      BY <1>4 DEF Receive
    <2>2. Rising(qRecv, lastRead, arrivals)
      BY DEF QueueInOrder
    <2>3. /\ Head(qRecv) <= arrivals /\ Rising(Tail(qRecv), Head(qRecv), arrivals)
          /\ (\A k \in 1 .. Len(qRecv) : qRecv[k] < rdr) =>
                Head(qRecv) < rdr /\ \A k \in 1 .. Len(Tail(qRecv)) : Tail(qRecv)[k] < rdr
      BY <1>0, <2>1, <2>2, RisingTail
    <2> QED
      BY <2>1, <2>3 DEF QueueInOrder, RegisterIsNext
  <1>5. ASSUME NEW s \in Senders,
               (\E n \in Sizes, forever \in Waits : Send(s, n, forever)) \/ RunSender(s)
        PROVE  UNCHANGED <<qRecv, rdr, arrivals, lastRead>>
    BY <1>5 DEF Send, RunSender, Put, PutTimeout, CheckEnded, ClaimTx, ReadC2, WriteC2, recvVars
  <1>6. ASSUME NEW r \in Readers,
               (\E n \in Sizes, forever \in Waits : Recv(r, n, forever)) \/ RecvEmpty(r)
        PROVE  UNCHANGED <<qRecv, rdr, arrivals, lastRead>>
    BY <1>6 DEF Recv, RecvEmpty
  <1>7. ASSUME Conf \/ RunConf \/ Line \/ UNCHANGED vars
        PROVE  UNCHANGED <<qRecv, rdr, arrivals, lastRead>>
    BY <1>7 DEF Conf, RunConf, ConfOff, ConfRead, ConfOn, ConfStore, Line, LoadShift, ByteOut,
       vars, recvVars
  <1> QED
    BY <1>1, <1>2, <1>3, <1>4, <1>5, <1>6, <1>7 DEF Next, RunReader

LEMMA OrderIsEnough == OrderInv => RecvInOrder
  <1> SUFFICES ASSUME OrderInv PROVE RecvInOrder
    OBVIOUS
  <1> DEFINE rest == IF rdr = None THEN <<>> ELSE <<rdr>>
             coming == qRecv \o rest
             n == Len(qRecv)
  <1>1. /\ qRecv \in Seq(Nat) /\ rest \in Seq(Nat) /\ n \in Nat
        /\ IF rdr = None THEN Len(rest) = 0 ELSE Len(rest) = 1 /\ rest[1] = rdr
    <2>1. qRecv \in Seq(1 .. MaxArrivals) /\ rdr \in (1 .. MaxArrivals) \cup {None}
      BY DEF OrderInv, TypeOK, ReceiverOK
    <2>2. qRecv \in Seq(Nat) /\ n \in Nat
      BY <2>1, ArrivalFacts, SeqOfMore, LenProperties
    <2>3. rdr # None => <<rdr>> \in Seq(Nat) /\ Len(<<rdr>>) = 1 /\ <<rdr>>[1] = rdr
      BY <2>1, ArrivalFacts, SMT
    <2> QED
      BY <2>2, <2>3, EmptySeq
  <1>2. /\ Len(coming) = n + Len(rest)
        /\ \A k \in 1 .. n + Len(rest) : coming[k] = IF k <= n THEN qRecv[k] ELSE rest[k - n]
    BY <1>1, ConcatProperties
  <1>3. /\ \A k \in 1 .. n : lastRead < qRecv[k]
        /\ \A k, l \in 1 .. n : k < l => qRecv[k] < qRecv[l]
        /\ rdr # None => lastRead < rdr /\ \A k \in 1 .. n : qRecv[k] < rdr
    BY DEF OrderInv, QueueInOrder, Rising, RegisterIsNext
  <1> HIDE DEF coming, rest, n
  <1>4. \A k \in 1 .. Len(coming) : (IF k = 1 THEN lastRead ELSE coming[k - 1]) < coming[k]
    <2> SUFFICES ASSUME NEW k \in 1 .. Len(coming)
                 PROVE  (IF k = 1 THEN lastRead ELSE coming[k - 1]) < coming[k]
      OBVIOUS
    <2>1. Len(rest) \in {0, 1} /\ (Len(rest) = 1 => rdr # None /\ rest[1] = rdr)
      <3>1. CASE rdr = None
        <4>1. Len(rest) = 0 /\ 0 # 1
          BY <1>1, <3>1
        <4> QED
          BY <4>1
      <3>2. CASE rdr # None
        BY <1>1, <3>2
      <3> QED
        BY <3>1, <3>2
    <2>2. CASE k \in 1 .. n
      <3>1. coming[k] = qRecv[k]
        BY <1>1, <1>2, <2>2, SMT
      <3>2. k # 1 => k - 1 \in 1 .. n /\ k - 1 < k /\ coming[k - 1] = qRecv[k - 1]
        BY <1>1, <1>2, <2>1, <2>2, SMT
      <3> QED
        BY <1>3, <2>2, <3>1, <3>2
    <2>3. CASE k \notin 1 .. n
      <3>1. Len(rest) = 1 /\ k = n + 1 /\ coming[k] = rest[1]
        <4>1. n \in Nat /\ k \in Nat /\ k <= n + Len(rest) /\ ~(k <= n) /\ k \in 1 .. n + Len(rest)
          <5>1. n \in Nat /\ Len(rest) \in Nat /\ k \in 1 .. n + Len(rest)
            BY <1>1, <1>2, <2>1
          <5> QED
            BY <5>1, <2>3, SMT
        <4>2. Len(rest) = 1 /\ k = n + 1 /\ k - n = 1
          <5>1. CASE Len(rest) = 0
            BY <4>1, <5>1, SMT
          <5>2. CASE Len(rest) = 1
            BY <4>1, <5>2, SMT
          <5> QED
            BY <2>1, <5>1, <5>2
        <4>3. coming[k] = rest[k - n]
          BY <1>2, <4>1
        <4> QED
          BY <4>2, <4>3
      <3>2. k # 1 => k - 1 \in 1 .. n /\ coming[k - 1] = qRecv[k - 1]
        BY <1>1, <1>2, <3>1, SMT
      <3> QED
        BY <1>3, <2>1, <3>1, <3>2
    <2> QED
      BY <2>2, <2>3
  <1>5. /\ lastRead \in Nat /\ \A k \in 1 .. Len(coming) : coming[k] \in Nat
    <2>1. coming \in Seq(Nat)
      BY <1>1, ConcatProperties DEF coming
    <2> QED
      BY <2>1, ElementOfSeq, ArrivalFacts DEF OrderInv, TypeOK, ReadersOK
  <1>6. \A k \in 1 .. Len(coming) : coming[k] > (IF k = 1 THEN lastRead ELSE coming[k - 1])
    <2>1. \A k \in 1 .. Len(coming) : k # 1 => k - 1 \in 1 .. Len(coming)
      BY <1>1, <1>2, SMT
    <2> QED
      BY <1>4, <1>5, <2>1, SMT
  <1> QED
    BY <1>6 DEF RecvInOrder, Held, coming, rest

(***************************************************************************)
(* Bytes are read in the order of their arrival, each at most once, for    *)
(* any number of readers and any queue length.                             *)
(***************************************************************************)
THEOREM ReadInOrder == SafeSpec => []RecvInOrder
  <1>1. Init /\ TypeOK => OrderInv
    BY OrderInit DEF OrderInv
  <1>2. OrderInv /\ [Next]_vars /\ TypeOK' => OrderInv'
    BY OrderStep DEF OrderInv
  <1> QED
    BY TypeCorrect, OrderIsEnough, <1>1, <1>2, PTL DEF SafeSpec

-----------------------------------------------------------------------------
(***************************************************************************)
(* Why bytes leave once and in order.  A send appends to the bytes under   *)
(* way the number it counts next, the line takes the oldest of them, and   *)
(* whatever else the handler and the controller do leaves them as they     *)
(* are.  First, what appending and taking do to a numbered sequence.       *)
(***************************************************************************)
LEMMA PlacesAppend ==
  ASSUME NEW q \in Seq(Bytes), NEW b \in Bytes, NEW s
  PROVE  LET r == Append(q, b)
             n == Len(q) IN
         /\ n \in Nat /\ n + 1 \notin Places(q, s) /\ Places(q, s) \subseteq 1 .. n
         /\ Places(r, s) = Places(q, s) \cup (IF b[1] = s THEN {n + 1} ELSE {})
         /\ r[n + 1] = b /\ \A k \in Places(q, s) : r[k] = q[k]
  <1> DEFINE r == Append(q, b)
             n == Len(q)
  <1>1. /\ n \in Nat /\ Len(r) = n + 1
        /\ \A k \in 1 .. n : r[k] = q[k]
        /\ r[n + 1] = b
    BY AppendProperties, LenProperties
  <1>2. \A k : k \in 1 .. n + 1 <=> k \in 1 .. n \/ k = n + 1
    BY <1>1, SMT
  <1>3. n + 1 \notin 1 .. n
    BY <1>1, SMT
  <1> HIDE DEF r, n
  <1>4. Places(q, s) = {k \in 1 .. n : q[k][1] = s} /\ Places(r, s) = {k \in 1 .. n + 1 : r[k][1] = s}
    BY <1>1 DEF Places, n
  <1>5. Places(r, s) = Places(q, s) \cup (IF b[1] = s THEN {n + 1} ELSE {})
    BY <1>1, <1>2, <1>4
  <1> QED
    BY <1>1, <1>3, <1>4, <1>5 DEF r, n

LEMMA NumberedAppend ==
  ASSUME NEW q \in Seq(Bytes), NEW b \in Bytes, NEW s, NEW first, NEW next,
         Numbered(q, s, first, next)
  PROVE  /\ b[1] # s => Numbered(Append(q, b), s, first, next)
         /\ b = <<s, next>> => Numbered(Append(q, b), s, first, (next + 1) % Tags)
  <1> DEFINE r == Append(q, b)
             n == Len(q)
             P == Places(q, s)
  <1>1. /\ n \in Nat /\ P \subseteq 1 .. n
        /\ Places(r, s) = P \cup (IF b[1] = s THEN {n + 1} ELSE {})
        /\ r[n + 1] = b /\ \A k \in P : r[k] = q[k]
    BY PlacesAppend
  <1>2. /\ P = {} => next = first
        /\ \A k \in P :
              /\ (\A l \in P : k <= l) => q[k][2] = first
              /\ (\A l \in P : l <= k) => next = (q[k][2] + 1) % Tags
              /\ \A m \in P : k < m /\ (\A l \in P : l <= k \/ m <= l) =>
                    q[m][2] = (q[k][2] + 1) % Tags
    BY DEF Numbered
  <1>3. \A k \in P : k \in Nat /\ k < n + 1 /\ k <= n + 1 /\ ~(n + 1 <= k) /\ ~(n + 1 < k)
    BY <1>1, SMT
  <1>4. n + 1 <= n + 1 /\ ~(n + 1 < n + 1)
    BY <1>1, SMT
  <1> HIDE DEF r, n, P
  <1>5. ASSUME b[1] # s
        PROVE  Numbered(r, s, first, next)
    <2>1. Places(r, s) = P
      BY <1>1, <1>5
    <2>2. \A k \in P :
              /\ (\A l \in P : k <= l) => r[k][2] = first
              /\ (\A l \in P : l <= k) => next = (r[k][2] + 1) % Tags
              /\ \A m \in P : k < m /\ (\A l \in P : l <= k \/ m <= l) =>
                    r[m][2] = (r[k][2] + 1) % Tags
      <3> SUFFICES ASSUME NEW k \in P
                   PROVE  /\ (\A l \in P : k <= l) => r[k][2] = first
                          /\ (\A l \in P : l <= k) => next = (r[k][2] + 1) % Tags
                          /\ \A m \in P : k < m /\ (\A l \in P : l <= k \/ m <= l) =>
                                r[m][2] = (r[k][2] + 1) % Tags
        OBVIOUS
      <3>1. r[k] = q[k] /\ \A m \in P : r[m] = q[m]
        BY <1>1
      <3> QED
        BY <1>2, <3>1
    <2> QED
      BY <1>2, <2>1, <2>2 DEF Numbered
  <1>6. ASSUME b = <<s, next>>
        PROVE  Numbered(r, s, first, (next + 1) % Tags)
    <2>1. Places(r, s) = P \cup {n + 1} /\ r[n + 1][2] = next
      BY <1>1, <1>6
    <2>2. ASSUME NEW k \in P \cup {n + 1}
          PROVE  /\ (\A l \in P \cup {n + 1} : k <= l) => r[k][2] = first
                 /\ (\A l \in P \cup {n + 1} : l <= k) => (next + 1) % Tags = (r[k][2] + 1) % Tags
                 /\ \A m \in P \cup {n + 1} :
                       k < m /\ (\A l \in P \cup {n + 1} : l <= k \/ m <= l) =>
                           r[m][2] = (r[k][2] + 1) % Tags
      <3>1. CASE k \in P
        <4>1. (\A l \in P \cup {n + 1} : k <= l) => r[k][2] = first
          BY <1>1, <1>2, <3>1
        <4>2. ~(\A l \in P \cup {n + 1} : l <= k)
          BY <1>3, <3>1
        <4>3. ASSUME NEW m \in P, k < m, \A l \in P \cup {n + 1} : l <= k \/ m <= l
              PROVE  r[m][2] = (r[k][2] + 1) % Tags
          BY <1>1, <1>2, <3>1, <4>3
        <4>4. ASSUME \A l \in P \cup {n + 1} : l <= k \/ n + 1 <= l
              PROVE  r[n + 1][2] = (r[k][2] + 1) % Tags
          <5>1. \A l \in P : l <= k
            BY <1>3, <4>4
          <5> QED
            BY <1>1, <1>2, <2>1, <3>1, <5>1
        <4> QED
          BY <4>1, <4>2, <4>3, <4>4
      <3>2. CASE k = n + 1
        BY <1>2, <1>3, <1>4, <2>1, <3>2
      <3> QED
        BY <3>1, <3>2
    <2> QED
      BY <2>1, <2>2 DEF Numbered
  <1> QED
    BY <1>5, <1>6 DEF r

LEMMA PlacesTail ==
  ASSUME NEW q \in Seq(Bytes), q # <<>>, NEW s
  PROVE  LET r == Tail(q) IN
         /\ Places(q, s) \subseteq Nat \ {0} /\ Places(r, s) \subseteq Nat \ {0}
         /\ \A k : k \in Places(r, s) <=> k \in Nat \ {0} /\ k + 1 \in Places(q, s)
         /\ \A k \in Places(r, s) : r[k] = q[k + 1]
         /\ 1 \in Places(q, s) <=> Head(q)[1] = s
         /\ q[1] = Head(q)
  <1> DEFINE r == Tail(q)
             n == Len(q)
  <1>1. /\ Len(r) = n - 1
        /\ \A k \in 1 .. Len(r) : r[k] = q[k + 1]
    BY HeadTailProperties
  <1>2. n \in Nat \ {0} /\ q[1] = Head(q)
    BY EmptySeq, SMT
  <1>3. /\ \A k : k \in 1 .. n - 1 <=> k \in Nat \ {0} /\ k + 1 \in 1 .. n
        /\ 1 \in 1 .. n /\ 1 .. n \subseteq Nat \ {0} /\ 1 .. n - 1 \subseteq Nat \ {0}
    <2>1. ASSUME NEW k
          PROVE  k \in 1 .. n - 1 <=> k \in Nat \ {0} /\ k + 1 \in 1 .. n
      BY <1>2, SMT
    <2> QED
      BY <1>2, <2>1, SMT
  <1>4. /\ Places(q, s) = {k \in 1 .. n : q[k][1] = s}
        /\ Places(r, s) = {k \in 1 .. n - 1 : r[k][1] = s}
    BY <1>1 DEF Places
  <1> HIDE DEF r, n
  <1> QED
    BY <1>1, <1>2, <1>3, <1>4 DEF r, n

LEMMA NumberedTail ==
  ASSUME NEW q \in Seq(Bytes), q # <<>>, NEW s, NEW first, NEW next,
         Numbered(q, s, first, next)
  PROVE  /\ Head(q)[1] # s => Numbered(Tail(q), s, first, next)
         /\ Head(q)[1] = s => Numbered(Tail(q), s, (first + 1) % Tags, next)
  <1> DEFINE r == Tail(q)
             P == Places(q, s)
             R == Places(r, s)
  <1>1. /\ P \subseteq Nat \ {0} /\ R \subseteq Nat \ {0}
        /\ \A k : k \in R <=> k \in Nat \ {0} /\ k + 1 \in P
        /\ \A k \in R : r[k] = q[k + 1]
        /\ 1 \in P <=> Head(q)[1] = s
    BY PlacesTail
  <1>2. /\ P = {} => next = first
        /\ \A k \in P :
              /\ (\A l \in P : k <= l) => q[k][2] = first
              /\ (\A l \in P : l <= k) => next = (q[k][2] + 1) % Tags
              /\ \A m \in P : k < m /\ (\A l \in P : l <= k \/ m <= l) =>
                    q[m][2] = (q[k][2] + 1) % Tags
    BY DEF Numbered
  <1> HIDE DEF r, P, R
  \* A place of q is the first one or, one less, a place of the tail.
  <1>3. \A l \in P : l = 1 \/ (l - 1 \in R /\ (l - 1) + 1 = l)
    <2>1. \A l \in Nat \ {0} : l = 1 \/ (l - 1 \in Nat \ {0} /\ (l - 1) + 1 = l)
      BY SMT
    <2> QED
      BY <1>1, <2>1
  <1>4. \A k, l \in Nat \ {0} : /\ k <= l <=> k + 1 <= l + 1
                                /\ k < l <=> k + 1 < l + 1
                                /\ 1 <= k + 1 /\ 1 < k + 1 /\ ~(k + 1 <= 1)
    BY SMT
  <1>5. \A k \in R : k \in Nat \ {0} /\ k + 1 \in P /\ r[k] = q[k + 1]
    BY <1>1
  \* The last place and neighbours are the same in both.
  <1>6. ASSUME NEW k \in R
        PROVE  /\ (\A l \in R : l <= k) => next = (r[k][2] + 1) % Tags
               /\ \A m \in R : k < m /\ (\A l \in R : l <= k \/ m <= l) =>
                     r[m][2] = (r[k][2] + 1) % Tags
    <2>1. ASSUME \A l \in R : l <= k
          PROVE  next = (r[k][2] + 1) % Tags
      <3>1. ASSUME NEW l \in P
            PROVE  l <= k + 1
        BY <1>3, <1>4, <1>5, <2>1
      <3> QED
        BY <1>2, <1>5, <3>1
    <2>2. ASSUME NEW m \in R, k < m, \A l \in R : l <= k \/ m <= l
          PROVE  r[m][2] = (r[k][2] + 1) % Tags
      <3>1. ASSUME NEW l \in P
            PROVE  l <= k + 1 \/ m + 1 <= l
        BY <1>3, <1>4, <1>5, <2>2
      <3>2. k + 1 < m + 1
        BY <1>4, <1>5, <2>2
      <3> QED
        BY <1>2, <1>5, <3>1, <3>2
    <2> QED
      BY <2>1, <2>2
  <1>7. ASSUME Head(q)[1] # s
        PROVE  Numbered(r, s, first, next)
    <2>1. 1 \notin P
      BY <1>1, <1>7
    <2>2. R = {} => next = first
      BY <1>2, <1>3, <2>1
    <2>3. ASSUME NEW k \in R, \A l \in R : k <= l
          PROVE  r[k][2] = first
      <3>1. ASSUME NEW l \in P
            PROVE  k + 1 <= l
        BY <1>3, <1>4, <1>5, <2>1, <2>3
      <3> QED
        BY <1>2, <1>5, <3>1
    <2> QED
      BY <1>6, <2>2, <2>3 DEF Numbered, R
  <1>8. ASSUME Head(q)[1] = s
        PROVE  Numbered(r, s, (first + 1) % Tags, next)
    <2>1. 1 \in P /\ q[1][2] = first
      <3>1. \A l \in P : 1 <= l
        BY <1>3, <1>4, <1>5, SMT
      <3> QED
        BY <1>1, <1>2, <1>8, <3>1
    <2>2. ASSUME R = {}
          PROVE  next = (first + 1) % Tags
      <3>1. \A l \in P : l <= 1
        BY <1>3, <2>2, SMT
      <3> QED
        BY <1>2, <2>1, <3>1
    <2>3. ASSUME NEW k \in R, \A l \in R : k <= l
          PROVE  r[k][2] = (first + 1) % Tags
      <3>1. ASSUME NEW l \in P
            PROVE  l <= 1 \/ k + 1 <= l
        <4>1. CASE l = 1
          BY <4>1, SMT
        <4>2. CASE l - 1 \in R /\ (l - 1) + 1 = l
          BY <1>4, <1>5, <2>3, <4>2
        <4> QED
          BY <1>3, <4>1, <4>2
      <3>2. 1 < k + 1
        BY <1>4, <1>5
      <3> QED
        BY <1>2, <1>5, <2>1, <3>1, <3>2
    <2> QED
      BY <1>6, <2>2, <2>3 DEF Numbered, R
  <1> QED
    BY <1>7, <1>8 DEF r

\* A register holds one byte or none; the first byte of a queue and the rest.
LEMMA HeldSeq == \A reg \in Bytes \cup {None} :
    /\ Held(reg) \in Seq(Bytes)
    /\ reg \in Bytes => Held(reg) = <<reg>>
  <1>1. \A b \in Bytes : <<b>> \in Seq(Bytes)
    BY SMT
  <1>2. <<>> \in Seq(Bytes) /\ Held(None) = <<>>
    BY EmptySeq DEF Held
  <1> QED
    BY <1>1, <1>2, NoneIsNoByte DEF Held

LEMMA HeadFirst ==
  ASSUME NEW q \in Seq(Bytes), q # <<>>
  PROVE  Head(q) \in Bytes /\ Tail(q) \in Seq(Bytes) /\ <<Head(q)>> \o Tail(q) = q
  <1>1. /\ Head(q) \in Bytes /\ Tail(q) \in Seq(Bytes)
        /\ Len(Tail(q)) = Len(q) - 1
        /\ \A k \in 1 .. Len(Tail(q)) : Tail(q)[k] = q[k + 1]
    BY HeadTailProperties
  <1>2. Len(q) \in Nat \ {0} /\ Head(q) = q[1]
    BY EmptySeq, SMT
  <1> DEFINE h == <<Head(q)>>
             t == Tail(q)
  <1>3. h \in Seq(Bytes) /\ Len(h) = 1 /\ h[1] = q[1]
    BY <1>1, <1>2, SMT
  <1>4. t \in Seq(Bytes) /\ Len(t) = Len(q) - 1 /\ \A k \in 1 .. Len(t) : t[k] = q[k + 1]
    BY <1>1
  <1> HIDE DEF h, t
  <1>5. /\ h \o t \in Seq(Bytes) /\ Len(h \o t) = Len(h) + Len(t)
        /\ \A k \in 1 .. Len(h) + Len(t) :
              (h \o t)[k] = IF k <= Len(h) THEN h[k] ELSE t[k - Len(h)]
    <2>1. h \in Seq(Bytes) /\ t \in Seq(Bytes)
      BY <1>3, <1>4
    <2> QED
      BY <2>1, ConcatProperties, Zenon
  <1>6. Len(h \o t) = Len(q)
    BY <1>2, <1>3, <1>4, <1>5, SMT
  <1>7. ASSUME NEW k \in 1 .. Len(q)
        PROVE  (h \o t)[k] = q[k]
    <2>1. (h \o t)[k] = IF k <= 1 THEN h[k] ELSE t[k - 1]
      BY <1>2, <1>3, <1>4, <1>5, SMT
    <2>2. (k <= 1 => k = 1) /\ (~(k <= 1) => k - 1 \in 1 .. Len(t) /\ (k - 1) + 1 = k)
      BY <1>2, <1>4, SMT
    <2> QED
      BY <1>3, <1>4, <2>1, <2>2
  <1>8. h \o t = q
    BY <1>5, <1>6, <1>7, SeqEqual
  <1> QED
    BY <1>1, <1>8 DEF h, t

LEMMA RestOf ==
  ASSUME NEW q \in Seq(Bytes), q # <<>>
  PROVE  /\ Len(q) = 1 => Tail(q) = <<>>
         /\ Len(q) # 1 => Tail(q) # <<>> /\ Head(Tail(q)) = q[2]
  <1>1. /\ Tail(q) \in Seq(Bytes) /\ Len(Tail(q)) = Len(q) - 1
        /\ \A k \in 1 .. Len(Tail(q)) : Tail(q)[k] = q[k + 1]
    BY HeadTailProperties
  <1>2. Len(q) \in Nat /\ Len(Tail(q)) \in Nat
    BY <1>1, LenProperties
  <1>3. Len(q) = 1 <=> Len(Tail(q)) = 0
    BY <1>1, <1>2, SMT
  <1>4. \A t \in Seq(Bytes) : (t = <<>> <=> Len(t) = 0) /\ (t # <<>> => Head(t) = t[1])
    <2>1. Len(<<>>) = 0
      BY EmptySeq
    <2>2. \A t \in Seq(Bytes) : t # <<>> => Len(t) \in Nat \ {0}
      BY EmptySeq
    <2>3. \A t \in Seq(Bytes) : t # <<>> => Len(t) # 0
      BY <2>2
    <2>4. \A t \in Seq(Bytes) : t # <<>> => Head(t) = t[1]
      BY SMT
    <2> QED
      BY <2>1, <2>3, <2>4, Zenon
  <1>5. ASSUME Len(q) # 1
        PROVE  Head(Tail(q)) = q[2]
    <2>1. 1 \in 1 .. Len(Tail(q)) /\ 1 + 1 = 2
      <3>1. 1 + 1 = 2 /\ \A n \in Nat : n # 0 => 1 \in 1 .. n
        BY SMT
      <3> QED
        BY <1>2, <1>3, <1>5, <3>1, Zenon
    <2>2. Tail(q)[1] = q[2]
      BY <1>1, <2>1
    <2>3. Head(Tail(q)) = Tail(q)[1]
      BY <1>1, <1>3, <1>4, <1>5, Zenon
    <2> QED
      BY <2>2, <2>3
  <1> QED
    BY <1>1, <1>3, <1>4, <1>5, Zenon

LEMMA TakeFirst ==
  ASSUME NEW b \in Bytes, NEW q \in Seq(Bytes)
  PROVE  <<b>> \o q # <<>> /\ Head(<<b>> \o q) = b /\ Tail(<<b>> \o q) = q
  <1> DEFINE h == <<b>>
             w == h \o q
  <1>1. h \in Seq(Bytes) /\ Len(h) = 1 /\ h[1] = b
    BY SMT
  <1> HIDE DEF h
  <1>2. /\ w \in Seq(Bytes) /\ Len(w) = 1 + Len(q)
        /\ \A k \in 1 .. 1 + Len(q) : w[k] = IF k <= 1 THEN h[k] ELSE q[k - 1]
    <2>1. /\ w \in Seq(Bytes) /\ Len(w) = Len(h) + Len(q)
          /\ \A k \in 1 .. Len(h) + Len(q) :
                w[k] = IF k <= Len(h) THEN h[k] ELSE q[k - Len(h)]
      BY <1>1, ConcatProperties, Zenon
    <2> QED
      BY <1>1, <2>1
  <1>3. Len(q) \in Nat /\ Len(w) # 0 /\ w[1] = b
    BY <1>1, <1>2, LenProperties, SMT
  <1> HIDE DEF w
  <1>4. w # <<>>
    BY <1>3, EmptySeq
  <1>5. Head(w) = b
    BY <1>2, <1>3, <1>4, SMT
  <1>6. /\ Tail(w) \in Seq(Bytes) /\ Len(Tail(w)) = Len(w) - 1
        /\ \A k \in 1 .. Len(Tail(w)) : Tail(w)[k] = w[k + 1]
    BY <1>2, <1>4, HeadTailProperties
  <1>7. Len(Tail(w)) = Len(q)
    BY <1>2, <1>3, <1>6, SMT
  <1>8. ASSUME NEW k \in 1 .. Len(q)
        PROVE  Tail(w)[k] = q[k]
    <2>1. k + 1 \in 1 .. 1 + Len(q) /\ ~(k + 1 <= 1) /\ (k + 1) - 1 = k
      BY <1>3, SMT
    <2> QED
      BY <1>2, <1>6, <1>7, <2>1
  <1>9. Tail(w) = q
    BY <1>6, <1>7, <1>8, SeqEqual
  <1> QED
    BY <1>4, <1>5, <1>9 DEF w, h

LEMMA UnderWaySeq ==
  ASSUME NEW x \in Bytes \cup {None}, NEW y \in Bytes \cup {None}, NEW q \in Seq(Bytes)
  PROVE  LET w == Held(x) \o Held(y) \o q IN
         /\ w \in Seq(Bytes)
         /\ w = Held(x) \o (Held(y) \o q)
         /\ x = None => w = Held(y) \o q
         /\ y = None => w = Held(x) \o q
  <1> DEFINE w == Held(x) \o Held(y) \o q
  <1>1. Held(x) \in Seq(Bytes) /\ Held(y) \in Seq(Bytes)
    BY HeldSeq
  <1>2. Held(x) \o Held(y) \in Seq(Bytes) /\ Held(y) \o q \in Seq(Bytes)
    BY <1>1, ConcatProperties
  <1>3. w = Held(x) \o (Held(y) \o q) /\ w \in Seq(Bytes)
    BY <1>1, <1>2, ConcatAssociative, ConcatProperties
  <1>4. x = None => w = Held(y) \o q
    BY <1>2, <1>3, ConcatEmptySeq DEF Held
  <1>5. y = None => w = Held(x) \o q
    BY <1>1, <1>3, ConcatEmptySeq DEF Held
  <1> QED
    BY <1>3, <1>4, <1>5

\* The handler and the controller move bytes along without changing them.
LEMMA PutUnderWay ==
  ASSUME TypeInv, TransmitterOK', NEW s \in Senders, Put(s)
  PROVE  UnderWay' = Append(UnderWay, <<s, accepted[s]>>)
  <1> DEFINE b == <<s, accepted[s]>>
             regs == Held(shift) \o Held(dreg)
  <1>1. b \in Bytes
    BY SMT DEF TypeInv, SendInv, SendersOK, Bytes
  <1>2. regs \in Seq(Bytes) /\ qSend \in Seq(Bytes) /\ <<b>> \in Seq(Bytes)
    BY <1>1, HeldSeq, ConcatProperties DEF TypeInv, TransmitterOK, Held
  <1>3. UnderWay = regs \o qSend /\ UnderWay \in Seq(Bytes)
    BY UnderWaySeq DEF UnderWay, TypeInv, TransmitterOK
  <1>4. UnderWay' = regs \o Append(qSend, b)
    BY DEF UnderWay, Put, lineVars, Held
  <1> HIDE DEF b, regs
  <1>5. Append(qSend, b) = qSend \o <<b>> /\ Append(UnderWay, b) = UnderWay \o <<b>>
    BY <1>1, <1>2, <1>3, AppendIsConcat
  <1>6. regs \o (qSend \o <<b>>) = (regs \o qSend) \o <<b>>
    BY <1>2, ConcatAssociative
  <1> QED
    BY <1>3, <1>4, <1>5, <1>6 DEF b

LEMMA IrqUnderWay ==
  ASSUME TypeInv, TransmitterOK', Irq
  PROVE  UnderWay' = UnderWay
  <1> DEFINE first == Head(qSend)
             rest == Tail(qSend)
  <1>0. qSend \in Seq(Bytes) /\ shift \in Bytes \cup {None}
    BY DEF TypeInv, TransmitterOK
  <1>1. CASE UNCHANGED <<qSend, dreg, shift>>
    BY <1>1 DEF UnderWay, Held
  <1>2. CASE TxPending /\ qSend # <<>>
    <2>1. UnderWay = Held(shift) \o qSend
      BY <1>2, UnderWaySeq DEF UnderWay, TxPending, TypeInv, TransmitterOK
    <2>2. first \in Bytes /\ rest \in Seq(Bytes) /\ <<first>> \o rest = qSend
      BY <1>0, <1>2, HeadFirst
    <2>3. Held(first) = <<first>>
      BY <2>2, HeldSeq
    <2>4. CASE dreg' = first /\ qSend' = rest /\ UNCHANGED shift
      <3>1. UnderWay' = Held(shift) \o (Held(first) \o rest)
        BY <2>4, UnderWaySeq DEF UnderWay, TransmitterOK
      <3> QED
        BY <2>1, <2>2, <2>3, <3>1
    <2>5. CASE shift = None /\ shift' = first /\ Len(qSend) = 1 /\ qSend' = <<>> /\ UNCHANGED dreg
      <3>1. UnderWay = qSend
        BY <1>0, <2>1, <2>5, ConcatEmptySeq DEF Held
      <3>2. dreg' = None /\ UnderWay' = Held(first) \o <<>>
        BY <1>2, <2>5, UnderWaySeq DEF TxPending, UnderWay, TransmitterOK
      <3>3. rest = <<>>
        BY <1>0, <1>2, <2>5, RestOf
      <3> QED
        BY <2>2, <2>3, <3>1, <3>2, <3>3
    <2>6. CASE /\ shift = None /\ shift' = first /\ Len(qSend) # 1
               /\ dreg' = qSend[2] /\ qSend' = Tail(rest)
      <3>1. UnderWay = qSend
        BY <1>0, <2>1, <2>6, ConcatEmptySeq DEF Held
      <3>2. rest # <<>> /\ Head(rest) = qSend[2]
        BY <1>0, <1>2, <2>6, RestOf
      <3>3. qSend[2] \in Bytes /\ Tail(rest) \in Seq(Bytes) /\ <<qSend[2]>> \o Tail(rest) = rest
        BY <2>2, <3>2, HeadFirst
      <3>4. UnderWay' = Held(first) \o (Held(qSend[2]) \o Tail(rest))
        BY <2>6, UnderWaySeq DEF UnderWay, TransmitterOK
      <3>5. Held(qSend[2]) = <<qSend[2]>>
        BY <3>3, HeldSeq
      <3> QED
        BY <2>2, <2>3, <3>1, <3>3, <3>4, <3>5
    <2> QED
      BY <1>1, <1>2, <2>4, <2>5, <2>6 DEF Irq, TxPart
  <1> QED
    BY <1>1, <1>2 DEF Irq, TxPart

LEMMA LineUnderWay ==
  ASSUME TypeInv, TransmitterOK'
  PROVE  /\ LoadShift => UnderWay' = UnderWay
         /\ ByteOut => /\ shift \in Bytes /\ UnderWay # <<>>
                       /\ Head(UnderWay) = shift /\ UnderWay' = Tail(UnderWay)
  <1>1. /\ qSend \in Seq(Bytes) /\ shift \in Bytes \cup {None} /\ dreg \in Bytes \cup {None}
        /\ Held(dreg) \o qSend \in Seq(Bytes)
    BY HeldSeq, ConcatProperties DEF TypeInv, TransmitterOK
  <1>2. ASSUME LoadShift
        PROVE  UnderWay' = UnderWay
    <2>1. UnderWay = Held(dreg) \o qSend
      BY <1>2, UnderWaySeq DEF UnderWay, LoadShift, TypeInv, TransmitterOK
    <2>2. shift' = dreg /\ dreg' = None /\ qSend' = qSend
      BY <1>2 DEF LoadShift
    <2>3. UnderWay' = Held(shift') \o qSend'
      BY <2>2, UnderWaySeq DEF UnderWay, TransmitterOK
    <2> QED
      BY <2>1, <2>2, <2>3 DEF Held
  <1>3. ASSUME ByteOut
        PROVE  /\ shift \in Bytes /\ UnderWay # <<>>
               /\ Head(UnderWay) = shift /\ UnderWay' = Tail(UnderWay)
    <2>1. shift \in Bytes
      BY <1>1, <1>3 DEF ByteOut
    <2>2. UnderWay = <<shift>> \o (Held(dreg) \o qSend)
      <3>1. Held(shift) = <<shift>>
        BY <2>1, HeldSeq
      <3>2. UnderWay = Held(shift) \o (Held(dreg) \o qSend)
        BY <1>1, UnderWaySeq DEF UnderWay
      <3> QED
        BY <3>1, <3>2
    <2>3. shift' = None /\ dreg' = dreg /\ qSend' = qSend
      BY <1>3 DEF ByteOut
    <2>4. UnderWay' = Held(dreg) \o qSend
      BY <2>3, UnderWaySeq DEF UnderWay, TransmitterOK
    <2> QED
      BY <1>1, <2>1, <2>2, <2>4, TakeFirst
  <1> QED
    BY <1>2, <1>3

-----------------------------------------------------------------------------
LEMMA ConservedInit == Init => Conserved
  <1> SUFFICES ASSUME Init, NEW s \in Senders PROVE Numbered(UnderWay, s, out[s], accepted[s])
    BY DEF Conserved
  <1>1. UnderWay = <<>>
    BY ConcatEmptySeq, EmptySeq DEF Init, UnderWay, Held
  <1>2. Places(<<>>, s) = {}
    BY EmptySeq, SMT DEF Places
  <1> QED
    BY <1>1, <1>2 DEF Init, Numbered

\* A step that leaves the bytes under way and the counters alone.
LEMMA ConservedUnmoved ==
  Conserved /\ UnderWay' = UnderWay /\ UNCHANGED <<out, accepted>> => Conserved'
  BY DEF Conserved, Numbered, Places

LEMMA ConservedStep ==
  TypeInv /\ TypeInv' /\ Conserved /\ [Next]_vars => Conserved'
  <1> SUFFICES ASSUME TypeInv, TypeInv', Conserved, [Next]_vars
               PROVE  Conserved'
    OBVIOUS
  <1>0. /\ TransmitterOK /\ TransmitterOK' /\ UnderWay \in Seq(Bytes)
        /\ accepted \in [Senders -> 0 .. Tags - 1] /\ out \in [Senders -> 0 .. Tags - 1]
    BY UnderWaySeq DEF TypeInv, SendInv, SendersOK, TransmitterOK, UnderWay
  <1>1. ASSUME NEW s \in Senders, Put(s)
        PROVE  Conserved'
    <2> DEFINE b == <<s, accepted[s]>>
    <2>1. UnderWay' = Append(UnderWay, b) /\ b \in Bytes
      BY <1>0, <1>1, PutUnderWay, SMT DEF Bytes
    <2>2. accepted' = [accepted EXCEPT ![s] = (@ + 1) % Tags] /\ out' = out
      BY <1>1 DEF Put, lineVars
    <2> SUFFICES ASSUME NEW t \in Senders
                 PROVE  Numbered(UnderWay', t, out'[t], accepted'[t])
      BY DEF Conserved, Numbered, Places
    <2>3. Numbered(UnderWay, t, out[t], accepted[t])
      BY DEF Conserved
    <2>4. b[1] = s
      OBVIOUS
    <2> HIDE DEF b
    <2>5. CASE t # s
      <3>1. Numbered(Append(UnderWay, b), t, out[t], accepted[t])
        BY <1>0, <2>1, <2>3, <2>4, <2>5, NumberedAppend
      <3> QED
        BY <1>0, <2>1, <2>2, <2>5, <3>1
    <2>6. CASE t = s
      <3>1. Numbered(Append(UnderWay, b), t, out[t], (accepted[t] + 1) % Tags)
        BY <1>0, <2>1, <2>3, <2>6, NumberedAppend DEF b
      <3> QED
        BY <1>0, <2>1, <2>2, <2>6, <3>1
    <2> QED
      BY <2>5, <2>6
  <1>2. ASSUME ByteOut
        PROVE  Conserved'
    <2>1. /\ shift \in Bytes /\ UnderWay # <<>>
          /\ Head(UnderWay) = shift /\ UnderWay' = Tail(UnderWay)
      BY <1>0, <1>2, LineUnderWay
    <2>2. out' = [out EXCEPT ![shift[1]] = (@ + 1) % Tags] /\ accepted' = accepted
      BY <1>2 DEF ByteOut, sendVars
    <2>3. shift[1] \in Senders
      BY <2>1, SMT DEF Bytes
    <2> SUFFICES ASSUME NEW t \in Senders
                 PROVE  Numbered(UnderWay', t, out'[t], accepted'[t])
      BY DEF Conserved, Numbered, Places
    <2>4. Numbered(UnderWay, t, out[t], accepted[t])
      BY DEF Conserved
    <2>5. CASE t # shift[1]
      <3>1. Numbered(Tail(UnderWay), t, out[t], accepted[t])
        BY <1>0, <2>1, <2>4, <2>5, NumberedTail
      <3> QED
        BY <1>0, <2>1, <2>2, <2>5, <3>1
    <2>6. CASE t = shift[1]
      <3>1. Numbered(Tail(UnderWay), t, (out[t] + 1) % Tags, accepted[t])
        BY <1>0, <2>1, <2>4, <2>6, NumberedTail
      <3> QED
        BY <1>0, <2>1, <2>2, <2>6, <3>1
    <2> QED
      BY <2>5, <2>6
  <1>3. ASSUME Irq \/ LoadShift
        PROVE  Conserved'
    <2>1. UnderWay' = UnderWay
      BY <1>0, <1>3, IrqUnderWay, LineUnderWay
    <2>2. UNCHANGED <<out, accepted>>
      BY <1>3 DEF Irq, LoadShift, sendVars
    <2> QED
      BY <2>1, <2>2, ConservedUnmoved
  <1>4. ASSUME UNCHANGED <<shift, dreg, qSend, out, accepted>>
        PROVE  Conserved'
    BY <1>4, ConservedUnmoved DEF UnderWay, Held
  <1>5. ASSUME NEW s \in Senders,
               \/ \E n \in Sizes, forever \in Waits : Send(s, n, forever)
               \/ PutTimeout(s) \/ CheckEnded(s) \/ ClaimTx(s) \/ ReadC2(s) \/ WriteC2(s)
        PROVE  UNCHANGED <<shift, dreg, qSend, out, accepted>>
    BY <1>5 DEF Send, PutTimeout, CheckEnded, ClaimTx, ReadC2, WriteC2, lineVars
  <1>6. ASSUME \/ \E r \in Readers : (\E n \in Sizes, forever \in Waits : Recv(r, n, forever)) \/ RunReader(r)
               \/ Conf \/ RunConf \/ Arrive \/ UNCHANGED vars
        PROVE  UNCHANGED <<shift, dreg, qSend, out, accepted>>
    BY <1>6 DEF Recv, RunReader, Receive, RecvEmpty, Conf, RunConf, ConfOff, ConfRead, ConfOn,
       ConfStore, Arrive, vars, sendVars, lineVars
  <1> QED
    BY <1>1, <1>2, <1>3, <1>4, <1>5, <1>6 DEF Next, RunSender, Line

(***************************************************************************)
(* Every byte a send call has counted leaves once and in order, for any    *)
(* number of senders, any queue length, and whatever a task that           *)
(* reconfigures the device does to the control register meanwhile.         *)
(***************************************************************************)
THEOREM BytesAreConserved == SafeSpec => []Conserved
  BY TypeInit, TypeStep, ConservedInit, ConservedStep, PTL DEF SafeSpec
=============================================================================
