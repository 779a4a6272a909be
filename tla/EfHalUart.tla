------------------------------ MODULE EfHalUart ------------------------------
(***************************************************************************)
(* One UART device: efHal_uart_send, efHal_uart_recv and efHal_uart_conf   *)
(* running in tasks, the two queues between them and the interrupt handler *)
(* of bsp_frdmkl46z_uart.c, and the controller's transmitter and receiver. *)
(*                                                                         *)
(* The handshake under study is txHasEnded.  A sender queues a byte and,   *)
(* if the interrupt handler had announced that it had nothing left, turns  *)
(* the transmit interrupt (TIE) back on; the handler takes bytes while it  *)
(* can and, on an empty queue, sets txHasEnded and turns TIE off.  Neither *)
(* the flag nor the control register C2 is protected: a task updates C2 by *)
(* reading it, and writing it back later.                                  *)
(***************************************************************************)
EXTENDS Naturals, Sequences

CONSTANTS
    Senders,        \* tasks that call efHal_uart_send on the device
    Readers,        \* tasks that call efHal_uart_recv on it
    Reconfigured,   \* TRUE if a task calls efHal_uart_conf while others send
    Sizes,          \* the sizes a caller passes
    Waits,          \* its block times: TRUE is portMAX_DELAY, FALSE a finite one
    SendLength,     \* EF_HAL_UART_QUEUE_SEND_LENGTH
    RecvLength,     \* EF_HAL_UART_QUEUE_RECV_LENGTH
    Tags,           \* bytes of a sender are numbered modulo Tags
    MaxArrivals,    \* bound: bytes that arrive on the line in a behaviour
    None            \* an empty register

ASSUME UartAssumption ==
    /\ Reconfigured \in BOOLEAN
    /\ Sizes \subseteq Nat \ {0} /\ Waits \subseteq BOOLEAN
    /\ SendLength \in Nat \ {0} /\ RecvLength \in Nat \ {0}
    /\ Tags \in Nat \ {0}
    /\ MaxArrivals \in Nat
    /\ None \notin Nat /\ None \notin Senders \X Nat

VARIABLES
    \* efHal_uart_send, one call per sender
    pc,             \* [Senders -> location]
    left,           \* [Senders -> bytes of the call not yet queued]
    mayBlock,       \* [Senders -> TRUE if blockTime is portMAX_DELAY]
    tmp,            \* [Senders -> the copy of C2 it is about to write back]
    accepted,       \* [Senders -> number, modulo Tags, of its next byte]
    \* the device handle and the controller
    qSend,          \* the send queue, oldest byte first
    qRecv,          \* the receive queue
    txHasEnded,     \* dhD->txHasEnded
    c2,             \* bits set in control register C2
    dreg, shift,    \* the transmitter: data register and shift register
    rdr,            \* the receiver's data register
    out,            \* [Senders -> number, modulo Tags, of the next byte to leave]
    arrivals,       \* bytes that have arrived on the line
    \* efHal_uart_recv
    rpc, want, got, rBlock, lastRead,
    \* efHal_uart_conf
    cpc, ctmp,
    clobbered       \* history: a write of C2 undid a bit another actor had set

sendVars == <<pc, left, mayBlock, tmp, accepted>>
lineVars == <<dreg, shift, out>>
recvVars == <<rpc, want, got, rBlock, lastRead>>
confVars == <<cpc, ctmp>>
vars == <<sendVars, qSend, qRecv, txHasEnded, c2, lineVars, rdr, arrivals,
          recvVars, confVars, clobbered>>

Bits == {"RIE", "TIE", "TCIE", "TE", "RE"}
Bytes == Senders \X (0 .. Tags - 1)

\* Between queueing a byte and having made sure the transmitter will take it.
Handing == {"check", "claim", "readC2", "writeC2"}

SendersOK ==
    /\ pc \in [Senders -> {"idle", "put"} \cup Handing]
    /\ left \in [Senders -> Nat]
    /\ mayBlock \in [Senders -> BOOLEAN]
    /\ tmp \in [Senders -> SUBSET Bits]
    /\ accepted \in [Senders -> 0 .. Tags - 1]

TransmitterOK ==
    /\ qSend \in Seq(Bytes) /\ Len(qSend) <= SendLength
    /\ txHasEnded \in BOOLEAN
    /\ c2 \in SUBSET Bits
    /\ dreg \in Bytes \cup {None} /\ shift \in Bytes \cup {None}
    /\ out \in [Senders -> 0 .. Tags - 1]

ReceiverOK ==
    /\ qRecv \in Seq(1 .. MaxArrivals) /\ Len(qRecv) <= RecvLength
    /\ rdr \in (1 .. MaxArrivals) \cup {None}
    /\ arrivals \in 0 .. MaxArrivals

ReadersOK ==
    /\ rpc \in [Readers -> {"idle", "recv"}]
    /\ want \in [Readers -> Nat] /\ got \in [Readers -> Nat]
    /\ rBlock \in [Readers -> BOOLEAN]
    /\ lastRead \in 0 .. MaxArrivals

ConfOK ==
    /\ cpc \in {"idle", "write1", "read2", "write2"}
    /\ ctmp \in SUBSET Bits
    /\ clobbered \in BOOLEAN

TypeOK == SendersOK /\ TransmitterOK /\ ReceiverOK /\ ReadersOK /\ ConfOK

(***************************************************************************)
(* efHal_uart_init, deviceReg and uart_init: the queues are empty, nothing *)
(* is being sent, and the receive, transmit and transmission-complete      *)
(* interrupts are enabled.                                                 *)
(***************************************************************************)
Init ==
    /\ pc = [s \in Senders |-> "idle"]
    /\ left = [s \in Senders |-> 0]
    /\ mayBlock = [s \in Senders |-> FALSE]
    /\ tmp = [s \in Senders |-> {}]
    /\ accepted = [s \in Senders |-> 0]
    /\ qSend = <<>> /\ qRecv = <<>>
    /\ txHasEnded = TRUE
    /\ c2 = Bits
    /\ dreg = None /\ shift = None
    /\ out = [s \in Senders |-> 0]
    /\ rdr = None /\ arrivals = 0
    /\ rpc = [r \in Readers |-> "idle"]
    /\ want = [r \in Readers |-> 0] /\ got = [r \in Readers |-> 0]
    /\ rBlock = [r \in Readers |-> FALSE]
    /\ lastRead = 0
    /\ cpc = "idle" /\ ctmp = {}
    /\ clobbered = FALSE

Goto(s, from, to) == pc[s] = from /\ pc' = [pc EXCEPT ![s] = to]

\* The loop test of efHal_uart_send.
NextByte(s) == IF left[s] = 0 THEN "idle" ELSE "put"

-----------------------------------------------------------------------------
Send(s, n, forever) ==
    /\ Goto(s, "idle", "put")
    /\ left' = [left EXCEPT ![s] = n]
    /\ mayBlock' = [mayBlock EXCEPT ![s] = forever]
    /\ UNCHANGED <<tmp, accepted, qSend, qRecv, txHasEnded, c2, lineVars, rdr,
                   arrivals, recvVars, confVars, clobbered>>

\* Slips the runs are tried with: the queue has no limit; the result of
\* xQueueSend is not looked at.
PutUnlimited(s) ==
    /\ Goto(s, "put", "check")
    /\ qSend' = Append(qSend, <<s, accepted[s]>>)
    /\ accepted' = [accepted EXCEPT ![s] = (@ + 1) % Tags]
    /\ left' = [left EXCEPT ![s] = @ - 1]
    /\ UNCHANGED <<mayBlock, tmp, qRecv, txHasEnded, c2, lineVars, rdr,
                   arrivals, recvVars, confVars, clobbered>>

PutDropping(s) ==
    /\ Goto(s, "put", "check")
    /\ qSend' = IF Len(qSend) < SendLength THEN Append(qSend, <<s, accepted[s]>>) ELSE qSend
    /\ accepted' = [accepted EXCEPT ![s] = (@ + 1) % Tags]
    /\ left' = [left EXCEPT ![s] = @ - 1]
    /\ UNCHANGED <<mayBlock, tmp, qRecv, txHasEnded, c2, lineVars, rdr,
                   arrivals, recvVars, confVars, clobbered>>

\* xQueueSend finds room, at once or after having waited for it.
Put(s) ==
    /\ Goto(s, "put", "check")
    /\ Len(qSend) < SendLength
    /\ qSend' = Append(qSend, <<s, accepted[s]>>)
    /\ accepted' = [accepted EXCEPT ![s] = (@ + 1) % Tags]
    /\ left' = [left EXCEPT ![s] = @ - 1]
    /\ UNCHANGED <<mayBlock, tmp, qRecv, txHasEnded, c2, lineVars, rdr,
                   arrivals, recvVars, confVars, clobbered>>

\* blockTime passes with the queue full: send returns what it has queued.
PutTimeout(s) ==
    /\ Goto(s, "put", "idle")
    /\ ~mayBlock[s]
    /\ Len(qSend) = SendLength
    /\ left' = [left EXCEPT ![s] = 0]
    /\ UNCHANGED <<mayBlock, tmp, accepted, qSend, qRecv, txHasEnded, c2,
                   lineVars, rdr, arrivals, recvVars, confVars, clobbered>>

CheckEnded(s) ==
    /\ Goto(s, "check", IF txHasEnded THEN "claim" ELSE NextByte(s))
    /\ UNCHANGED <<left, mayBlock, tmp, accepted, qSend, qRecv, txHasEnded, c2,
                   lineVars, rdr, arrivals, recvVars, confVars, clobbered>>

ClaimTx(s) ==
    /\ Goto(s, "claim", "readC2")
    /\ txHasEnded' = FALSE
    /\ UNCHANGED <<left, mayBlock, tmp, accepted, qSend, qRecv, c2, lineVars,
                   rdr, arrivals, recvVars, confVars, clobbered>>

(***************************************************************************)
(* dataReadyTx: UART_EnableInterrupts(TIE), a load of C2 and a store.      *)
(***************************************************************************)
ReadC2(s) ==
    /\ Goto(s, "readC2", "writeC2")
    /\ tmp' = [tmp EXCEPT ![s] = c2]
    /\ UNCHANGED <<left, mayBlock, accepted, qSend, qRecv, txHasEnded, c2,
                   lineVars, rdr, arrivals, recvVars, confVars, clobbered>>

WriteC2(s) ==
    /\ Goto(s, "writeC2", NextByte(s))
    /\ c2' = tmp[s] \cup {"TIE"}
    /\ clobbered' = (clobbered \/ "TE" \in c2 \ tmp[s])
    /\ tmp' = [tmp EXCEPT ![s] = {}]
    /\ UNCHANGED <<left, mayBlock, accepted, qSend, qRecv, txHasEnded,
                   lineVars, rdr, arrivals, recvVars, confVars>>

-----------------------------------------------------------------------------
(***************************************************************************)
(* UART1_IRQHandler, in its three parts.  The transmit part loops while    *)
(* the data register is empty: a byte written when the shift register is   *)
(* idle may fall straight through, and the loop then goes round again.     *)
(***************************************************************************)
RxPending == rdr # None /\ "RIE" \in c2
TxPending == dreg = None /\ "TIE" \in c2
TcPending == dreg = None /\ shift = None /\ "TCIE" \in c2

\* A slip the runs are tried with: the byte goes to the front of the queue.
RxPartFront ==
    IF RxPending
    THEN /\ rdr' = None
         /\ qRecv' = IF Len(qRecv) < RecvLength THEN <<rdr>> \o qRecv ELSE qRecv
    ELSE UNCHANGED <<rdr, qRecv>>

\* putDataForRx: a byte that finds the queue full is dropped.
RxPart ==
    IF RxPending
    THEN /\ rdr' = None
         /\ qRecv' = IF Len(qRecv) < RecvLength THEN Append(qRecv, rdr) ELSE qRecv
    ELSE UNCHANGED <<rdr, qRecv>>

\* A slip the runs are tried with: the empty queue is not announced.
TxEndedKept == txHasEnded' = txHasEnded

\* getDataForTx on an empty queue.
TxEnded == txHasEnded' = TRUE

TxPart ==
    \/ ~TxPending /\ UNCHANGED <<qSend, dreg, shift, txHasEnded>>
    \/ TxPending /\ qSend = <<>> /\ TxEnded /\ UNCHANGED <<qSend, dreg, shift>>
    \/ /\ TxPending /\ qSend # <<>>
       /\ dreg' = Head(qSend) /\ qSend' = Tail(qSend)
       /\ UNCHANGED <<shift, txHasEnded>>
    \/ /\ TxPending /\ qSend # <<>> /\ shift = None /\ "TE" \in c2
       /\ shift' = Head(qSend)
       /\ IF Len(qSend) = 1
          THEN TxEnded /\ qSend' = <<>> /\ UNCHANGED dreg
          ELSE /\ dreg' = qSend[2] /\ qSend' = Tail(Tail(qSend))
               /\ UNCHANGED txHasEnded

Irq ==
    /\ RxPending \/ TxPending \/ TcPending
    /\ RxPart /\ TxPart
    /\ c2' = c2 \ ((IF TxPending /\ dreg' = None THEN {"TIE"} ELSE {}) \cup
                   (IF dreg' = None /\ shift' = None THEN {"TCIE"} ELSE {}))
    /\ UNCHANGED <<sendVars, out, arrivals, recvVars, confVars, clobbered>>

\* The controller: the transmitter moves bytes only while TE is set.
LoadShift ==
    /\ dreg # None /\ shift = None /\ "TE" \in c2
    /\ shift' = dreg /\ dreg' = None
    /\ UNCHANGED <<sendVars, qSend, qRecv, txHasEnded, c2, out, rdr, arrivals,
                   recvVars, confVars, clobbered>>

ByteOut ==
    /\ shift # None
    /\ shift' = None
    /\ out' = [out EXCEPT ![shift[1]] = (@ + 1) % Tags]
    /\ UNCHANGED <<sendVars, qSend, qRecv, txHasEnded, c2, dreg, rdr, arrivals,
                   recvVars, confVars, clobbered>>

\* A byte that arrives with the receiver off or its register full is lost.
Arrive ==
    /\ arrivals < MaxArrivals
    /\ arrivals' = arrivals + 1
    /\ rdr' = IF rdr = None /\ "RE" \in c2 THEN arrivals' ELSE rdr
    /\ UNCHANGED <<sendVars, qSend, qRecv, txHasEnded, c2, lineVars, recvVars,
                   confVars, clobbered>>

-----------------------------------------------------------------------------
\* efHal_uart_recv: only the first byte is waited for.
Recv(r, n, forever) ==
    /\ rpc[r] = "idle"
    /\ rpc' = [rpc EXCEPT ![r] = "recv"]
    /\ want' = [want EXCEPT ![r] = n]
    /\ got' = [got EXCEPT ![r] = 0]
    /\ rBlock' = [rBlock EXCEPT ![r] = forever]
    /\ UNCHANGED <<sendVars, qSend, qRecv, txHasEnded, c2, lineVars, rdr,
                   arrivals, lastRead, confVars, clobbered>>

\* A slip the runs are tried with: every byte is waited for.
ReceiveBlocking(r) ==
    /\ rpc[r] = "recv"
    /\ qRecv # <<>>
    /\ qRecv' = Tail(qRecv)
    /\ lastRead' = Head(qRecv)
    /\ got' = [got EXCEPT ![r] = @ + 1]
    /\ rpc' = [rpc EXCEPT ![r] = IF got'[r] < want[r] THEN "recv" ELSE "idle"]
    /\ UNCHANGED <<sendVars, qSend, txHasEnded, c2, lineVars, rdr, arrivals,
                   want, rBlock, confVars, clobbered>>

Receive(r) ==
    /\ rpc[r] = "recv"
    /\ qRecv # <<>>
    /\ qRecv' = Tail(qRecv)
    /\ lastRead' = Head(qRecv)
    /\ got' = [got EXCEPT ![r] = @ + 1]
    /\ rBlock' = [rBlock EXCEPT ![r] = FALSE]
    /\ rpc' = [rpc EXCEPT ![r] = IF got'[r] < want[r] THEN "recv" ELSE "idle"]
    /\ UNCHANGED <<sendVars, qSend, txHasEnded, c2, lineVars, rdr, arrivals,
                   want, confVars, clobbered>>

RecvEmpty(r) ==
    /\ rpc[r] = "recv"
    /\ qRecv = <<>> /\ ~rBlock[r]
    /\ rpc' = [rpc EXCEPT ![r] = "idle"]
    /\ UNCHANGED <<sendVars, qSend, qRecv, txHasEnded, c2, lineVars, rdr,
                   arrivals, want, got, rBlock, lastRead, confVars, clobbered>>

(***************************************************************************)
(* efHal_uart_conf: UART_Init turns the transmitter and the receiver off,  *)
(* sets the baud rate, and turns them on again, each time by a load and a  *)
(* store of C2.                                                            *)
(***************************************************************************)
Conf ==
    /\ Reconfigured
    /\ cpc = "idle"
    /\ cpc' = "write1" /\ ctmp' = c2
    /\ UNCHANGED <<sendVars, qSend, qRecv, txHasEnded, c2, lineVars, rdr,
                   arrivals, recvVars, clobbered>>

\* A store of C2 by the reconfiguring task; it may undo a TIE set meanwhile.
ConfStore(bits) ==
    /\ c2' = bits
    /\ clobbered' = (clobbered \/ "TIE" \in c2 \ ctmp)
    /\ ctmp' = {}
    /\ UNCHANGED <<sendVars, qSend, qRecv, txHasEnded, lineVars, rdr, arrivals, recvVars>>

ConfOff == cpc = "write1" /\ cpc' = "read2" /\ ConfStore(ctmp \ {"TE", "RE"})

ConfRead ==
    /\ cpc = "read2"
    /\ cpc' = "write2" /\ ctmp' = c2
    /\ UNCHANGED <<sendVars, qSend, qRecv, txHasEnded, c2, lineVars, rdr,
                   arrivals, recvVars, clobbered>>

ConfOn == cpc = "write2" /\ cpc' = "idle" /\ ConfStore(ctmp \cup {"TE", "RE"})

-----------------------------------------------------------------------------
RunSender(s) ==
    \/ Put(s) \/ PutTimeout(s) \/ CheckEnded(s) \/ ClaimTx(s) \/ ReadC2(s) \/ WriteC2(s)

RunReader(r) == Receive(r) \/ RecvEmpty(r)

RunConf == ConfOff \/ ConfRead \/ ConfOn

Line == LoadShift \/ ByteOut

Next ==
    \/ \E s \in Senders, n \in Sizes, forever \in Waits : Send(s, n, forever)
    \/ \E s \in Senders : RunSender(s)
    \/ \E r \in Readers, n \in Sizes, forever \in Waits : Recv(r, n, forever)
    \/ \E r \in Readers : RunReader(r)
    \/ Conf \/ RunConf
    \/ Irq \/ Line \/ Arrive

(***************************************************************************)
(* Tasks that are ready run, a pending interrupt is taken, and the line    *)
(* moves.  Nobody has to call, and no byte has to arrive.                  *)
(***************************************************************************)
Fairness ==
    /\ \A s \in Senders : WF_vars(RunSender(s))
    /\ \A r \in Readers : WF_vars(RunReader(r))
    /\ WF_vars(RunConf) /\ WF_vars(Irq) /\ WF_vars(Line)

SafeSpec == Init /\ [][Next]_vars
Spec == SafeSpec /\ Fairness

-----------------------------------------------------------------------------
(***************************************************************************)
(* The transmitter never stalls: a queued byte with the transmit interrupt *)
(* off has a sender on its way to turn it on.  The one exception is a      *)
(* reconfiguration whose store of C2 overlapped a sender's.                *)
(***************************************************************************)
NoStall ==
    qSend # <<>> /\ "TIE" \notin c2 =>
        clobbered \/ \E s \in Senders : pc[s] \in Handing

\* The bytes on their way out, oldest first, and where those of sender s are.
Held(reg) == IF reg = None THEN <<>> ELSE <<reg>>
UnderWay == Held(shift) \o Held(dreg) \o qSend

Places(q, s) == {k \in 1 .. Len(q) : q[k][1] = s}

\* The bytes of s in q bear the numbers from first on; next is the one after.
Numbered(q, s, first, next) ==
    /\ Places(q, s) = {} => next = first
    /\ \A k \in Places(q, s) :
          /\ (\A l \in Places(q, s) : k <= l) => q[k][2] = first
          /\ (\A l \in Places(q, s) : l <= k) => next = (q[k][2] + 1) % Tags
          /\ \A m \in Places(q, s) :
                k < m /\ (\A l \in Places(q, s) : l <= k \/ m <= l) =>
                    q[m][2] = (q[k][2] + 1) % Tags

(***************************************************************************)
(* Every byte a send call has counted leaves exactly once and in order:    *)
(* what is on its way continues, without a gap or a repetition, from the   *)
(* last byte that left to the last one accepted.  (Needs Tags greater than *)
(* SendLength + 2, so that no two bytes under way share a number.)         *)
(***************************************************************************)
Conserved == \A s \in Senders : Numbered(UnderWay, s, out[s], accepted[s])

(***************************************************************************)
(* Bytes received are handed to the application in the order in which they *)
(* arrived and at most once, whatever is dropped in between.               *)
(***************************************************************************)
RecvInOrder ==
    LET coming == qRecv \o Held(rdr) IN
    \A i \in 1 .. Len(coming) :
        coming[i] > (IF i = 1 THEN lastRead ELSE coming[i - 1])

(***************************************************************************)
(* Without a reconfiguration, the bytes of a sender keep leaving as long   *)
(* as there are any: none is left behind in a queue nobody empties.        *)
(***************************************************************************)
Sent ==
    \A s \in Senders :
        <>[](Places(UnderWay, s) # {}) => []<><<out'[s] # out[s]>>_vars

(***************************************************************************)
(* A reader that waits returns once a byte is there for it: it neither     *)
(* misses the byte nor waits for the rest of what it asked for.            *)
(***************************************************************************)
ReaderServed ==
    \A r \in Readers : (rpc[r] = "recv" /\ qRecv # <<>>) ~> (rpc[r] = "idle")
=============================================================================
