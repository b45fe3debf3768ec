--------------------------------- MODULE I825x ---------------------------------
(***************************************************************************)
(* The network card and its driver (kernel/i825x.cpp): the receive and     *)
(* transmit rings that the driver shares with the card's DMA engine.       *)
(*                                                                         *)
(* Frames are numbers, in the order in which they come.  The driver is one *)
(* thread; the frame handler that do_process_packets calls (ppf) may send  *)
(* a frame itself.  The card acts between any two steps.                   *)
(***************************************************************************)
EXTENDS Naturals, FiniteSets, SequencesExt

CONSTANTS
    NumRx, NumTx,   \* num_rx_descriptors, num_tx_descriptors
    MaxHalts,       \* halts in do_send_packet before it gives up
    MaxFrames,      \* frames on the wire, in each direction
    MaxBatch,       \* max_packets of do_process_packets
    NoFrame

ASSUME RingAssumption == NumRx \in Nat /\ NumRx >= 2 /\ NumTx \in Nat /\ NumTx >= 2
ASSUME BoundAssumption ==
    /\ MaxHalts \in Nat /\ MaxFrames \in Nat /\ MaxBatch \in Nat \ {0}
    /\ NoFrame \notin Nat

VARIABLES
    \* receive
    rdh, rdt,       \* RDH0, RDT0
    rxStatus,       \* RXD_STAT_DD of each descriptor
    rxBuffer,       \* rx_buffer_
    rxErrors,       \* errors of each descriptor
    rx_head,        \* rx_head_
    rxpc, batch,    \* where do_process_packets is, packets left
    arrived, stored, handled,  \* history: frames that came, the good ones the
                               \* card stored, those given to ppf
    \* transmit
    tdh, tdt, txStatus, tx_tail,
    txpc, td, halts,   \* where do_send_packet is, its descriptor, halts left
    data,              \* the caller's buffer, which every send reuses
    sent, onWire,      \* history: frames given to the card, frames it sent
    timedOut,          \* history: a send has timed out
    panic              \* the REQUIRE that failed, or "no"

rxHardware == <<rdh, rxStatus, rxBuffer, rxErrors, arrived, stored>>
rxVars == <<rdh, rdt, rxStatus, rxBuffer, rxErrors, rx_head, rxpc, batch, arrived, stored, handled>>
txVars == <<tdh, tdt, txStatus, tx_tail, txpc, td, halts, data, sent, onWire, timedOut>>
vars == <<rxVars, txVars, panic>>

\* Mutants: an index that does not wrap, one that does not advance.
NextTxUnwrapped(i) == i + 1
NextRxSame(i) == i

NextTx(i) == (i + 1) % NumTx
NextRx(i) == (i + 1) % NumRx

\* reset
Init ==
    /\ rdh = 0 /\ rdt = NumRx - 1
    /\ rxStatus = [i \in 0 .. NumRx - 1 |-> FALSE]
    /\ rxBuffer = [i \in 0 .. NumRx - 1 |-> NoFrame]
    /\ rxErrors = [i \in 0 .. NumRx - 1 |-> FALSE]
    /\ rx_head = 0 /\ rxpc = "idle" /\ batch = 0
    /\ arrived = 0 /\ stored = <<>> /\ handled = <<>>
    /\ tdh = 0 /\ tdt = 0 /\ tx_tail = 0
    /\ txStatus = [i \in 0 .. NumTx - 1 |-> FALSE]
    /\ txpc = "idle" /\ td = 0 /\ halts = 0
    /\ data = NoFrame /\ sent = <<>> /\ onWire = <<>> /\ timedOut = FALSE
    /\ panic = "no"

-------------------------------------------------------------------------------
(* The card: it owns the descriptors from the head up to the tail.         *)

CardReceives(errors) ==
    /\ arrived < MaxFrames
    /\ arrived' = arrived + 1
    /\ \/ /\ rdh # rdt
          /\ rxBuffer' = [rxBuffer EXCEPT ![rdh] = arrived + 1]
          /\ rxStatus' = [rxStatus EXCEPT ![rdh] = TRUE]
          /\ rxErrors' = [rxErrors EXCEPT ![rdh] = errors]
          /\ rdh' = (rdh + 1) % NumRx
          /\ stored' = IF errors THEN stored ELSE Append(stored, arrived + 1)
       \/ /\ rdh = rdt   \* no room: the frame is missed
          /\ UNCHANGED <<rxBuffer, rxStatus, rxErrors, rdh, stored>>
    /\ UNCHANGED <<rdt, rx_head, rxpc, batch, handled, txVars, panic>>

\* The frame is read from the caller's buffer when it is sent.
CardSends ==
    /\ tdh # tdt
    /\ onWire' = Append(onWire, data)
    /\ txStatus' = [txStatus EXCEPT ![tdh] = TRUE]
    /\ tdh' = (tdh + 1) % NumTx
    /\ UNCHANGED <<rxVars, tdt, tx_tail, txpc, td, halts, data, sent, timedOut, panic>>

-------------------------------------------------------------------------------
(* do_process_packets                                                      *)

RxTurn == panic = "no" /\ txpc = "idle"

ProcessPackets(n) ==
    /\ RxTurn /\ rxpc = "idle"
    /\ rxpc' = "test" /\ batch' = n
    /\ UNCHANGED <<rxHardware, rdt, rx_head, handled, txVars, panic>>

RxTest ==
    /\ RxTurn /\ rxpc = "test"
    /\ rxpc' = IF batch = 0 \/ ~rxStatus[rx_head] THEN "idle"
               ELSE IF rxErrors[rx_head] THEN "clear" ELSE "ppf"
    /\ UNCHANGED <<rxHardware, rdt, rx_head, batch, handled, txVars, panic>>

\* ppf returns; what it saw is what is in the buffer until then.
RxHandled ==
    /\ RxTurn /\ rxpc = "ppf"
    /\ handled' = Append(handled, rxBuffer[rx_head])
    /\ rxpc' = "clear"
    /\ UNCHANGED <<rxHardware, rdt, rx_head, batch, txVars, panic>>

\* Mutant: the descriptor still says that it holds a frame.
RxKeepStatus ==
    /\ RxTurn /\ rxpc = "clear"
    /\ rxpc' = "release"
    /\ UNCHANGED <<rxHardware, rdt, rx_head, batch, handled, txVars, panic>>

\* rd.status = 0
RxClear ==
    /\ RxTurn /\ rxpc = "clear"
    /\ rxStatus' = [rxStatus EXCEPT ![rx_head] = FALSE]
    /\ rxpc' = "release"
    /\ UNCHANGED <<rdh, rdt, rxBuffer, rxErrors, rx_head, batch, arrived, stored, handled, txVars, panic>>

\* Mutant: the descriptor before the one that was read is the new end of the
\* card's part of the ring.
ReleasedTooLittle == (rx_head + NumRx - 1) % NumRx

\* What is written to RDT0.
Released == rx_head

RxRelease ==
    /\ RxTurn /\ rxpc = "release"
    /\ rdt' = Released
    /\ rx_head' = NextRx(rx_head)
    /\ batch' = batch - 1
    /\ rxpc' = "test"
    /\ UNCHANGED <<rxHardware, handled, txVars, panic>>

-------------------------------------------------------------------------------
(* do_send_packet                                                          *)

TxTurn == panic = "no" /\ rxpc \in {"idle", "ppf"}

\* The link is down: the frame is dropped, and nothing changes.  Otherwise a
\* descriptor is prepared and handed over.
Send ==
    /\ TxTurn /\ txpc = "idle"
    /\ Len(sent) < MaxFrames
    /\ tx_tail' = NextTx(tx_tail)
    /\ IF txStatus[tx_tail]
       THEN /\ panic' = "descriptor in use"
            /\ UNCHANGED <<tdt, txpc, td, halts, data, sent>>
       ELSE /\ data' = Len(sent) + 1
            /\ sent' = Append(sent, Len(sent) + 1)
            /\ td' = tx_tail
            /\ tdt' = NextTx(tx_tail)
            /\ halts' = MaxHalts
            /\ txpc' = "test"
            /\ UNCHANGED panic
    /\ UNCHANGED <<rxVars, tdh, txStatus, onWire, timedOut>>

\* Mutant: the descriptor is not marked for reuse.
LeaveStatus == txStatus

\* td.upper.data = 0
ClearStatus == [txStatus EXCEPT ![td] = FALSE]

\* Mutant: the wait for the card is left out.
TxNoWait ==
    /\ TxTurn /\ txpc = "test"
    /\ txpc' = "idle"
    /\ UNCHANGED <<rxVars, tdh, tdt, txStatus, tx_tail, td, halts, data, sent, onWire, timedOut, panic>>

\* The loop's test; behind the loop the descriptor is cleared for reuse.
TxTest ==
    /\ TxTurn /\ txpc = "test"
    /\ IF ~txStatus[td]
       THEN txpc' = "halt" /\ UNCHANGED <<txStatus, panic>>
       ELSE /\ txStatus' = ClearStatus
            /\ txpc' = "idle"
            /\ panic' = IF tdh = tdt THEN "no" ELSE "head is not tail"
    /\ UNCHANGED <<rxVars, tdh, tdt, tx_tail, td, halts, data, sent, onWire, timedOut>>

\* Mutant: interrupts are disabled while the driver waits.
NoWake == FALSE

\* An interrupt ends the halt.  The last one ends the wait without another
\* look at the descriptor.
TxWake ==
    /\ TxTurn /\ txpc = "halt"
    /\ \/ /\ halts > 0
          /\ halts' = halts - 1
          /\ txpc' = "test"
          /\ UNCHANGED timedOut
       \/ /\ halts = 0
          /\ timedOut' = TRUE
          /\ txpc' = "idle"
          /\ UNCHANGED halts
    /\ UNCHANGED <<rxVars, tdh, tdt, txStatus, tx_tail, td, data, sent, onWire, panic>>

Driver == RxTest \/ RxHandled \/ RxClear \/ RxRelease \/ Send \/ TxTest \/ TxWake

Next ==
    \/ \E errors \in BOOLEAN : CardReceives(errors)
    \/ CardSends
    \/ \E n \in 1 .. MaxBatch : ProcessPackets(n)
    \/ Driver

\* The card sends what it is given, and the driver goes on; the timer ends
\* every halt.
Fairness ==
    /\ WF_vars(CardSends)
    /\ WF_vars(RxTest \/ RxHandled \/ RxClear \/ RxRelease \/ TxTest \/ TxWake)
    /\ WF_vars(ProcessPackets(MaxBatch))

Spec == Init /\ [][Next]_vars
FairSpec == Spec /\ Fairness

-------------------------------------------------------------------------------
(* Properties.                                                             *)

RxIndices == 0 .. NumRx - 1
TxIndices == 0 .. NumTx - 1

\* What a buffer can hold.
Frames == Nat \cup {NoFrame}

\* The shape of the state.
TypeOK ==
    /\ rdh \in RxIndices /\ rdt \in RxIndices /\ rx_head \in RxIndices
    /\ rxStatus \in [RxIndices -> BOOLEAN] /\ rxErrors \in [RxIndices -> BOOLEAN]
    /\ rxBuffer \in [RxIndices -> Frames]
    /\ rxpc \in {"idle", "test", "ppf", "clear", "release"} /\ batch \in 0 .. MaxBatch
    /\ arrived \in Nat /\ stored \in Seq(Frames) /\ handled \in Seq(Frames)
    /\ tdh \in TxIndices /\ tdt \in TxIndices /\ tx_tail \in TxIndices /\ td \in TxIndices
    /\ txStatus \in [TxIndices -> BOOLEAN]
    /\ txpc \in {"idle", "test", "halt"} /\ halts \in 0 .. MaxHalts
    /\ timedOut \in BOOLEAN /\ data \in Frames /\ sent \in Seq(Frames) /\ onWire \in Seq(Frames)
    /\ panic \in {"no", "descriptor in use", "head is not tail"}

\* How many places a descriptor is behind the driver's head.
Behind(i) == IF i >= rx_head THEN i - rx_head ELSE i + NumRx - rx_head

\* Whose part of the receive ring a descriptor is in: RDT0 is always just behind
\* the driver's head, the filled descriptors lie between that head and the
\* card's, and the one at hand in do_process_packets is one of them.
RxRing ==
    /\ rx_head = NextRx(rdt)
    /\ \A i \in RxIndices :
          rxStatus[i] <=> Behind(i) < Behind(rdh) /\ ~(i = rx_head /\ rxpc = "release")
    /\ rxpc \in {"ppf", "clear", "release"} => rdh # rx_head /\ batch > 0
    /\ rxpc = "ppf" => ~rxErrors[rx_head]

\* The descriptors with a good frame that ppf has not seen, and the place that
\* the frame has among those the card stored, if the ring keeps their order.
Waiting == {i \in RxIndices : rxStatus[i] /\ ~rxErrors[i] /\ ~(i = rx_head /\ rxpc = "clear")}
Ahead(i) == {j \in Waiting : Behind(j) < Behind(i)}
Place(i) == Len(handled) + Cardinality(Ahead(i)) + 1

\* Every good frame the card stored reaches ppf once, in order and intact:
\* the card never writes a descriptor the driver has not released
\* (do_process_packets, RDT0).
RxInOrder ==
    /\ IsPrefix(handled, stored)
    /\ Len(stored) = Len(handled) + Cardinality(Waiting)
    /\ \A i \in Waiting : rxBuffer[i] = stored[Place(i)]

\* The card misses a frame only when NumRx - 1 descriptors hold frames or
\* are being released: none leaks from the ring.
RxNoLeak ==
    rdh = rdt => Cardinality({i \in RxIndices : rxStatus[i] \/ (i = rx_head /\ rxpc = "release")})
                   = NumRx - 1

\* A send waits for the last descriptor of the card's part of the ring; when
\* that one is done the card is idle.
TxRing ==
    /\ panic = "no" => tdt = tx_tail
    /\ txpc # "idle" => tdt = NextTx(td) /\ (txStatus[td] => tdh = tdt)

\* Unless a send has timed out, at most its own frame is still to be sent.
TxOneAtATime ==
    ~timedOut =>
        /\ \A i \in TxIndices : txStatus[i] => txpc # "idle" /\ i = td /\ tdh = tdt
        /\ IF tdh = tdt THEN onWire = sent
           ELSE txpc # "idle" /\ tdh = td /\ sent = Append(onWire, data)

\* Frames go out whole, once and in order, although every send reuses the
\* caller's buffer (do_send_packet waits for the card).
WireIntact == ~timedOut => IsPrefix(onWire, sent)

\* The descriptor a send takes is free and the card is idle after it (the
\* REQUIREs of do_send_packet), unless a send has timed out before.
TxSound == panic # "no" => timedOut /\ panic = "descriptor in use"

\* do_send_packet returns.
SendReturns == txpc # "idle" ~> txpc = "idle" \/ panic # "no"

\* Frames in the ring are handled in the end.
RxDrained == <>[](Waiting = {} \/ panic # "no")

\* Receiving, with the card at work between any two steps of the driver:
\* frames in order and whole, and no descriptor lost (do_process_packets).
ReceivesSound == TypeOK /\ RxRing /\ RxInOrder /\ RxNoLeak

\* Sending: frames whole and in order, and no REQUIRE of do_send_packet fails,
\* unless a send has timed out.
SendsSound == TxRing /\ TxOneAtATime /\ WireIntact /\ TxSound

\* Both rings keep moving: a send returns although the card may never answer,
\* and no received frame stays in the ring (do_send_packet,
\* do_process_packets).
RingsMove == SendReturns /\ RxDrained
================================================================================
