------------------------- MODULE TCPTransferProofs -------------------------
(***************************************************************************)
(* For every stream, window, capacity and timeout, and whatever the        *)
(* network loses, repeats and reorders: what the sender takes for          *)
(* acknowledged has been received, what is received has been sent, both    *)
(* ends agree on when the stream is over, and the connection is a reliable *)
(* pipe from the application that writes to the one that reads.            *)
(*                                                                         *)
(* The sender's part of every step is a step of TCPSenderSpec, so HostInv  *)
(* holds here too, and so does Holds of the receiver, with the numbers the *)
(* sender has used.  What ties the two ends together is that every segment *)
(* on its way is the stream's own (OnWire), and that every acknowledgment  *)
(* on its way names a number the receiver had reached and has not gone     *)
(* back from.                                                              *)
(***************************************************************************)
EXTENDS TCPTransfer, TCPSenderProofs, TCPReceiverProofs

Sending == HostInv /\ \A seg \in data_net : OnWire(seg, next_seqno)

Receiving == Holds(reassembler, receiver_isn, SenderISN, next_seqno)

\* An acknowledgment the receiver can have sent when it had come to upto.
Reachable(ack, upto) ==
    /\ ack \in [ackno : WrappingInt32, window : 0..Capacity]
    /\ \E a \in 1..upto : ack.ackno = wrap(a, SenderISN)

Acknowledging ==
    /\ \A ack \in ack_net : Reachable(ack, received_upto)
    /\ receiver_ack <= received_upto

Reading == ReadSoFar(consumed, reassembler)

TransferInv == Sending /\ Receiving /\ Acknowledging /\ Reading

-----------------------------------------------------------------------------
\* The constants of both ends.
LEMMA Sizes ==
    /\ N \in Nat /\ HalfSeq \in Nat /\ N + 2 < HalfSeq
    /\ SenderISN \in WrappingInt32 /\ SenderISN # nullopt
    /\ Capacity \in Nat \ {0} /\ Capacity <= MaxWindow /\ MaxWindow \in Nat
    /\ AbsMod \in Nat /\ N + 2 < AbsMod
<1>1. /\ N \in Nat /\ Capacity \in Nat \ {0} /\ HalfSeq \in Nat
      /\ AbsMod \in Nat /\ N + HalfSeq + 2 < HalfAbs /\ AbsMod = 2 * HalfAbs /\ HalfAbs \in Nat
  BY Widths
<1>2. SenderISN \in WrappingInt32 /\ SenderISN # nullopt
  BY SenderAssumption, SeqModAssumption DEF WrappingInt32, nullopt
<1>3. N + 2 < HalfSeq /\ Capacity <= MaxWindow /\ MaxWindow \in Nat
  BY TransferAssumption, SenderSpecAssumption
<1>4. N + 2 < AbsMod
  BY <1>1
<1> QED
  BY <1>1, <1>2, <1>3, <1>4

\* The receiver has reached no further than the sender has gone.
Upto ==
    /\ received_upto \in Nat /\ received_upto <= next_seqno
    /\ receiver_isn = nullopt => received_upto = 0
    /\ receiver_isn # nullopt =>
           received_upto = abs_ackno(reassembler) /\ received_upto >= 1

\* The invariant says so.
LEMMA UptoIs == next_seqno \in Nat /\ Receiving => Upto
<1> SUFFICES ASSUME next_seqno \in Nat, Receiving PROVE Upto
  OBVIOUS
<1>1. receiver_isn # nullopt => abs_ackno(reassembler) \in 1..next_seqno
  BY HoldsEdge, Zenon DEF Receiving
<1> QED
  BY <1>1 DEF received_upto, Upto

LEMMA UptoIsNext == (next_seqno \in Nat /\ Receiving)' => Upto'
BY UptoIs, PTL

-----------------------------------------------------------------------------
\* The steps of the sending host, and the network's.

\* A step that leaves the receiver alone, puts on the wire only what is the
\* stream's own, adds no acknowledgment, and takes for acknowledged no more
\* than the receiver has reached.
LEMMA HostKeeps ==
    ASSUME TransferInv, HostKept, UNCHANGED <<receiverVars, consumed>>,
           \A seg \in data_net' : seg \in data_net \/ OnWire(seg, next_seqno'),
           ack_net' \subseteq ack_net,
           receiver_ack' = receiver_ack \/ receiver_ack' <= received_upto
    PROVE  TransferInv'
<1>1. reassembler' = reassembler /\ receiver_isn' = receiver_isn /\ consumed' = consumed
  BY Zenon DEF receiverVars
<1>2. next_seqno \in Nat /\ next_seqno' \in Nat /\ next_seqno <= next_seqno' /\ HostInv'
  BY Zenon DEF HostKept
<1>3. Sending'
  <2>1. \A seg : OnWire(seg, next_seqno) => OnWire(seg, next_seqno')
    BY <1>2, OnWireLater
  <2> QED
    BY <1>2, <2>1, Zenon DEF TransferInv, Sending
<1>4. Receiving'
  <2>1. Holds(reassembler, receiver_isn, SenderISN, next_seqno')
    BY <1>2, HoldsLater, Zenon DEF TransferInv, Receiving
  <2> QED
    BY <1>1, <2>1, Zenon DEF Receiving
<1>5. Acknowledging' /\ Reading'
  BY <1>1, Zenon DEF TransferInv, Acknowledging, Reading, received_upto
<1> QED
  BY <1>3, <1>4, <1>5, Zenon DEF TransferInv

\* The application writes or closes, fill_window() runs, what waits in
\* _segments_out goes on its way, or time passes.
LEMMA SenderKeeps ==
    ASSUME TransferInv,
           \/ \E len \in 1..N : WriteIn(len)
           \/ CloseIn \/ FillIn \/ SendSegment
           \/ \E ms \in 1..MaxTick : TimePasses(ms)
    PROVE  TransferInv'
<1>1. HostInv /\ UNCHANGED <<receiverVars, consumed>> /\ ack_net' = ack_net
  BY Zenon DEF TransferInv, Sending, WriteIn, CloseIn, FillIn, SendSegment, TimePasses, networkVars
<1>2. CASE SendSegment
  <2>1. PopSegment /\ data_net' = data_net \cup {Head(segments_out)}
    BY <1>2, Zenon DEF SendSegment
  <2>2. HostKept /\ receiver_ack' = receiver_ack /\ OnWire(Head(segments_out), next_seqno')
    BY <1>1, <2>1, HostSends, Zenon
  <2> QED
    BY <1>1, <2>1, <2>2, HostKeeps, Zenon
<1>3. ASSUME HostKept, receiver_ack' = receiver_ack, data_net' = data_net PROVE TransferInv'
  BY <1>1, <1>3, HostKeeps, Zenon
<1>4. CASE CloseIn \/ \E len \in 1..N : WriteIn(len)
  <2>1. (EndInput \/ \E len \in 1..N : Write(len)) /\ data_net' = data_net
    BY <1>4, Zenon DEF CloseIn, WriteIn, networkVars
  <2> QED
    BY <1>1, <1>3, <2>1, HostWaits, Zenon
<1>5. CASE FillIn
  <2>1. fill_window /\ data_net' = data_net
    BY <1>5, Zenon DEF FillIn, FillWindow, FillWindowAgain, networkVars
  <2> QED
    BY <1>1, <1>3, <2>1, HostFills, Zenon
<1>6. ASSUME NEW ms \in 1..MaxTick, TimePasses(ms) PROVE TransferInv'
  <2>1. tick(ms) /\ data_net' = data_net
    BY <1>6, Zenon DEF TimePasses, Tick, networkVars
  <2>2. ms \in Nat
    BY SenderSpecAssumption
  <2> QED
    BY <1>1, <1>3, <2>1, <2>2, HostTicks, Zenon
<1> QED
  BY <1>2, <1>4, <1>5, <1>6, Zenon

\* The network loses a message, or nothing happens.
LEMMA LoseKeeps ==
    ASSUME TransferInv, Lose \/ UNCHANGED vars
    PROVE  TransferInv'
<1>1. /\ data_net' \subseteq data_net /\ ack_net' \subseteq ack_net
      /\ UNCHANGED senderVars /\ UNCHANGED <<receiverVars, consumed>>
  BY Zenon DEF Lose, vars
<1>2. HostKept /\ receiver_ack' = receiver_ack
  BY <1>1, HostWaits, Zenon DEF TransferInv, Sending
<1> QED
  BY <1>1, <1>2, HostKeeps, Zenon

\* An acknowledgment arrives, once or again, and is recovered as the number the
\* receiver meant.
LEMMA AckArrivesKeeps ==
    ASSUME TransferInv, NEW ack \in ack_net, NEW again \in BOOLEAN, AckArrives(ack, again)
    PROVE  TransferInv'
<1>1. /\ AckReceived(ack.ackno, ack.window) /\ ack_net' \subseteq ack_net /\ data_net' = data_net
      /\ UNCHANGED <<receiverVars, consumed>>
  BY Zenon DEF AckArrives
<1>2. HostInv /\ Receiving /\ Reachable(ack, received_upto) /\ next_seqno \in Nat
  BY Zenon DEF TransferInv, Sending, Acknowledging, HostInv, SenderInv, Types
<1>3. PICK a \in 1..received_upto : ack.ackno = wrap(a, SenderISN)
  BY <1>2, Zenon DEF Reachable
<1>4. received_upto \in Nat /\ received_upto <= next_seqno
  BY <1>2, UptoIs, Zenon DEF Upto
<1>5. a \in Nat /\ a <= next_seqno /\ a <= received_upto
  BY <1>2, <1>4
<1>6. ack.window \in 0..MaxWindow /\ N + 2 < HalfSeq
  <2>1. ack.window \in 0..Capacity
    BY <1>2 DEF Reachable
  <2> QED
    BY <2>1, Sizes
<1>7. AckReceived(wrap(a, SenderISN), ack.window)
  BY <1>1, <1>3, Zenon
<1>8. HostKept /\ receiver_ack' \in Nat /\ (receiver_ack' = receiver_ack \/ receiver_ack' <= a)
  BY <1>2, <1>5, <1>6, <1>7, HostAcks, Zenon
<1>9. receiver_ack' = receiver_ack \/ receiver_ack' <= received_upto
  BY <1>4, <1>5, <1>8
<1> QED
  BY <1>1, <1>8, <1>9, HostKeeps, Zenon

-----------------------------------------------------------------------------
\* The steps of the receiving host.

\* What segment_received() does with a segment the sender has made.
LEMMA ArrivalTaken ==
    ASSUME TransferInv, NEW seg \in data_net, segment_received(seg), UNCHANGED senderVars
    PROVE  /\ Receiving' /\ Grows(reassembler, reassembler')
           /\ reassembler'.output.read_bytes = reassembler.output.read_bytes
           /\ receiver_isn # nullopt => receiver_isn' # nullopt
<1>1. /\ OnWire(seg, next_seqno) /\ Holds(reassembler, receiver_isn, SenderISN, next_seqno)
      /\ next_seqno \in Nat /\ next_seqno' = next_seqno
  BY Zenon DEF TransferInv, Sending, Receiving, HostInv, SenderInv, Types, senderVars
<1>2. PICK a \in 0..(N + 2), b \in 0..(N + 2) :
          a < b /\ b <= next_seqno /\ seg = SegmentFrom(SenderISN, a, b)
  BY <1>1, Zenon DEF OnWire
<1>3. segment_received(SegmentFrom(SenderISN, a, b))
  BY <1>2, Zenon
<1>4. SenderISN \in WrappingInt32 /\ N + 2 < HalfSeq
  BY Sizes, Zenon
<1>5. /\ Holds(reassembler', receiver_isn', SenderISN, next_seqno)
      /\ Grows(reassembler, reassembler')
      /\ reassembler'.output.read_bytes = reassembler.output.read_bytes
      /\ receiver_isn # nullopt => receiver_isn' # nullopt
  BY <1>1, <1>2, <1>3, <1>4, SegmentTaken, Zenon
<1> QED
  BY <1>1, <1>5, Zenon DEF Receiving

\* The receiver never goes back.
LEMMA UptoGrows ==
    ASSUME Upto, Upto', Receiving, Receiving', Grows(reassembler, reassembler'),
           receiver_isn # nullopt => receiver_isn' # nullopt
    PROVE  /\ received_upto \in Nat /\ received_upto' \in Nat /\ received_upto <= received_upto'
           /\ \A ack : Reachable(ack, received_upto) => Reachable(ack, received_upto')
<1> DEFINE u == received_upto
           v == received_upto'
<1>1. /\ u \in Nat /\ (receiver_isn = nullopt => u = 0)
      /\ receiver_isn # nullopt => u = abs_ackno(reassembler)
      /\ v \in Nat /\ (receiver_isn' # nullopt => v = abs_ackno(reassembler'))
  BY Zenon DEF Upto
<1>2. abs_ackno(reassembler') >= abs_ackno(reassembler)
  BY EdgeGrows, Zenon DEF Receiving, Holds
<1> HIDE DEF u, v
<1>3. u <= v /\ \A x \in 1..u : x \in 1..v
  BY <1>1, <1>2
<1> QED
  BY <1>1, <1>3, Zenon DEF Reachable, u, v

\* What it answers names the number it has reached.
LEMMA NewAckReachable ==
    ASSUME Upto, next_seqno \in Nat, Receiving, receiver_isn # nullopt
    PROVE  Reachable([ackno |-> ackno, window |-> window_size(reassembler)], received_upto)
<1> DEFINE u == received_upto
<1>1. /\ u = abs_ackno(reassembler) /\ u \in Nat /\ u >= 1 /\ receiver_isn = SenderISN
      /\ window_size(reassembler) \in 0..Capacity
  BY HoldsEdge, Zenon DEF Upto, Receiving, Holds
<1>2. ackno = wrap(u, SenderISN)
  BY <1>1, Zenon DEF ackno
<1>3. wrap(u, SenderISN) \in WrappingInt32
  BY <1>1, Sizes, WrapIsMod, Zenon
<1> HIDE DEF u
<1>4. u \in 1..u
  BY <1>1
<1>5. /\ [ackno |-> ackno, window |-> window_size(reassembler)].ackno = wrap(u, SenderISN)
      /\ [ackno |-> ackno, window |-> window_size(reassembler)]
             \in [ackno : WrappingInt32, window : 0..Capacity]
  BY <1>1, <1>2, <1>3
<1> QED
  BY <1>4, <1>5, Zenon DEF Reachable, u

LEMMA NewAckReachableNext ==
    (Upto /\ next_seqno \in Nat /\ Receiving /\ receiver_isn # nullopt)'
        => Reachable([ackno |-> ackno, window |-> window_size(reassembler)], received_upto)'
<1>1. Upto /\ next_seqno \in Nat /\ Receiving /\ receiver_isn # nullopt
        => Reachable([ackno |-> ackno, window |-> window_size(reassembler)], received_upto)
  BY NewAckReachable, Zenon
<1> QED
  BY <1>1, PTL

\* A segment arrives, once or again, and is answered.
LEMMA SegmentArrivesKeeps ==
    ASSUME TransferInv, NEW seg \in data_net, NEW again \in BOOLEAN, SegmentArrives(seg, again)
    PROVE  TransferInv'
<1>1. /\ segment_received(seg) /\ data_net' \subseteq data_net /\ UNCHANGED senderVars
      /\ consumed' = consumed
      /\ \A ack \in ack_net' :
             \/ ack \in ack_net
             \/ receiver_isn' # nullopt /\ ack = [ackno |-> ackno, window |-> window_size(reassembler)]'
  BY Zenon DEF SegmentArrives
<1>2. /\ Receiving' /\ Grows(reassembler, reassembler')
      /\ reassembler'.output.read_bytes = reassembler.output.read_bytes
      /\ receiver_isn # nullopt => receiver_isn' # nullopt
  BY <1>1, ArrivalTaken, Zenon
<1>3. HostKept /\ receiver_ack' = receiver_ack /\ next_seqno' = next_seqno
  BY <1>1, HostWaits, Zenon DEF TransferInv, Sending
<1>4. next_seqno \in Nat /\ next_seqno' \in Nat /\ HostInv'
  BY <1>3, Zenon DEF HostKept
<1>5. Sending'
  BY <1>1, <1>3, <1>4, Zenon DEF TransferInv, Sending
<1>6. Upto /\ Upto'
  BY <1>2, <1>4, UptoIs, UptoIsNext, Zenon DEF TransferInv
<1>7. /\ received_upto \in Nat /\ received_upto' \in Nat /\ received_upto <= received_upto'
      /\ \A ack : Reachable(ack, received_upto) => Reachable(ack, received_upto')
  BY <1>2, <1>6, UptoGrows, Zenon DEF TransferInv
<1>8. receiver_isn' # nullopt =>
          Reachable([ackno |-> ackno, window |-> window_size(reassembler)], received_upto)'
  BY <1>2, <1>4, <1>6, NewAckReachableNext, Zenon
<1>9. \A ack \in ack_net' : Reachable(ack, received_upto')
  BY <1>1, <1>7, <1>8, Zenon DEF TransferInv, Acknowledging, Reachable
<1>10. receiver_ack' <= received_upto'
  <2>1. receiver_ack \in Nat /\ receiver_ack <= received_upto
    BY Zenon DEF TransferInv, Sending, HostInv, SenderInv, Types, Acknowledging
  <2> QED
    BY <1>3, <1>7, <2>1
<1>11. Reading'
  BY <1>1, <1>2, Zenon DEF TransferInv, Reading, ReadSoFar
<1> QED
  BY <1>2, <1>5, <1>9, <1>10, <1>11, Zenon DEF TransferInv, Acknowledging

\* The application reads.
LEMMA ReadOutKeeps ==
    ASSUME TransferInv, NEW len \in 1..Capacity, ReadOut(len)
    PROVE  TransferInv'
<1>1. /\ len <= Len(reassembler.output.buffer)
      /\ consumed' = consumed \o read_result(reassembler.output, len)
      /\ reassembler' = [reassembler EXCEPT !.output = read(@, len)]
      /\ receiver_isn' = receiver_isn /\ UNCHANGED senderVars
      /\ data_net' = data_net /\ ack_net' = ack_net
  BY Zenon DEF ReadOut, receiver_read, networkVars, buffer_size, out, stream_out
<1>2. HostKept /\ receiver_ack' = receiver_ack /\ next_seqno' = next_seqno
  BY <1>1, HostWaits, Zenon DEF TransferInv, Sending
<1>3. Sending'
  BY <1>1, <1>2, Zenon DEF TransferInv, Sending, HostKept
<1>4. len \in Nat
  BY Sizes
<1>5. /\ Holds(reassembler', receiver_isn, SenderISN, next_seqno)
      /\ ReadSoFar(consumed', reassembler') /\ abs_ackno(reassembler') = abs_ackno(reassembler)
  <2>1. /\ Holds(reassembler, receiver_isn, SenderISN, next_seqno)
        /\ ReadSoFar(consumed, reassembler)
    BY Zenon DEF TransferInv, Receiving, Reading
  <2>2. HasRead(reassembler, consumed, len, reassembler', consumed')
    BY <1>1, <1>4, Zenon DEF HasRead
  <2> QED
    BY <2>1, <2>2, ReadsOn, Zenon
<1>6. received_upto' = received_upto
  BY <1>1, <1>5, Zenon DEF received_upto
<1> QED
  BY <1>1, <1>2, <1>3, <1>5, <1>6, Zenon DEF TransferInv, Receiving, Reading, Acknowledging

-----------------------------------------------------------------------------
\* The constructors establish the invariant.
LEMMA InitKeeps ==
    ASSUME Init
    PROVE  TransferInv
<1>1. /\ SenderInit /\ receiver_isn = nullopt /\ reassembler = NewStreamReassembler(Capacity)
      /\ data_net = {} /\ ack_net = {} /\ consumed = <<>>
  BY Zenon DEF Init, ReceiverInit
<1>2. /\ consecutive_retransmissions = 0 /\ filling = FALSE /\ segments_out = <<>>
      /\ receiver_ack = 0 /\ SenderInv
  BY <1>1, InitInv, Zenon DEF SenderInit
<1>3. Sending
  <2>1. segments_out \in Seq(Seg) /\ (\A k \in 1..Len(segments_out) : FALSE) /\ 0 \in Nat
    BY <1>2
  <2> QED
    BY <1>1, <1>2, <2>1, Zenon DEF Sending, HostInv
<1>4. Receiving /\ reassembler.output.read_bytes = 0
  BY <1>1, HoldsNothing, Zenon DEF Receiving
<1>5. Acknowledging
  BY <1>1, <1>2 DEF Acknowledging, received_upto
<1>6. Reading
  BY <1>1, <1>4 DEF Reading, ReadSoFar
<1> QED
  BY <1>3, <1>4, <1>5, <1>6, Zenon DEF TransferInv

\* Every step keeps it.
LEMMA NextKeeps == TransferInv /\ [Next]_vars => TransferInv'
BY SenderKeeps, AckArrivesKeeps, SegmentArrivesKeeps, ReadOutKeeps, LoseKeeps, Zenon DEF Next

\* So it always holds.
LEMMA AlwaysTransferInv == Spec => []TransferInv
BY InitKeeps, NextKeeps, PTL DEF Spec

-----------------------------------------------------------------------------
\* The invariant gives the types.
LEMMA InvTyped == TransferInv => TypeOK
<1> SUFFICES ASSUME TransferInv PROVE TypeOK
  OBVIOUS
<1>1. /\ Sending /\ HostInv /\ SenderInv /\ Receiving /\ Acknowledging /\ Reading
  BY Zenon DEF TransferInv, Sending, HostInv
<1>2. /\ next_seqno \in 0..(AbsMod - 1) /\ receiver_ack \in 0..(AbsMod - 1)
      /\ receiver_window_size \in Nat
  BY <1>1, Reach, Sizes DEF Reached, SenderInv, Types
<1>3. SenderTypeOK(Byte)
  BY <1>1, <1>2, Zenon DEF SenderTypeOK, SenderInv, Types, HostInv, Seg
<1>4. ReceiverTypeOK(Byte, Capacity)
  BY <1>1, Sizes, Zenon DEF Receiving, Holds, Good, Core, ReceiverTypeOK
<1>5. \A seg \in data_net : seg \in SegmentType(WrappingInt32, Byte)
  BY <1>1, OnWireTyped, Zenon DEF Sending, Seg
<1> QED
  BY <1>1, <1>3, <1>4, <1>5, Zenon DEF TypeOK, Acknowledging, Reachable, Reading, ReadSoFar

\* For every instance, the members of both endpoints keep their types and only
\* well-formed segments and acknowledgments are on their way.
THEOREM AlwaysTyped == Spec => []TypeOK
BY AlwaysTransferInv, InvTyped, PTL

\* However often acknowledgments are lost, repeated or overtaken, what the
\* sender drops from its queue has been received, and what the receiver
\* acknowledges has been sent.
THEOREM AckedAlwaysReceived == Spec => []AckedIsReceived
<1>1. TransferInv => AckedIsReceived
  BY UptoIs, Zenon DEF TransferInv, Sending, HostInv, SenderInv, Types, Acknowledging, Upto,
     AckedIsReceived
<1> QED
  BY <1>1, AlwaysTransferInv, PTL

-----------------------------------------------------------------------------
\* When the sender is done, the receiver is.
LEMMA InvFinished == TransferInv => FinishedTogether
<1> SUFFICES ASSUME TransferInv, sender_state_summary = "FIN_ACKED"
             PROVE  /\ receiver_state_summary(receiver_isn, reassembler) = "FIN_RECV"
                    /\ consumed \o out.buffer = Source
  BY Zenon DEF FinishedTogether
<1> DEFINE o == reassembler.output
           v == o.written_bytes
<1>1. /\ SenderInv /\ next_seqno \in Nat /\ Receiving /\ receiver_ack <= received_upto
      /\ ReadSoFar(consumed, reassembler) /\ Good(reassembler) /\ o.error = FALSE
  BY Zenon DEF TransferInv, Sending, HostInv, SenderInv, Types, Receiving, Holds, Acknowledging, Reading
<1>2. receiver_ack = N + 2
  BY <1>1, SummaryIs, SentFin, Zenon DEF Summary
<1>3. receiver_isn # nullopt /\ abs_ackno(reassembler) >= N + 2
  BY <1>1, <1>2, UptoIs, Sizes DEF Upto
<1>4. v \in 0..N /\ abs_ackno(reassembler) = v + 1 + (IF o.end_write THEN 1 ELSE 0)
  BY <1>1, EdgeIs, Zenon
<1>5. o.end_write /\ v = N
  <2> HIDE DEF o, v
  <2> QED
    BY <1>3, <1>4, Sizes
<1>6. receiver_state_summary(receiver_isn, reassembler) = "FIN_RECV"
  BY <1>1, <1>3, <1>5 DEF receiver_state_summary, input_ended
<1>7. consumed \o o.buffer = Source
  BY <1>1, <1>5, RestToRead, Zenon
<1> QED
  BY <1>6, <1>7, Zenon DEF out, stream_out

\* When the sender's summary says "stream finished and fully acknowledged", the
\* receiver's says "input to stream has ended", and all of Source has been read
\* or waits to be read.
THEOREM AlwaysFinishTogether == Spec => []FinishedTogether
BY AlwaysTransferInv, InvFinished, PTL

-----------------------------------------------------------------------------
\* How the two streams stand to each other: the application has read no more
\* than was written, all of it when the output is at its end, and the output is
\* at its end only after end_input().
Behind ==
    LET w == stream.written_bytes
    IN  /\ w \in 0..N /\ Len(consumed) <= w
        /\ consumed \in Seq(Byte) /\ \A i \in 1..Len(consumed) : consumed[i] = Source[i]
        /\ eof(out) => stream.end_write /\ Len(consumed) = w

LEMMA BehindIs == TransferInv => Behind
<1> SUFFICES ASSUME TransferInv PROVE Behind
  OBVIOUS
<1> DEFINE w == stream.written_bytes
           n == next_seqno
           c == Len(consumed)
<1>1. /\ SenderInv /\ n \in Nat /\ Holds(reassembler, receiver_isn, SenderISN, n)
      /\ ReadSoFar(consumed, reassembler)
  BY Zenon DEF TransferInv, Sending, HostInv, SenderInv, Types, Receiving, Reading
<1>2. /\ w \in 0..N /\ (\A m \in 0..N : m < n => m <= w)
      /\ N + 1 < n => stream.end_write /\ w = N
  BY <1>1, WrittenFirst, Zenon
<1>3. /\ c \in 0..N /\ (c >= 1 => c < n) /\ (eof(out) => N + 1 < n /\ c = N)
  BY <1>1, ReadsNoMore, Zenon DEF out, stream_out
<1> HIDE DEF w, n, c
<1>4. c <= w
  BY <1>2, <1>3, Sizes
<1>5. eof(out) => stream.end_write /\ c = w
  BY <1>2, <1>3
<1> QED
  BY <1>1, <1>2, <1>4, <1>5, Zenon DEF Behind, ReadSoFar, w, c

LEMMA BehindIsNext == TransferInv' => Behind'
BY BehindIs, PTL

-----------------------------------------------------------------------------
\* Each step is one of the pipe, or none.

\* The beginning of Source.
LEMMA PartOfSource ==
    ASSUME NEW w \in 0..N
    PROVE  /\ SubSeq(Source, 1, w) \in Seq(Byte) /\ Len(SubSeq(Source, 1, w)) = w
           /\ \A i \in 1..w : SubSeq(Source, 1, w)[i] = Source[i]
BY TheSource, ElementOfSeq, SubSeqProperties

\* What the sending host does shows in the pipe only by what it does to the
\* stream the application writes into.
LEMMA HostStutters ==
    ASSUME UNCHANGED <<receiverVars, consumed>>,
           stream'.written_bytes = stream.written_bytes, stream'.end_write = stream.end_write
    PROVE  UNCHANGED Pipe!pipeVars
<1>1. /\ reassembler' = reassembler /\ consumed' = consumed
      /\ stream'.written_bytes = stream.written_bytes /\ stream'.end_write = stream.end_write
  BY Zenon DEF receiverVars
<1> QED
  BY <1>1, Zenon DEF Pipe!pipeVars, bytes_written, input_ended, eof, buffer_empty, out, stream_out

\* write() sends.
LEMMA WriteInSends ==
    ASSUME TransferInv, NEW len \in 1..N, WriteIn(len)
    PROVE  Pipe!Send
<1> DEFINE w == stream.written_bytes
           v == w'
           s == SubSeq(Source, 1, v)
           t == SubSeq(Source, 1, w)
<1>1. SenderInv /\ Write(len) /\ reassembler' = reassembler /\ consumed' = consumed
  BY Zenon DEF TransferInv, Sending, HostInv, WriteIn, receiverVars
<1>2. w \in 0..N /\ ~stream.end_write /\ ~stream'.end_write /\ v \in w..N
  BY <1>1, WrittenFirst, WriteAdds, Zenon
<1> HIDE DEF v, w
<1>3. v \in 0..N /\ w <= v
  BY <1>2
<1>4. /\ Len(s) = v /\ Len(t) = w /\ (\A i \in 1..v : s[i] = Source[i])
      /\ \A i \in 1..w : t[i] = Source[i]
  BY <1>2, <1>3, PartOfSource, Zenon
<1> HIDE DEF s, t
<1>5. Len(t) <= Len(s) /\ \A i \in 1..Len(t) : s[i] = t[i]
  BY <1>2, <1>3, <1>4
<1>6. stream'.end_write = stream.end_write
  <2>1. stream.end_write \in BOOLEAN /\ stream'.end_write \in BOOLEAN
    <3>1. stream \in ByteStreamType(Byte) /\ stream' \in ByteStreamType(Byte)
      BY <1>1, WriteKeeps, Zenon DEF SenderInv, Types
    <3> QED
      BY <3>1 DEF ByteStreamType
  <2> QED
    BY <1>2, <2>1
<1>7. Pipe!StartsWith(s, t)
  BY <1>5, Zenon DEF Pipe!StartsWith
<1> QED
  BY <1>1, <1>2, <1>6, <1>7, Zenon DEF Pipe!Send, input_ended, bytes_written, eof, buffer_empty,
     out, stream_out, s, t, v, w

\* end_input() closes.
LEMMA CloseInCloses ==
    ASSUME TransferInv, CloseIn
    PROVE  Pipe!Close
<1>1. /\ stream' = end_input(stream) /\ reassembler' = reassembler /\ consumed' = consumed
      /\ stream \in ByteStreamType(Byte)
  BY Zenon DEF CloseIn, EndInput, sender_end_input, receiverVars, TransferInv, Sending, HostInv,
     SenderInv, Types
<1>2. stream'.end_write = TRUE /\ stream'.written_bytes = stream.written_bytes
  BY <1>1 DEF end_input, ByteStreamType
<1> QED
  BY <1>1, <1>2, Zenon DEF Pipe!Close, input_ended, bytes_written, eof, buffer_empty, out, stream_out

\* What the receiving host does delivers, if it goes on from what was read and
\* does not go on after the end.
LEMMA HostDelivers ==
    ASSUME TransferInv', stream' = stream, Pipe!StartsWith(consumed', consumed),
           eof(out) => eof(out)' /\ consumed' = consumed
    PROVE  Pipe!Deliver
<1> DEFINE w == stream.written_bytes
           s == SubSeq(Source, 1, w)
           c == Len(consumed')
           e == eof(out)'
<1>1. /\ w \in 0..N /\ c <= w /\ consumed' \in Seq(Byte)
      /\ \A i \in 1..c : consumed'[i] = Source[i]
      /\ e => stream.end_write /\ c = w
  BY BehindIsNext, Zenon DEF Behind
<1>2. s \in Seq(Byte) /\ Len(s) = w /\ \A i \in 1..w : s[i] = Source[i]
  BY <1>1, PartOfSource, Zenon
<1>3. c \in Nat /\ \A i \in 1..c : i \in 1..w
  BY <1>1, LenProperties, Sizes
<1>4. e \in BOOLEAN
  BY Zenon DEF eof
<1> HIDE DEF w, s, e
<1>5. Pipe!StartsWith(s, consumed')
  BY <1>1, <1>2, <1>3, Zenon DEF Pipe!StartsWith
<1>6. e => consumed' = s
  BY <1>1, <1>2, SeqEqual
<1> QED
  BY <1>1, <1>4, <1>5, <1>6, Zenon DEF Pipe!Deliver, input_ended, bytes_written, w, s, e

\* A segment that arrives may make the end visible.
LEMMA SegmentDelivers ==
    ASSUME TransferInv, TransferInv', NEW seg \in data_net, NEW again \in BOOLEAN,
           SegmentArrives(seg, again)
    PROVE  Pipe!Deliver
<1>1. segment_received(seg) /\ UNCHANGED senderVars /\ consumed' = consumed /\ stream' = stream
  BY Zenon DEF SegmentArrives, senderVars
<1>2. /\ Grows(reassembler, reassembler')
      /\ reassembler'.output.read_bytes = reassembler.output.read_bytes
  BY <1>1, ArrivalTaken, Zenon
<1>3. Good(reassembler) /\ Good(reassembler') /\ consumed \in Seq(Byte)
  BY Zenon DEF TransferInv, Receiving, Holds, Reading, ReadSoFar
<1>4. eof(out) => eof(out)' /\ consumed' = consumed
  BY <1>1, <1>2, <1>3, EndStays, Zenon DEF out, stream_out
<1>5. Pipe!StartsWith(consumed', consumed)
  BY <1>1, <1>3 DEF Pipe!StartsWith
<1> QED
  BY <1>1, <1>4, <1>5, HostDelivers, Zenon

\* So does a read.
LEMMA ReadOutDelivers ==
    ASSUME TransferInv, TransferInv', NEW len \in 1..Capacity, ReadOut(len)
    PROVE  Pipe!Deliver
<1> DEFINE t == read_result(out, len)
           b == out.buffer
<1>1. /\ len <= Len(b) /\ consumed' = consumed \o t /\ stream' = stream
      /\ Good(reassembler) /\ consumed \in Seq(Byte)
  BY Zenon DEF ReadOut, senderVars, buffer_size, TransferInv, Receiving, Holds, Reading, ReadSoFar
<1>2. b \in Seq(Byte)
  BY <1>1, Fields DEF Good, Core, ByteStreamType, out, stream_out
<1>3. Len(b) \in Nat /\ len \in Nat /\ len >= 1 /\ t = SubSeq(b, 1, len)
  BY <1>1, <1>2, Sizes DEF read_result
<1> HIDE DEF t, b
<1>4. t \in Seq(Byte)
  BY <1>1, <1>2, <1>3, ElementOfSeq, SubSeqProperties
<1>5. Pipe!StartsWith(consumed', consumed)
  BY <1>1, <1>4, ConcatProperties DEF Pipe!StartsWith
<1>6. ~eof(out)
  BY <1>1, <1>3, EmptySeq DEF eof, buffer_empty, b
<1> QED
  BY <1>1, <1>5, <1>6, HostDelivers, Zenon

\* Every step of the connection is a step of the pipe, or none.
LEMMA StepPipes ==
    ASSUME TransferInv, TransferInv', [Next]_vars
    PROVE  Pipe!PipeNext \/ UNCHANGED Pipe!pipeVars
<1>1. ASSUME NEW len \in 1..N, WriteIn(len) PROVE Pipe!PipeNext
  BY <1>1, WriteInSends, Zenon DEF Pipe!PipeNext
<1>2. CASE CloseIn
  BY <1>2, CloseInCloses, Zenon DEF Pipe!PipeNext
<1>3. CASE FillIn
  <2>1. SenderInv /\ fill_window /\ UNCHANGED <<receiverVars, consumed>>
    BY <1>3, Zenon DEF FillIn, FillWindow, FillWindowAgain, TransferInv, Sending, HostInv
  <2> QED
    BY <2>1, FillQueues, HostStutters, Zenon
<1>4. CASE \/ SendSegment \/ Lose \/ UNCHANGED vars
           \/ \E ms \in 1..MaxTick : TimePasses(ms)
           \/ \E ack \in ack_net, again \in BOOLEAN : AckArrives(ack, again)
  <2>1. stream' = stream /\ UNCHANGED <<receiverVars, consumed>>
    BY <1>4, Zenon DEF SendSegment, PopSegment, sender_pop_segment, TimePasses, Tick, tick,
       AckArrives, AckReceived, ack_received, take_ack, Lose, vars, senderVars
  <2> QED
    BY <2>1, HostStutters, Zenon
<1>5. ASSUME NEW seg \in data_net, NEW again \in BOOLEAN, SegmentArrives(seg, again)
      PROVE  Pipe!PipeNext
  BY <1>5, SegmentDelivers, Zenon DEF Pipe!PipeNext
<1>6. ASSUME NEW len \in 1..Capacity, ReadOut(len) PROVE Pipe!PipeNext
  BY <1>6, ReadOutDelivers, Zenon DEF Pipe!PipeNext
<1> QED
  BY <1>1, <1>2, <1>3, <1>4, <1>5, <1>6, Zenon DEF Next

\* End to end, for every stream and whatever the network does, the connection
\* is a reliable pipe: the application reads what was written, in order and
\* once, and sees the end of the stream only after all of it.
THEOREM TransferIsPipe == Spec => ImplementsPipe
<1>1. Init => Pipe!PipeInit
  <2> SUFFICES ASSUME Init PROVE Pipe!PipeInit
    OBVIOUS
  <2>1. /\ stream = NewByteStream(SendCapacity) /\ consumed = <<>>
        /\ reassembler = NewStreamReassembler(Capacity)
    BY Zenon DEF Init, SenderInit, ReceiverInit
  <2>2. /\ stream.written_bytes = 0 /\ stream.end_write = FALSE /\ reassembler.output.end_write = FALSE
    BY <2>1 DEF NewByteStream, NewStreamReassembler
  <2>3. SubSeq(Source, 1, 0) = <<>>
    <3>1. 0 \in 0..N
      BY Sizes
    <3> QED
      BY <3>1, PartOfSource, EmptySeq, Zenon
  <2> QED
    BY <2>1, <2>2, <2>3, Zenon DEF Pipe!PipeInit, input_ended, bytes_written, eof, out, stream_out
<1>2. TransferInv /\ TransferInv' /\ [Next]_vars => [Pipe!PipeNext]_(Pipe!pipeVars)
  BY StepPipes
<1> QED
  BY <1>1, <1>2, AlwaysTransferInv, PTL DEF Spec, ImplementsPipe, Pipe!PipeSpec

=============================================================================
