----------------------------- MODULE TCPTransfer -----------------------------
(***************************************************************************)
(* One direction of a TCP connection: a TCPSender that is given Source, a  *)
(* TCPReceiver whose output an application reads, and between them a       *)
(* network that loses, repeats and reorders segments and acknowledgments.  *)
(*                                                                         *)
(* The class that owns both ends, TCPConnection, is not part of the        *)
(* repository.  What it must do is taken from the interfaces of the two    *)
(* classes and from the test harnesses: it sends what is in segments_out,  *)
(* hands incoming segments to the receiver, answers a segment that         *)
(* occupies sequence numbers with the receiver's ackno and window, hands   *)
(* those to the sender, calls fill_window() and tick(), and gives up after *)
(* MAX_RETX_ATTEMPTS retransmissions in a row.                             *)
(***************************************************************************)
EXTENDS TCPSenderSpec, TCPReceiver

CONSTANT TimelyRTO   \* whether a timeout means that something has been lost

\* The stream is shorter than half the sequence space, so that no message that
\* is still on its way can be mistaken for one of the next cycle.
ASSUME TransferAssumption ==
    /\ Capacity \in 1..MaxWindow
    /\ TimelyRTO \in BOOLEAN
    /\ N + 2 < HalfSeq

VARIABLES
    data_net,   \* segments on their way to the receiver
    ack_net,    \* acknowledgments (ackno and window) on their way to the sender
    consumed    \* what the receiving application has read

networkVars == <<data_net, ack_net>>
vars == <<senderVars, receiverVars, data_net, ack_net, consumed>>

Init ==
    /\ SenderInit
    /\ ReceiverInit(Capacity)
    /\ data_net = {} /\ ack_net = {}
    /\ consumed = <<>>

-----------------------------------------------------------------------------
\* The sending host: the steps of TCPSenderSpec.

WriteIn(len) ==
    /\ len <= remaining_capacity(stream)
    /\ Write(len)
    /\ UNCHANGED <<receiverVars, networkVars, consumed>>

CloseIn ==
    /\ EndInput
    /\ UNCHANGED <<receiverVars, networkVars, consumed>>

FillIn ==
    /\ FillWindow \/ FillWindowAgain
    /\ UNCHANGED <<receiverVars, networkVars, consumed>>

SendSegment ==
    /\ PopSegment
    /\ data_net' = data_net \cup {Head(segments_out)}
    /\ UNCHANGED <<receiverVars, ack_net, consumed>>

\* Everything that was sent has come to rest.
Quiet == data_net = {} /\ ack_net = {} /\ buffer_empty(out)

TimePasses(ms) ==
    /\ TimelyRTO => Quiet
    /\ Tick(ms)
    /\ UNCHANGED <<receiverVars, networkVars, consumed>>

AckArrives(ack, again) ==
    /\ ack \in ack_net
    /\ AckReceived(ack.ackno, ack.window)
    /\ ack_net' = IF again THEN ack_net ELSE ack_net \ {ack}
    /\ UNCHANGED <<receiverVars, data_net, consumed>>

-----------------------------------------------------------------------------
\* The receiving host.

SegmentArrives(seg, again) ==
    /\ seg \in data_net
    /\ segment_received(seg)
    /\ data_net' = IF again THEN data_net ELSE data_net \ {seg}
    /\ ack_net' = IF receiver_isn' # nullopt /\ length_in_sequence_space(seg) > 0
                  THEN ack_net \cup {[ackno |-> ackno', window |-> window_size(reassembler')]}
                  ELSE ack_net
    /\ UNCHANGED <<senderVars, consumed>>

ReadOut(len) ==
    /\ len <= buffer_size(out)
    /\ consumed' = consumed \o read_result(out, len)
    /\ receiver_read(len)
    /\ UNCHANGED <<senderVars, networkVars>>

\* The network loses a message, but not more than MaxRetx retransmissions in a
\* row, or the owner of the sender would give up.
Lose ==
    /\ consecutive_retransmissions < MaxRetx
    /\ \/ \E seg \in data_net : data_net' = data_net \ {seg} /\ UNCHANGED ack_net
       \/ \E ack \in ack_net : ack_net' = ack_net \ {ack} /\ UNCHANGED data_net
    /\ UNCHANGED <<senderVars, receiverVars, consumed>>

Next ==
    \/ \E len \in 1..N : WriteIn(len)
    \/ CloseIn
    \/ FillIn
    \/ SendSegment
    \/ \E ms \in 1..MaxTick : TimePasses(ms)
    \/ \E ack \in ack_net, again \in BOOLEAN : AckArrives(ack, again)
    \/ \E seg \in data_net, again \in BOOLEAN : SegmentArrives(seg, again)
    \/ \E len \in 1..Capacity : ReadOut(len)
    \/ Lose

Spec == Init /\ [][Next]_vars

\* Both hosts keep running, the applications keep writing and reading, and a
\* message that is not lost arrives.  Nothing is assumed about Lose.
Fairness ==
    /\ \A len \in 1..N : WF_vars(WriteIn(len))
    /\ WF_vars(CloseIn) /\ WF_vars(FillIn) /\ WF_vars(SendSegment)
    /\ WF_vars(TimePasses(MaxTick))
    /\ WF_vars(\E ack \in ack_net : AckArrives(ack, FALSE))
    /\ WF_vars(\E seg \in data_net : SegmentArrives(seg, FALSE))
    /\ WF_vars(ReadOut(1))

FairSpec == Spec /\ Fairness

-----------------------------------------------------------------------------
\* The members of both endpoints keep their types, and only well-formed
\* segments and acknowledgments are on their way.
TypeOK ==
    /\ SenderTypeOK(Byte)
    /\ ReceiverTypeOK(Byte, Capacity)
    /\ data_net \subseteq SegmentType(WrappingInt32, Byte)
    /\ ack_net \subseteq [ackno : WrappingInt32, window : 0..Capacity]
    /\ consumed \in Seq(Byte)

\* How far the receiver has come, in absolute sequence numbers.
received_upto == IF receiver_isn = nullopt THEN 0 ELSE abs_ackno(reassembler)

\* The sender drops a segment from its queue only when the receiver has all of
\* it: acknowledgments, however old or often repeated, are never read as
\* acknowledging more than was received, and the receiver never acknowledges
\* what was not sent.
AckedIsReceived == receiver_ack <= received_upto /\ received_upto <= next_seqno

\* When the sender's summary says "stream finished and fully acknowledged", the
\* receiver's says "input to stream has ended", and the application has been
\* or can be given the whole of Source.
FinishedTogether ==
    sender_state_summary = "FIN_ACKED" =>
        /\ receiver_state_summary(receiver_isn, reassembler) = "FIN_RECV"
        /\ consumed \o out.buffer = Source

\* End to end, the connection is a reliable pipe: the receiving application
\* reads what the sending application wrote, in order and once, and sees the
\* end of the stream only after all of it.
Pipe == INSTANCE BytePipe WITH
            sent     <- SubSeq(Source, 1, bytes_written(stream)),
            closed   <- input_ended(stream),
            received <- consumed,
            ended    <- eof(out)
ImplementsPipe == Pipe!PipeSpec

\* Whatever is lost, the whole stream arrives in the end, both sides learn that
\* it is over, and nothing remains outstanding: no closed window, lost
\* acknowledgment or lost FIN stalls the transfer.
TransferCompletes ==
    <>(/\ consumed = Source /\ eof(out)
       /\ sender_state_summary = "FIN_ACKED" /\ outstanding_segments = <<>>)

\* "Unlike a zero-size window, a full window of nonzero size should be
\* respected" (tests/send_extra.cc): while as much is in flight as the receiver
\* has last allowed, nothing new is sent.
FullWindowRespected ==
    [][receiver_window_size > 0 /\ bytes_in_flight >= receiver_window_size
          => next_seqno' = next_seqno]_vars

=============================================================================
