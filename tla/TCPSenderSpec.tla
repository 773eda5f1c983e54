---------------------------- MODULE TCPSenderSpec ----------------------------
(***************************************************************************)
(* A TCPSender between an application that writes Source into stream_in()  *)
(* and a peer of which nothing is assumed: any acknowledgment number with  *)
(* any window may come in at any time.                                     *)
(*                                                                         *)
(* The owner calls one method at a time and sends what is in segments_out  *)
(* before it calls the next one.                                           *)
(***************************************************************************)
EXTENDS TCPSender, SourceStream

CONSTANTS
    MaxWindow,  \* bound: the largest window the peer advertises
    MaxTick,    \* bound: the longest time between two calls of tick()
    MaxRetx     \* the owner gives up after this many retransmissions in a row
                \* (TCPConfig::MAX_RETX_ATTEMPTS)

ASSUME SenderSpecAssumption ==
    /\ Source \in Seq(Byte)
    /\ MaxWindow \in Nat /\ MaxTick \in Nat /\ MaxRetx \in Nat
    /\ N + 2 + HalfSeq < HalfAbs
    /\ MaxWindow < HalfAbs
    /\ HalfSeq >= 2

\* The owner may call a method: no call is in progress and nothing waits to be
\* sent.
Idle == ~filling /\ segments_out = <<>>

\* The application writes the next len bytes of Source, or as many of them as
\* fit.  It never has more than half the sequence space unacknowledged (SYN and
\* FIN included): 2^31 bytes, which a stream kept in memory does not reach.
Write(len) ==
    LET w == bytes_written(stream)
    IN  /\ Idle
        /\ ~input_ended(stream)
        /\ w + len <= N
        /\ w + len + 2 - receiver_ack <= HalfSeq
        /\ sender_write(SubSeq(Source, w + 1, w + len))

EndInput == Idle /\ bytes_written(stream) = N /\ sender_end_input

SetError == Idle /\ sender_set_error

FillWindow == Idle /\ fill_window

\* The tail call of fill_window().
FillWindowAgain == filling /\ fill_window

AckReceived(ackno, window_size) == Idle /\ ack_received(ackno, window_size)

Tick(ms) ==
    /\ Idle
    /\ consecutive_retransmissions <= MaxRetx
    /\ tick(ms)

SendEmptySegment == Idle /\ send_empty_segment

PopSegment == ~filling /\ sender_pop_segment

SenderNext ==
    \/ \E len \in 1..N : Write(len)
    \/ EndInput
    \/ SetError
    \/ FillWindow
    \/ FillWindowAgain
    \/ \E ackno \in WrappingInt32, window_size \in 0..MaxWindow :
           AckReceived(ackno, window_size)
    \/ \E ms \in 1..MaxTick : Tick(ms)
    \/ SendEmptySegment
    \/ PopSegment

SenderSpec == SenderInit /\ [][SenderNext]_senderVars

-----------------------------------------------------------------------------
\* The byte of the sender's sequence space with absolute number n: 0 is the
\* SYN, 1..N are the bytes of Source, and N + 1 is the FIN.
CarriesSource(seg, start) ==
    /\ seg.seqno = wrap(start, SenderISN)
    /\ seg.syn <=> start = 0
    /\ seg.syn => seg.payload = <<>>
    /\ start + Len(seg.payload) <= N + 1
    /\ seg.fin => start + Len(seg.payload) = N + 1
    /\ \A i \in 1..Len(seg.payload) : seg.payload[i] = Source[start + i - 1]

\* The outstanding segments are exactly what the peer has not acknowledged:
\* they follow each other without gap or overlap from _receiver_ack to
\* _next_seqno, none is empty, and each carries its own part of the stream.
\* (The numbers are recovered from the 32-bit ones in the headers, as
\* ack_received() does.)
OutstandingTiles ==
    LET q == outstanding_segments
        n == Len(q)
    IN  /\ n = 0 => receiver_ack = next_seqno
        /\ n > 0 => seg_start(q[1]) = receiver_ack /\ seg_end(q[n]) = next_seqno
        /\ \A k \in 1..(n - 1) : seg_end(q[k]) = seg_start(q[k + 1])
        /\ \A k \in 1..n : /\ length_in_sequence_space(q[k]) > 0
                           /\ CarriesSource(q[k], seg_start(q[k]))

\* Every sequence number that has been used is accounted for: the SYN, the
\* bytes taken from the stream, and the FIN, which comes only after the last
\* byte of a stream that has ended.
SequenceAccounting ==
    /\ next_seqno = (IF set_syn_flag THEN 1 ELSE 0) + bytes_read(stream)
                      + (IF set_fin_flag THEN 1 ELSE 0)
    /\ set_fin_flag => eof(stream) /\ bytes_written(stream) = N
    /\ receiver_ack <= next_seqno

\* The timer runs exactly when something is outstanding.  This is what makes
\* the unchecked _outstanding_segments.front() in tick() safe, and what makes
\* sure that something unacknowledged will be sent again.  Between two calls the
\* running timer has not expired, and it has never backed off further than once
\* for each retransmission in a row.
TimerIffOutstanding ==
    /\ timer.is_running <=> outstanding_segments # <<>>
    /\ timer.is_running => timer.accumulate_time < timer.rto
    /\ timer.rto \in InitRTO..(InitRTO * 2^consecutive_retransmissions)

\* fill_window() fills "as much of the window as possible" (tcp_sender.hh): when
\* it returns, the FIN has been sent, or the window is full, or there is
\* nothing left that could be sent.
FillIsMaximal ==
    [][fill_window /\ ~filling' /\ next_seqno' > 0 =>
          \/ set_fin_flag'
          \/ fill_window_size <= next_seqno' - receiver_ack
          \/ buffer_empty(stream') /\ ~input_ended(stream')]_senderVars

\* What a segment carries of the stream, the SYN written 0 and the FIN -1.
piece(seg) ==
    [from |-> seg_start(seg),
     what |-> (IF seg.syn THEN <<0>> ELSE <<>>) \o seg.payload \o (IF seg.fin THEN <<-1>> ELSE <<>>)]

\* The sender is a sliding window: nothing leaves it but pieces of the stream
\* that the application has written, new ones within the window and old ones
\* only from the oldest unacknowledged number on; what is acknowledged and what
\* is sent only ever grow.
Window == INSTANCE SlidingWindow WITH
              Stream    <- <<0>> \o Source \o <<-1>>,
              available <- 1 + bytes_written(stream) + (IF input_ended(stream) THEN 1 ELSE 0),
              una       <- receiver_ack,
              nxt       <- next_seqno,
              window    <- receiver_window_size,
              wire      <- [k \in DOMAIN segments_out |-> piece(segments_out[k])]
ImplementsWindow == Window!WindowSpec

\* The order in which the summary's states are passed.
SummaryRank(summary) ==
    CASE summary = "CLOSED" -> 0 [] summary = "SYN_SENT" -> 1 [] summary = "SYN_ACKED" -> 2
      [] summary = "FIN_SENT" -> 3 [] summary = "FIN_ACKED" -> 4 [] summary = "error" -> 5

\* The summary of the sender never goes back, and says FIN_SENT or FIN_ACKED
\* only when the FIN really has been sent, FIN_ACKED only when everything up
\* to it has been acknowledged.
SummaryAdvances ==
    [][/\ SummaryRank(sender_state_summary') >= SummaryRank(sender_state_summary)
       /\ sender_state_summary \in {"FIN_SENT", "FIN_ACKED"} => set_fin_flag
       /\ sender_state_summary = "FIN_ACKED" => receiver_ack = N + 2]_senderVars

=============================================================================
