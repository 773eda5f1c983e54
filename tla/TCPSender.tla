------------------------------ MODULE TCPSender ------------------------------
(***************************************************************************)
(* libsponge/tcp_sender.{hh,cc}, with the sender's half of                 *)
(* tcp_helpers/tcp_state.cc: cuts the outgoing ByteStream into segments    *)
(* that fit the receiver's window, keeps them until they are acknowledged, *)
(* and retransmits the oldest one when the timer expires.                  *)
(*                                                                         *)
(* fill_window() calls itself as long as there is room.  One step is one   *)
(* invocation; `filling' is TRUE between an invocation and the one it      *)
(* calls, when no other method can run (the class is used by one thread).  *)
(***************************************************************************)
EXTENDS WrappingIntegers, ByteStream, TCPSegment, RetransmissionTimer

CONSTANTS
    SenderISN,      \* fixed_isn, or what random_device chose
    SendCapacity,   \* the constructor's capacity
    InitRTO,        \* the constructor's retx_timeout
    MaxPayload      \* TCPConfig::MAX_PAYLOAD_SIZE

ASSUME SenderAssumption ==
    /\ SenderISN \in WrappingInt32
    /\ SendCapacity \in Nat
    /\ InitRTO \in Nat \ {0}
    /\ MaxPayload \in Nat \ {0}

VARIABLES
    stream,                       \* _stream
    next_seqno,                   \* _next_seqno
    receiver_ack,                 \* _receiver_ack
    receiver_window_size,         \* _receiver_window_size
    set_syn_flag,                 \* _set_syn_flag
    set_fin_flag,                 \* _set_fin_flag
    segments_out,                 \* _segments_out
    outstanding_segments,         \* _outstanding_segments
    timer,                        \* _retransmission_timer
    consecutive_retransmissions,  \* _consecutive_retransmissions
    filling                       \* fill_window() is about to call itself

senderVars ==
    <<stream, next_seqno, receiver_ack, receiver_window_size, set_syn_flag,
      set_fin_flag, segments_out, outstanding_segments, timer,
      consecutive_retransmissions, filling>>

SenderTypeOK(Byte) ==
    /\ stream \in ByteStreamType(Byte)
    /\ next_seqno \in 0..(AbsMod - 1)
    /\ receiver_ack \in 0..(AbsMod - 1)
    /\ receiver_window_size \in Nat
    /\ set_syn_flag \in BOOLEAN /\ set_fin_flag \in BOOLEAN
    /\ segments_out \in Seq(SegmentType(WrappingInt32, Byte))
    /\ outstanding_segments \in Seq(SegmentType(WrappingInt32, Byte))
    /\ timer \in TimerType
    /\ consecutive_retransmissions \in Nat
    /\ filling \in BOOLEAN

\* The constructor.
SenderInit ==
    /\ stream = NewByteStream(SendCapacity)
    /\ next_seqno = 0
    /\ receiver_ack = 0
    /\ receiver_window_size = 1
    /\ set_syn_flag = FALSE /\ set_fin_flag = FALSE
    /\ segments_out = <<>>
    /\ outstanding_segments = <<>>
    /\ timer = NewRetransmissionTimer(InitRTO)
    /\ consecutive_retransmissions = 0
    /\ filling = FALSE

-----------------------------------------------------------------------------
\* bytes_in_flight() when the next sequence number is n.
in_flight(n) == sub64(n, receiver_ack)

bytes_in_flight == in_flight(next_seqno)

\* fill_window()'s window_size: a closed window counts as one byte.
fill_window_size == IF receiver_window_size = 0 THEN 1 ELSE receiver_window_size

\* window_not_full(window_size) when the next sequence number is n.
window_not_full(n) == fill_window_size > in_flight(n)

\* A size that ignores what is already in flight.
payload_size_whole_window == min(fill_window_size, min(buffer_size(stream), MaxPayload))

\* The size of the next payload.  The subtraction is unsigned: with more in
\* flight than the window allows it is a huge number.
payload_size ==
    min(sub64(fill_window_size, bytes_in_flight),
        min(buffer_size(stream), MaxPayload))

\* An emit that does not start the timer.
emit_without_timer(seg, n) ==
    /\ next_seqno' = n
    /\ segments_out' = Append(segments_out, seg)
    /\ outstanding_segments' = Append(outstanding_segments, seg)
    /\ filling' = window_not_full(n)
    /\ UNCHANGED <<timer, receiver_ack, receiver_window_size, consecutive_retransmissions>>

\* An emit without the self-call.
emit_once(seg, n) ==
    /\ next_seqno' = n
    /\ segments_out' = Append(segments_out, seg)
    /\ outstanding_segments' = Append(outstanding_segments, seg)
    /\ timer' = start_timer(timer)
    /\ filling' = FALSE
    /\ UNCHANGED <<receiver_ack, receiver_window_size, consecutive_retransmissions>>

\* A segment goes to the wire and to the queue of outstanding ones, and
\* fill_window() calls itself if there is room left; n is the sequence number
\* after the segment.
emit(seg, n) ==
    /\ next_seqno' = n
    /\ segments_out' = Append(segments_out, seg)
    /\ outstanding_segments' = Append(outstanding_segments, seg)
    /\ timer' = start_timer(timer)
    /\ filling' = window_not_full(n)
    /\ UNCHANGED <<receiver_ack, receiver_window_size, consecutive_retransmissions>>

send_syn ==
    /\ set_syn_flag' = TRUE
    /\ emit(Segment(SenderISN, TRUE, FALSE, <<>>), add64(next_seqno, 1))
    /\ UNCHANGED <<stream, set_fin_flag>>

\* The next payload, with the FIN on it when it empties a stream that has ended
\* and there is room for the FIN.
send_payload ==
    LET stream_after == read(stream, payload_size)
        payload_end  == add64(next_seqno, payload_size)
        fin          == eof(stream_after) /\ window_not_full(payload_end)
        end          == IF fin THEN add64(payload_end, 1) ELSE payload_end
        seg          == Segment(wrap(next_seqno, SenderISN), FALSE, fin,
                                read_result(stream, payload_size))
    IN  /\ stream' = stream_after
        /\ set_fin_flag' = fin
        /\ UNCHANGED set_syn_flag
        /\ \/ /\ fin \/ payload_size > 0
              /\ emit(seg, end)
           \/ /\ ~fin /\ payload_size = 0
              /\ filling' = FALSE
              /\ UNCHANGED <<next_seqno, receiver_ack, receiver_window_size, segments_out,
                             outstanding_segments, timer, consecutive_retransmissions>>

\* fill_window() as it would be if the stop at the FIN were forgotten.
fill_window_past_fin ==
    \/ next_seqno = 0 /\ send_syn
    \/ next_seqno # 0 /\ send_payload

fill_window ==
    \/ /\ set_fin_flag
       /\ filling' = FALSE
       /\ UNCHANGED <<stream, next_seqno, receiver_ack, receiver_window_size, set_syn_flag,
                      set_fin_flag, segments_out, outstanding_segments, timer,
                      consecutive_retransmissions>>
    \/ ~set_fin_flag /\ next_seqno = 0 /\ send_syn
    \/ ~set_fin_flag /\ next_seqno # 0 /\ send_payload

-----------------------------------------------------------------------------
\* The absolute sequence number of an outstanding segment and of what follows it.
seg_start(seg) == unwrap(seg.seqno, SenderISN, next_seqno)
seg_end(seg)   == add64(seg_start(seg), length_in_sequence_space(seg))

\* A loop that takes the byte at abs_ackno for acknowledged.
fully_acked_off_by_one(n, abs_ackno) ==
    /\ \A k \in 1..n : seg_end(outstanding_segments[k]) <= abs_ackno + 1
    /\ n < Len(outstanding_segments)
         => seg_end(outstanding_segments[n + 1]) > abs_ackno + 1

\* The while loop of ack_received() pops the first n segments of the queue: they
\* end at or before abs_ackno, and the next one does not.
fully_acked(n, abs_ackno) ==
    /\ \A k \in 1..n : seg_end(outstanding_segments[k]) <= abs_ackno
    /\ n < Len(outstanding_segments)
         => seg_end(outstanding_segments[n + 1]) > abs_ackno

\* Neither beyond what was sent nor before what is already acknowledged.
ack_acceptable(abs_ackno) == abs_ackno <= next_seqno /\ abs_ackno >= receiver_ack

\* An acknowledgment that moves _receiver_ack into the middle of a segment.
take_ack_partial(abs_ackno, window_size) ==
    \E n \in 0..Len(outstanding_segments) :
        LET rest    == SubSeq(outstanding_segments, n + 1, Len(outstanding_segments))
            stopped == IF rest = <<>> THEN stop_timer(timer) ELSE timer
        IN  /\ fully_acked(n, abs_ackno)
            /\ receiver_window_size' = window_size
            /\ outstanding_segments' = rest
            /\ receiver_ack' = abs_ackno
            /\ IF n > 0
               THEN /\ timer' = set_accumulate_time(set_timeout(stopped, InitRTO), 0)
                    /\ consecutive_retransmissions' = 0
               ELSE timer' = stopped /\ UNCHANGED consecutive_retransmissions
            /\ UNCHANGED <<stream, next_seqno, set_syn_flag, set_fin_flag, segments_out, filling>>

\* An acceptable acknowledgment: take the window, drop what is acknowledged,
\* stop the timer when nothing is left, restart it when something was dropped.
take_ack(abs_ackno, window_size) ==
    \E n \in 0..Len(outstanding_segments) :
        LET rest    == SubSeq(outstanding_segments, n + 1, Len(outstanding_segments))
            stopped == IF rest = <<>> THEN stop_timer(timer) ELSE timer
        IN  /\ fully_acked(n, abs_ackno)
            /\ receiver_window_size' = window_size
            /\ outstanding_segments' = rest
            /\ IF n > 0
               THEN /\ receiver_ack' = seg_end(outstanding_segments[n])
                    /\ timer' = set_accumulate_time(set_timeout(stopped, InitRTO), 0)
                    /\ consecutive_retransmissions' = 0
               ELSE /\ timer' = stopped
                    /\ UNCHANGED <<receiver_ack, consecutive_retransmissions>>
            /\ UNCHANGED <<stream, next_seqno, set_syn_flag, set_fin_flag, segments_out, filling>>

ack_received(ackno, window_size) ==
    LET abs_ackno == unwrap(ackno, SenderISN, next_seqno)
    IN  IF ack_acceptable(abs_ackno)
        THEN take_ack(abs_ackno, window_size)
        ELSE UNCHANGED senderVars

\* A tick that does not send again when the window is closed.
tick_without_probe(ms) ==
    /\ IF check_timeout(timer, ms)
       THEN /\ timer' = IF receiver_window_size > 0
                        THEN handle_timeout(accumulate(timer, ms))
                        ELSE set_accumulate_time(set_timeout(timer, InitRTO), 0)
            /\ consecutive_retransmissions' = consecutive_retransmissions + 1
            /\ segments_out' = IF receiver_window_size > 0
                               THEN Append(segments_out, Head(outstanding_segments))
                               ELSE segments_out
       ELSE /\ timer' = accumulate(timer, ms)
            /\ UNCHANGED <<consecutive_retransmissions, segments_out>>
    /\ UNCHANGED <<stream, next_seqno, receiver_ack, receiver_window_size, set_syn_flag,
                   set_fin_flag, outstanding_segments, filling>>

\* tick(): on a timeout the oldest outstanding segment is sent again; the timer
\* backs off unless the window is closed (the retransmission is then a probe).
tick(ms) ==
    /\ IF check_timeout(timer, ms)
       THEN /\ timer' = IF receiver_window_size > 0
                        THEN handle_timeout(accumulate(timer, ms))
                        ELSE set_accumulate_time(set_timeout(timer, InitRTO), 0)
            /\ consecutive_retransmissions' = consecutive_retransmissions + 1
            /\ segments_out' = Append(segments_out, Head(outstanding_segments))
       ELSE /\ timer' = accumulate(timer, ms)
            /\ UNCHANGED <<consecutive_retransmissions, segments_out>>
    /\ UNCHANGED <<stream, next_seqno, receiver_ack, receiver_window_size, set_syn_flag,
                   set_fin_flag, outstanding_segments, filling>>

\* send_empty_segment(): it is not outstanding, and the timer does not run for it.
send_empty_segment ==
    /\ segments_out' = Append(segments_out,
                              Segment(wrap(next_seqno, SenderISN), FALSE, FALSE, <<>>))
    /\ UNCHANGED <<stream, next_seqno, receiver_ack, receiver_window_size, set_syn_flag,
                   set_fin_flag, outstanding_segments, timer,
                   consecutive_retransmissions, filling>>

-----------------------------------------------------------------------------
\* What the owner of the sender does to its public members.

\* stream_in().write(data)
sender_write(data) ==
    /\ stream' = write(stream, data)
    /\ UNCHANGED <<next_seqno, receiver_ack, receiver_window_size, set_syn_flag, set_fin_flag,
                   segments_out, outstanding_segments, timer, consecutive_retransmissions, filling>>

\* stream_in().end_input()
sender_end_input ==
    /\ stream' = end_input(stream)
    /\ UNCHANGED <<next_seqno, receiver_ack, receiver_window_size, set_syn_flag, set_fin_flag,
                   segments_out, outstanding_segments, timer, consecutive_retransmissions, filling>>

\* stream_in().set_error()
sender_set_error ==
    /\ stream' = set_error(stream)
    /\ UNCHANGED <<next_seqno, receiver_ack, receiver_window_size, set_syn_flag, set_fin_flag,
                   segments_out, outstanding_segments, timer, consecutive_retransmissions, filling>>

\* segments_out().pop()
sender_pop_segment ==
    /\ segments_out # <<>>
    /\ segments_out' = Tail(segments_out)
    /\ UNCHANGED <<stream, next_seqno, receiver_ack, receiver_window_size, set_syn_flag,
                   set_fin_flag, outstanding_segments, timer,
                   consecutive_retransmissions, filling>>

-----------------------------------------------------------------------------
\* A summary that takes an empty buffer for a FIN that has been sent.
sender_state_summary_hasty ==
    IF stream.error THEN "error"
    ELSE IF next_seqno = 0 THEN "CLOSED"
    ELSE IF next_seqno = bytes_in_flight THEN "SYN_SENT"
    ELSE IF ~eof(stream) THEN "SYN_ACKED"
    ELSE IF bytes_in_flight > 0 THEN "FIN_SENT"
    ELSE "FIN_ACKED"

\* TCPState::state_summary(const TCPSender &).
sender_state_summary ==
    IF stream.error THEN "error"
    ELSE IF next_seqno = 0 THEN "CLOSED"
    ELSE IF next_seqno = bytes_in_flight THEN "SYN_SENT"
    ELSE IF ~eof(stream) \/ next_seqno < bytes_written(stream) + 2 THEN "SYN_ACKED"
    ELSE IF bytes_in_flight > 0 THEN "FIN_SENT"
    ELSE "FIN_ACKED"

=============================================================================
