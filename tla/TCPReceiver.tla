----------------------------- MODULE TCPReceiver -----------------------------
(***************************************************************************)
(* libsponge/tcp_receiver.{hh,cc}, with the receiver's half of             *)
(* tcp_helpers/tcp_state.cc: takes segments off the wire, turns their      *)
(* sequence numbers into stream indexes for the StreamReassembler, and     *)
(* computes the ackno and the window to send back.                         *)
(***************************************************************************)
EXTENDS WrappingIntegers, StreamReassembler, TCPSegment

VARIABLES
    receiver_isn,   \* _isn, an optional<WrappingInt32>
    reassembler     \* _reassembler

receiverVars == <<receiver_isn, reassembler>>

nullopt == -1

ReceiverTypeOK(Byte, capacity) ==
    /\ receiver_isn \in WrappingInt32 \cup {nullopt}
    /\ reassembler \in ReassemblerType(Byte, capacity)

\* The constructor TCPReceiver(capacity).
ReceiverInit(capacity) ==
    /\ receiver_isn = nullopt
    /\ reassembler = NewStreamReassembler(capacity)

out == stream_out(reassembler)

-----------------------------------------------------------------------------
\* An index that leaves the SYN's sequence number in the stream.
stream_index_off_by_one(seg, isn) ==
    unwrap(seg.seqno, isn, bytes_written(out))

\* The stream index of the first payload byte of seg: SYN takes the absolute
\* sequence number 0, so index = absolute number - 1, except that the payload
\* of a segment with SYN starts after the SYN.  Unsigned 64-bit arithmetic.
stream_index(seg, isn) ==
    LET abs_seq == unwrap(seg.seqno, isn, bytes_written(out))
    IN  add64(sub64(abs_seq, 1), IF seg.syn THEN 1 ELSE 0)

\* segment_received(): everything before the SYN is dropped; the SYN sets the
\* ISN; the payload and the FIN flag go to the reassembler.
segment_received(seg) ==
    IF receiver_isn = nullopt /\ ~seg.syn
    THEN UNCHANGED receiverVars
    ELSE LET isn == IF receiver_isn = nullopt THEN seg.seqno ELSE receiver_isn
         IN  /\ receiver_isn' = isn
             /\ reassembler' = push_substring(reassembler, seg.payload,
                                              stream_index(seg, isn), seg.fin)

\* The application reads len bytes from stream_out().
receiver_read(len) ==
    /\ reassembler' = [reassembler EXCEPT !.output = read(@, len)]
    /\ UNCHANGED receiver_isn

\* The owner of the receiver gives up on the stream (a reset, for instance).
receiver_set_error ==
    /\ reassembler' = [reassembler EXCEPT !.output = set_error(@)]
    /\ UNCHANGED receiver_isn

-----------------------------------------------------------------------------
\* An absolute ackno that acknowledges the FIN as soon as it has been seen.
abs_ackno_fin_seen(r) ==
    bytes_written(r.output) + 1 + (IF r.eof_flag THEN 1 ELSE 0)

\* The absolute sequence number ackno() wraps.
abs_ackno(r) ==
    bytes_written(r.output) + 1 + (IF input_ended(r.output) THEN 1 ELSE 0)

ackno == IF receiver_isn = nullopt THEN nullopt
         ELSE wrap(abs_ackno(reassembler), receiver_isn)

\* A window that counts the bytes waiting to be read as room.
window_size_whole(r) == r.capacity

\* A window that takes back the room of the bytes that came out of order.
window_size_less_unassembled(r) == remaining_capacity(r.output) - r.unassembled_bytes

window_size(r) == remaining_capacity(r.output)

\* TCPState::state_summary(const TCPReceiver &).
receiver_state_summary(isn, r) ==
    CASE r.output.error -> "error"
      [] ~r.output.error /\ isn = nullopt -> "LISTEN"
      [] ~r.output.error /\ isn # nullopt /\ input_ended(r.output) -> "FIN_RECV"
      [] OTHER -> "SYN_RECV"

=============================================================================
