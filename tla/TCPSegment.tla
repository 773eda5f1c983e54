------------------------------ MODULE TCPSegment ------------------------------
(***************************************************************************)
(* libsponge/tcp_helpers/tcp_segment.{hh,cc}: the parts of a TCP segment   *)
(* that TCPSender and TCPReceiver read and write.  ackno and win are       *)
(* filled in by the TCPConnection that owns the two, and are not here.     *)
(***************************************************************************)
EXTENDS Integers, Sequences

Segment(seqno, syn, fin, payload) ==
    [seqno |-> seqno, syn |-> syn, fin |-> fin, payload |-> payload]

SegmentType(Seqno, Byte) ==
    [seqno : Seqno, syn : BOOLEAN, fin : BOOLEAN, payload : Seq(Byte)]

length_in_sequence_space(seg) ==
    Len(seg.payload) + (IF seg.syn THEN 1 ELSE 0) + (IF seg.fin THEN 1 ELSE 0)

=============================================================================
