---------------------------- MODULE StreamSegment ----------------------------
(***************************************************************************)
(* The segments of the stream Source when it is numbered from isn: the SYN *)
(* has the absolute sequence number 0, the bytes of Source have the        *)
(* numbers 1..N, and the FIN has N + 1.                                    *)
(***************************************************************************)
EXTENDS SourceStream, WrappingIntegers, ByteStream, TCPSegment

\* The segment that occupies the numbers a..b-1.  One with a = b occupies none:
\* a bare acknowledgment.
SegmentFrom(isn, a, b) ==
    Segment(wrap(a, isn), a = 0 /\ b > 0, a < b /\ b = N + 2,
            SubSeq(Source, max(a, 1), min(b - 1, N)))

=============================================================================
