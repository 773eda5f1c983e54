--------------------------- MODULE TCPReceiverSpec ---------------------------
(***************************************************************************)
(* A TCPReceiver whose peer sends the stream Source, numbered from         *)
(* PeerISN.  The network may lose, repeat and reorder what the peer sends, *)
(* and the peer may cut the stream into segments differently each time, so *)
(* that any segment of the stream may arrive at any time.  One restriction *)
(* is the network's segment lifetime: a segment further than half the      *)
(* 32-bit space from what has been received no longer exists.              *)
(***************************************************************************)
EXTENDS TCPReceiver, StreamSegment

CONSTANT PeerISN   \* the sequence number of the peer's SYN

ASSUME ReceiverAssumption ==
    /\ Source \in Seq(Byte)
    /\ PeerISN \in WrappingInt32
    /\ Capacity \in 1..(HalfSeq - 1)
    /\ Len(Source) + HalfSeq + 2 < HalfAbs

VARIABLE arrived   \* absolute sequence numbers handed to a receiver that has seen the SYN

recvVars == <<receiver_isn, reassembler, arrived>>

RecvInit == ReceiverInit(Capacity) /\ arrived = {}

\* The number n is no further than half the 32-bit space from the receiver's
\* checkpoint.
Alive(n) == n - bytes_written(out) \in (-HalfSeq)..(HalfSeq - 1)

RecvSegment(a, b) ==
    /\ a <= b
    /\ Alive(a)
    /\ segment_received(SegmentFrom(PeerISN, a, b))
    /\ arrived' = IF receiver_isn' = nullopt THEN arrived ELSE arrived \cup (a..(b - 1))

\* A byte whose sequence number is that of the SYN, which is not a stream index
\* (tests/recv_window.cc: "A byte with invalid stream index should be ignored").
StrayByte(byte) ==
    /\ Alive(0)
    /\ segment_received(Segment(PeerISN, FALSE, FALSE, <<byte>>))
    /\ UNCHANGED arrived

RecvRead(len) ==
    /\ receiver_read(len)
    /\ UNCHANGED arrived

OutError ==
    /\ receiver_set_error
    /\ UNCHANGED arrived

RecvNext ==
    \/ \E a, b \in 0..(N + 2) : RecvSegment(a, b)
    \/ \E byte \in Byte : StrayByte(byte)
    \/ \E len \in 1..(Capacity + 1) : RecvRead(len)
    \/ OutError

RecvSpec == RecvInit /\ [][RecvNext]_recvVars

-----------------------------------------------------------------------------
\* The application reads the peer's stream: no segment, however late, however
\* cut, whether its number has wrapped past 2^32 or not, puts a byte at the
\* wrong index.
StreamIsPrefix ==
    /\ buffer_size(out) = bytes_written(out) - bytes_read(out)
    /\ bytes_written(out) <= N
    /\ \A i \in 1..buffer_size(out) : out.buffer[i] = Source[bytes_read(out) + i]

\* ackno() promises "the sequence number of the first byte in the stream that
\* the receiver hasn't received" (tcp_receiver.hh): every number below it, the
\* SYN's and the FIN's included, has arrived, and it exists once the SYN has.
AckedHasArrived ==
    /\ ackno = nullopt <=> 0 \notin arrived
    /\ ackno # nullopt => \A n \in 0..(abs_ackno(reassembler) - 1) : n \in arrived

\* The right edge of the window, ackno + window_size, never moves left: room
\* once advertised is never taken back, and ackno itself never retreats.
WindowNeverShrinks ==
    [][/\ abs_ackno(reassembler') >= abs_ackno(reassembler)
       /\ abs_ackno(reassembler') + window_size(reassembler')
            >= abs_ackno(reassembler) + window_size(reassembler)]_recvVars

\* A segment that fits in the advertised window is not dropped: the byte at
\* ackno, when it arrives with room in the window, is acknowledged at once.
NextByteAccepted ==
    [][\A a, b \in 0..(N + 2) :
         LET next == abs_ackno(reassembler)
         IN  /\ ackno # nullopt /\ ~input_ended(out)
             /\ a <= next /\ next < b /\ b <= N + 1
             /\ window_size(reassembler) > 0
             /\ RecvSegment(a, b)
             => abs_ackno(reassembler') > next]_recvVars

=============================================================================
