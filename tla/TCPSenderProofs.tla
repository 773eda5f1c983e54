-------------------------- MODULE TCPSenderProofs --------------------------
(***************************************************************************)
(* For every stream, capacity, payload size, window and timeout, and       *)
(* whatever acknowledgments arrive: a TCPSender accounts for every         *)
(* sequence number, its outstanding segments are exactly what has not been *)
(* acknowledged, and everything it sends is the stream's own.              *)
(*                                                                         *)
(* The segments carry 32-bit numbers, and what ack_received() recovers     *)
(* from them depends on _next_seqno.  The invariant therefore speaks of    *)
(* the absolute numbers at which the segments start (Tiled), which no step *)
(* changes; that the recovered ones agree with them is UnwrapWrap, as long *)
(* as less than half the sequence space is in flight (Near).               *)
(***************************************************************************)
EXTENDS TCPSenderSpec, StreamSegment, WrappingIntegersProofs, SequenceTheorems

Seg == SegmentType(WrappingInt32, Byte)

Types ==
    /\ stream \in ByteStreamType(Byte)
    /\ next_seqno \in Nat /\ receiver_ack \in Nat
    /\ receiver_window_size \in 0..(HalfAbs - 1)   \* (a uint16_t)
    /\ set_syn_flag \in BOOLEAN /\ set_fin_flag \in BOOLEAN
    /\ outstanding_segments \in Seq(Seg)
    /\ timer \in TimerType

\* What waits in the stream is the next part of Source.
Buffered ==
    /\ stream.written_bytes = stream.read_bytes + Len(stream.buffer)
    /\ stream.written_bytes <= N
    /\ Len(stream.buffer) <= stream.capacity
    /\ stream.end_write => stream.written_bytes = N
    /\ \A i \in 1..Len(stream.buffer) : stream.buffer[i] = Source[stream.read_bytes + i]

Accounted ==
    /\ next_seqno = (IF set_syn_flag THEN 1 ELSE 0) + stream.read_bytes
                      + (IF set_fin_flag THEN 1 ELSE 0)
    /\ set_syn_flag <=> next_seqno # 0
    /\ set_fin_flag => stream.buffer = <<>> /\ stream.end_write

Near == stream.written_bytes + 2 <= receiver_ack + HalfSeq

\* The outstanding segments start at start[1], start[2] and so on.
Tiled(start) ==
    LET q == outstanding_segments
    IN  /\ start \in [1..(Len(q) + 1) -> Nat]
        /\ start[1] = receiver_ack /\ start[Len(q) + 1] = next_seqno
        /\ \A j, k \in 1..(Len(q) + 1) : j <= k => start[j] <= start[k]
        /\ \A k \in 1..Len(q) :
               /\ start[k + 1] = start[k] + length_in_sequence_space(q[k])
               /\ length_in_sequence_space(q[k]) > 0
               /\ CarriesSource(q[k], start[k])

Timed ==
    /\ timer.is_running <=> outstanding_segments # <<>>
    /\ timer.is_running => timer.accumulate_time < timer.rto
    /\ timer.rto >= InitRTO /\ timer.init_rto = InitRTO

SenderInv == Types /\ Buffered /\ Accounted /\ Near /\ Timed /\ \E start : Tiled(start)

-----------------------------------------------------------------------------
\* The constants, and the bound on what can be sent.
LEMMA Constants ==
    /\ N \in Nat /\ InitRTO \in Nat \ {0} /\ MaxPayload \in Nat \ {0}
    /\ AbsMod \in Nat \ {0} /\ HalfAbs \in Nat /\ AbsMod = 2 * HalfAbs
    /\ HalfSeq \in Nat /\ HalfSeq >= 2 /\ N + 2 < HalfAbs
    /\ SenderISN \in WrappingInt32
<1>1. N \in Nat
  BY SenderSpecAssumption, LenProperties DEF N
<1>2. AbsMod \in Nat \ {0} /\ HalfAbs \in Nat /\ AbsMod = 2 * HalfAbs
  BY AbsModAssumption DEF HalfAbs
<1>3. HalfSeq \in Nat
  BY SeqModAssumption DEF HalfSeq
<1> QED
  BY <1>1, <1>2, <1>3, SenderSpecAssumption, SenderAssumption

\* Sums that stay below 2^63 do not wrap around.
LEMMA Add64Small ==
    ASSUME NEW a \in Nat, NEW b \in Nat, a + b <= N + 2
    PROVE  add64(a, b) = a + b
<1>1. a + b \in 0..(AbsMod - 1)
  BY Constants
<1> QED
  BY <1>1, Constants, ModSmall DEF add64

\* What can be had from the parts of the invariant.
LEMMA Bounds ==
    ASSUME Types, Buffered, Accounted
    PROVE  /\ stream.read_bytes \in Nat /\ stream.written_bytes \in Nat /\ stream.capacity \in Nat
           /\ stream.end_write \in BOOLEAN /\ stream.buffer \in Seq(Byte)
           /\ Len(stream.buffer) \in Nat
           /\ next_seqno <= stream.written_bytes + 2 /\ next_seqno <= N + 2
           /\ stream.read_bytes <= stream.written_bytes
<1>1. /\ stream.read_bytes \in Nat /\ stream.written_bytes \in Nat /\ stream.capacity \in Nat
      /\ stream.end_write \in BOOLEAN /\ stream.buffer \in Seq(Byte)
  BY DEF Types, ByteStreamType
<1>2. Len(stream.buffer) \in Nat
  BY <1>1, LenProperties
<1>3. next_seqno <= stream.read_bytes + 2
  BY <1>1 DEF Accounted, Types
<1> QED
  BY <1>1, <1>2, <1>3, Constants DEF Buffered, Types

\* The length of a segment is a number.
LEMMA SegLength ==
    ASSUME NEW seg \in Seg
    PROVE  length_in_sequence_space(seg) \in Nat
<1>1. seg.payload \in Seq(Byte)
  BY DEF Seg, SegmentType
<1>2. Len(seg.payload) \in Nat
  BY <1>1, LenProperties
<1> DEFINE syn == IF seg.syn THEN 1 ELSE 0
           fin == IF seg.fin THEN 1 ELSE 0
<1>3. syn \in Nat /\ fin \in Nat
  OBVIOUS
<1>4. length_in_sequence_space(seg) = Len(seg.payload) + syn + fin
  BY DEF length_in_sequence_space
<1> HIDE DEF syn, fin
<1> QED
  BY <1>2, <1>3, <1>4

\* What ack_received() recovers from a segment is where it starts and ends.
LEMMA Recovered ==
    ASSUME Types, Buffered, Accounted, Near, NEW start, Tiled(start),
           NEW k \in 1..Len(outstanding_segments)
    PROVE  /\ seg_start(outstanding_segments[k]) = start[k]
           /\ seg_end(outstanding_segments[k]) = start[k + 1]
<1> DEFINE q == outstanding_segments
<1>1. Len(q) \in Nat /\ q[k] \in Seg
  BY LenProperties, ElementOfSeq DEF Types
<1>2. k \in 1..(Len(q) + 1) /\ k + 1 \in 1..(Len(q) + 1) /\ 1 \in 1..(Len(q) + 1) /\ Len(q) + 1 \in 1..(Len(q) + 1)
  BY <1>1
<1>3. start[k] \in Nat /\ start[k + 1] \in Nat
  BY <1>2 DEF Tiled
<1>4. receiver_ack <= start[k] /\ start[k] <= start[k + 1] /\ start[k + 1] <= next_seqno
  <2>1. /\ start[1] = receiver_ack /\ start[Len(q) + 1] = next_seqno
        /\ \A i, j \in 1..(Len(q) + 1) : i <= j => start[i] <= start[j]
    BY DEF Tiled
  <2>2. 1 <= k /\ k <= k + 1 /\ k + 1 <= Len(q) + 1
    BY <1>1
  <2> QED
    BY <1>2, <2>1, <2>2
<1>5. /\ start[k + 1] = start[k] + length_in_sequence_space(q[k])
      /\ length_in_sequence_space(q[k]) > 0
      /\ q[k].seqno = wrap(start[k], SenderISN)
  BY DEF Tiled, CarriesSource
<1>6. length_in_sequence_space(q[k]) \in Nat
  BY <1>1, SegLength
<1> HIDE DEF q
<1>7. /\ start[k] \in 0..(HalfAbs - 1) /\ next_seqno \in 0..(HalfAbs - 1)
      /\ start[k] - next_seqno \in (-HalfSeq)..(HalfSeq - 1)
  <2>1. /\ next_seqno \in Nat /\ next_seqno <= stream.written_bytes + 2 /\ next_seqno <= N + 2
        /\ stream.written_bytes \in Nat /\ receiver_ack \in Nat
    BY Bounds DEF Types
  <2>2. next_seqno <= receiver_ack + HalfSeq
    BY <2>1, Constants DEF Near
  <2> QED
    BY <1>3, <1>4, <2>1, <2>2, Constants, SMTT(30)
<1>8. seg_start(q[k]) = start[k]
  BY <1>5, <1>7, Constants, UnwrapWrap DEF seg_start
<1>9. start[k] + length_in_sequence_space(q[k]) <= N + 2
  BY <1>3, <1>4, <1>5, Bounds, Constants DEF Types
<1>10. seg_end(q[k]) = start[k + 1]
  BY <1>3, <1>5, <1>6, <1>8, <1>9, Add64Small DEF seg_end
<1> QED
  BY <1>8, <1>10 DEF q

\* The invariant says what OutstandingTiles does.
LEMMA InvTiles == SenderInv => OutstandingTiles
<1> SUFFICES ASSUME SenderInv PROVE OutstandingTiles
  OBVIOUS
<1> DEFINE q == outstanding_segments
           n == Len(q)
<1>1. PICK start : Tiled(start)
  BY DEF SenderInv
<1>2. n \in Nat
  BY LenProperties DEF SenderInv, Types
<1>3. \A k \in 1..n : seg_start(q[k]) = start[k] /\ seg_end(q[k]) = start[k + 1]
  BY <1>1, Recovered DEF SenderInv
<1>4. /\ start[1] = receiver_ack /\ start[n + 1] = next_seqno
      /\ \A k \in 1..n : length_in_sequence_space(q[k]) > 0 /\ CarriesSource(q[k], start[k])
  BY <1>1 DEF Tiled
<1> HIDE DEF q, n
<1>5. n = 0 => receiver_ack = next_seqno
  BY <1>4
<1>6. n > 0 => seg_start(q[1]) = receiver_ack /\ seg_end(q[n]) = next_seqno
  BY <1>2, <1>3, <1>4
<1>7. \A k \in 1..(n - 1) : seg_end(q[k]) = seg_start(q[k + 1])
  BY <1>2, <1>3
<1>8. \A k \in 1..n : length_in_sequence_space(q[k]) > 0 /\ CarriesSource(q[k], seg_start(q[k]))
  BY <1>3, <1>4
<1> QED
  BY <1>5, <1>6, <1>7, <1>8 DEF OutstandingTiles, q, n

-----------------------------------------------------------------------------
\* unwrap() is an integer whatever the peer sends.
LEMMA UnwrapInt ==
    ASSUME NEW n \in WrappingInt32, NEW checkpoint \in Nat
    PROVE  unwrap(n, SenderISN, checkpoint) \in Int
<1> DEFINE w == wrap(checkpoint, SenderISN)
           d == distance32(n, w)
           s == add64(checkpoint, d)
<1>1. w \in WrappingInt32
  BY Constants, WrapIsMod
<1>2. SeqMod \in Nat \ {0} /\ AbsMod \in Nat \ {0}
  BY Constants, SeqModAssumption
<1>3. n \in Int /\ w \in Int
  BY <1>1, <1>2 DEF WrappingInt32
<1> HIDE DEF w
<1>4. (n - w) % SeqMod \in Int
  BY <1>2, <1>3, DivMod
<1>5. d \in Int
  BY <1>2, <1>4, Constants DEF distance32
<1> HIDE DEF d
<1>6. s \in Int
  BY <1>2, <1>5, DivMod DEF add64
<1> HIDE DEF s
<1>7. int64(s) \in Int
  BY <1>2, <1>6, Constants DEF int64
<1>8. add64(int64(s), SeqMod) \in Int
  BY <1>2, <1>7, DivMod DEF add64
<1> QED
  BY <1>7, <1>8 DEF unwrap, s, d, w

-----------------------------------------------------------------------------
\* A segment that carries what follows _next_seqno goes out.
LEMMA EmitKeeps ==
    ASSUME Types, Timed, NEW start, Tiled(start), NEW seg \in Seg, NEW n \in Nat,
           n = next_seqno + length_in_sequence_space(seg),
           length_in_sequence_space(seg) > 0, CarriesSource(seg, next_seqno),
           emit(seg, n)
    PROVE  /\ outstanding_segments' \in Seq(Seg) /\ timer' \in TimerType
           /\ next_seqno' \in Nat /\ receiver_ack' \in Nat /\ receiver_window_size' \in 0..(HalfAbs - 1)
           /\ Timed' /\ \E s : Tiled(s)'
<1> DEFINE q == outstanding_segments
           len == Len(q)
<1>1. q \in Seq(Seg) /\ len \in Nat /\ next_seqno \in Nat
  BY LenProperties DEF Types
<1>2. /\ q' = Append(q, seg) /\ next_seqno' = n /\ timer' = start_timer(timer)
      /\ receiver_ack' = receiver_ack /\ receiver_window_size' = receiver_window_size
  BY DEF emit
<1>3. /\ q' \in Seq(Seg) /\ Len(q') = len + 1 /\ q'[len + 1] = seg
      /\ \A k \in 1..len : q'[k] = q[k]
  BY <1>1, <1>2, AppendProperties
<1>4. timer' \in TimerType /\ Timed'
  <2>1. timer \in TimerType /\ timer.init_rto = InitRTO /\ InitRTO \in Nat \ {0}
    BY Constants DEF Types, Timed
  <2>2. q' # <<>>
    BY <1>1, <1>3
  <2>3. CASE timer.is_running
    BY <1>2, <2>1, <2>2, <2>3 DEF Timed, start_timer
  <2>4. CASE ~timer.is_running
    <3>1. timer' = [timer EXCEPT !.is_running = TRUE, !.rto = InitRTO, !.accumulate_time = 0]
      BY <1>2, <2>1, <2>4 DEF start_timer
    <3>2. /\ timer' \in TimerType /\ timer'.is_running = TRUE /\ timer'.rto = InitRTO
          /\ timer'.accumulate_time = 0 /\ timer'.init_rto = InitRTO
      BY <2>1, <3>1, Zenon DEF TimerType
    <3> QED
      BY <2>1, <2>2, <3>2 DEF Timed
  <2> QED
    BY <2>3, <2>4
<1>5. /\ start \in [1..(len + 1) -> Nat] /\ start[1] = receiver_ack /\ start[len + 1] = next_seqno
      /\ \A j, k \in 1..(len + 1) : j <= k => start[j] <= start[k]
      /\ \A k \in 1..len : /\ start[k + 1] = start[k] + length_in_sequence_space(q[k])
                           /\ length_in_sequence_space(q[k]) > 0
                           /\ CarriesSource(q[k], start[k])
  BY DEF Tiled
<1>6. next_seqno <= n
  <2>1. length_in_sequence_space(seg) \in Nat
    BY SegLength
  <2> QED
    BY <1>1, <2>1
<1>7. PICK s \in [1..(len + 2) -> Nat] :
          s[len + 2] = n /\ \A k \in 1..(len + 1) : s[k] = start[k]
  <2> DEFINE longer == [k \in 1..(len + 2) |-> IF k <= len + 1 THEN start[k] ELSE n]
  <2>1. /\ longer \in [1..(len + 2) -> Nat]
        /\ longer[len + 2] = n /\ \A k \in 1..(len + 1) : longer[k] = start[k]
    BY <1>1, <1>5
  <2> HIDE DEF longer
  <2> QED
    BY <2>1
<1> HIDE DEF q, len
<1>8. \A j, k \in 1..(len + 2) : j <= k => s[j] <= s[k]
  <2> TAKE j, k \in 1..(len + 2)
  <2> HAVE j <= k
  <2>1. CASE k <= len + 1
    BY <1>1, <1>5, <1>7, <2>1
  <2>2. CASE k = len + 2 /\ j <= len + 1
    <3>1. j \in 1..(len + 1) /\ len + 1 \in 1..(len + 1)
      BY <1>1, <2>2
    <3>2. start[j] <= next_seqno
      BY <1>5, <3>1
    <3>3. start[j] \in Nat
      BY <1>5, <3>1
    <3> QED
      BY <1>1, <1>6, <1>7, <2>2, <3>1, <3>2, <3>3
  <2>3. CASE k = len + 2 /\ j = len + 2
    BY <1>7, <2>3
  <2> QED
    BY <1>1, <2>1, <2>2, <2>3
<1>9. ASSUME NEW k \in 1..(len + 1)
      PROVE  /\ s[k + 1] = s[k] + length_in_sequence_space(q'[k])
             /\ length_in_sequence_space(q'[k]) > 0
             /\ CarriesSource(q'[k], s[k])
  <2>1. CASE k \in 1..len
    <3>1. k \in 1..(len + 1) /\ k + 1 \in 1..(len + 1)
      BY <1>1, <2>1
    <3>2. q'[k] = q[k] /\ s[k] = start[k] /\ s[k + 1] = start[k + 1]
      BY <1>3, <1>7, <2>1, <3>1
    <3> QED
      BY <1>5, <2>1, <3>2
  <2>2. CASE k = len + 1
    <3>1. s[k] = next_seqno /\ s[k + 1] = n /\ q'[k] = seg
      BY <1>1, <1>3, <1>5, <1>7, <2>2
    <3> QED
      BY <3>1
  <2> QED
    BY <1>1, <2>1, <2>2
<1>10. s[1] = receiver_ack' /\ s[Len(q') + 1] = next_seqno' /\ Len(q') + 1 = len + 2
  BY <1>1, <1>2, <1>3, <1>5, <1>7
<1>11. Tiled(s)'
  BY <1>3, <1>7, <1>8, <1>9, <1>10 DEF Tiled, q
<1> QED
  BY <1>1, <1>2, <1>3, <1>4, <1>11 DEF q, Types

\* What is left of a sequence without its first n elements, and those.
LEMMA FrontAndRest ==
    ASSUME NEW S, NEW q \in Seq(S), NEW n \in 0..Len(q)
    PROVE  /\ SubSeq(q, n + 1, Len(q)) \in Seq(S)
           /\ Len(SubSeq(q, n + 1, Len(q))) = Len(q) - n
           /\ \A k \in 1..(Len(q) - n) : SubSeq(q, n + 1, Len(q))[k] = q[n + k]
           /\ SubSeq(q, 1, n) \in Seq(S)
           /\ Len(SubSeq(q, 1, n)) = n
           /\ \A k \in 1..n : SubSeq(q, 1, n)[k] = q[k]
<1>1. Len(q) \in Nat /\ \A i \in 1..Len(q) : q[i] \in S
  BY LenProperties, ElementOfSeq
<1>2. (\A i \in (n + 1)..Len(q) : q[i] \in S) /\ (\A i \in 1..n : q[i] \in S)
  BY <1>1
<1>3. /\ SubSeq(q, n + 1, Len(q)) \in Seq(S)
      /\ Len(SubSeq(q, n + 1, Len(q))) = IF n + 1 <= Len(q) THEN Len(q) - (n + 1) + 1 ELSE 0
      /\ \A i \in 1..(Len(q) - (n + 1) + 1) : SubSeq(q, n + 1, Len(q))[i] = q[(n + 1) + i - 1]
  BY <1>1, <1>2, SubSeqProperties
<1>4. /\ SubSeq(q, 1, n) \in Seq(S)
      /\ Len(SubSeq(q, 1, n)) = IF 1 <= n THEN n - 1 + 1 ELSE 0
      /\ \A i \in 1..(n - 1 + 1) : SubSeq(q, 1, n)[i] = q[1 + i - 1]
  BY <1>1, <1>2, SubSeqProperties
<1>5. Len(q) - (n + 1) + 1 = Len(q) - n /\ n - 1 + 1 = n
  BY <1>1
<1>6. \A k \in 1..(Len(q) - n) : SubSeq(q, n + 1, Len(q))[k] = q[n + k]
  <2> TAKE k \in 1..(Len(q) - n)
  <2>1. (n + 1) + k - 1 = n + k
    BY <1>1
  <2> QED
    BY <1>3, <1>5, <2>1
<1>7. \A k \in 1..n : SubSeq(q, 1, n)[k] = q[k]
  <2> TAKE k \in 1..n
  <2>1. 1 + k - 1 = k
    OBVIOUS
  <2> QED
    BY <1>4, <1>5, <2>1
<1>8. Len(SubSeq(q, n + 1, Len(q))) = Len(q) - n /\ Len(SubSeq(q, 1, n)) = n
  BY <1>1, <1>3, <1>4
<1> QED
  BY <1>3, <1>4, <1>6, <1>7, <1>8

\* An acceptable acknowledgment drops whole segments from the front.
LEMMA TakeAckKeeps ==
    ASSUME SenderInv, NEW a \in Int, NEW window_size \in 0..(HalfAbs - 1), take_ack(a, window_size)
    PROVE  SenderInv'
<1> DEFINE q == outstanding_segments
           len == Len(q)
<1>1. PICK start : Tiled(start)
  BY DEF SenderInv
<1>2. q \in Seq(Seg) /\ len \in Nat
  BY LenProperties DEF SenderInv, Types
<1>3. \A k \in 1..len : seg_end(q[k]) = start[k + 1]
  BY <1>1, Recovered DEF SenderInv
<1>4. /\ start \in [1..(len + 1) -> Nat] /\ start[1] = receiver_ack /\ start[len + 1] = next_seqno
      /\ \A j, k \in 1..(len + 1) : j <= k => start[j] <= start[k]
      /\ \A k \in 1..len : /\ start[k + 1] = start[k] + length_in_sequence_space(q[k])
                           /\ length_in_sequence_space(q[k]) > 0
                           /\ CarriesSource(q[k], start[k])
  BY <1>1 DEF Tiled
<1>5. PICK n \in 0..len :
        LET rest    == SubSeq(q, n + 1, len)
            stopped == IF rest = <<>> THEN stop_timer(timer) ELSE timer
        IN  /\ receiver_window_size' = window_size /\ q' = rest
            /\ receiver_ack' = IF n > 0 THEN seg_end(q[n]) ELSE receiver_ack
            /\ timer' = IF n > 0 THEN set_accumulate_time(set_timeout(stopped, InitRTO), 0)
                                 ELSE stopped
            /\ UNCHANGED <<stream, next_seqno, set_syn_flag, set_fin_flag>>
  BY DEF take_ack
<1> DEFINE rest == SubSeq(q, n + 1, len)
<1>6. n \in 0..len
  OBVIOUS
<1>7. /\ receiver_window_size' = window_size /\ q' = rest
      /\ receiver_ack' = IF n > 0 THEN seg_end(q[n]) ELSE receiver_ack
      /\ timer' = LET stopped == IF rest = <<>> THEN stop_timer(timer) ELSE timer
                  IN  IF n > 0 THEN set_accumulate_time(set_timeout(stopped, InitRTO), 0)
                               ELSE stopped
      /\ UNCHANGED <<stream, next_seqno, set_syn_flag, set_fin_flag>>
  BY <1>5, Zenon
<1>8. rest \in Seq(Seg) /\ Len(rest) = len - n /\ \A k \in 1..(len - n) : rest[k] = q[n + k]
  BY <1>2, <1>6, FrontAndRest
<1>9. receiver_ack' = start[n + 1]
  BY <1>2, <1>3, <1>4, <1>6, <1>7
<1>10. n + 1 \in 1..(len + 1) /\ 1 \in 1..(len + 1) /\ 1 <= n + 1
  BY <1>2, <1>6
<1>11. receiver_ack' \in Nat /\ receiver_ack <= receiver_ack'
  BY <1>4, <1>9, <1>10
<1>12. timer' \in TimerType /\ Timed'
  <2>1. /\ timer \in TimerType /\ timer.init_rto = InitRTO /\ InitRTO \in Nat \ {0}
        /\ timer.is_running <=> q # <<>>
        /\ timer.is_running => timer.accumulate_time < timer.rto
        /\ timer.rto >= InitRTO
    BY Constants DEF SenderInv, Types, Timed
  <2> DEFINE stopped == IF rest = <<>> THEN stop_timer(timer) ELSE timer
  <2>2. rest # <<>> => q # <<>>
    <3>1. q = <<>> => len = 0
      OBVIOUS
    <3>2. len = 0 => Len(rest) = 0
      BY <1>2, <1>6, <1>8
    <3>3. Len(rest) = 0 => rest = <<>>
      BY <1>8, EmptySeq
    <3> QED
      BY <3>1, <3>2, <3>3
  <2> HIDE DEF rest, q
  <2>3. /\ stopped \in TimerType
        /\ stopped.is_running <=> rest # <<>>
        /\ stopped.rto = timer.rto /\ stopped.accumulate_time = timer.accumulate_time
        /\ stopped.init_rto = InitRTO
    BY <2>1, <2>2, Zenon DEF stop_timer, TimerType
  <2> HIDE DEF stopped
  <2>4. CASE n > 0
    <3>1. timer' = set_accumulate_time(set_timeout(stopped, InitRTO), 0)
      BY <1>7, <2>4 DEF stopped
    <3>2. /\ timer' \in TimerType /\ timer'.is_running = stopped.is_running
          /\ timer'.rto = InitRTO /\ timer'.accumulate_time = 0 /\ timer'.init_rto = InitRTO
      BY <2>1, <2>3, <3>1, Zenon DEF set_accumulate_time, set_timeout, TimerType
    <3> QED
      BY <1>7, <2>1, <2>3, <3>2 DEF Timed, q
  <2>5. CASE ~(n > 0)
    <3>1. timer' = stopped
      BY <1>7, <2>5 DEF stopped
    <3>2. stopped.is_running => timer.is_running
      BY <2>1, <2>2, <2>3
    <3> QED
      BY <1>7, <2>1, <2>3, <3>1, <3>2 DEF Timed, q
  <2> QED
    BY <2>4, <2>5
<1>13. \E s : Tiled(s)'
  <2> DEFINE m == len - n
  <2>1. m \in Nat /\ Len(q') = m /\ \A k \in 1..m : q'[k] = q[n + k]
    BY <1>2, <1>6, <1>7, <1>8
  <2>2. \A k \in 1..(m + 1) : n + k \in 1..(len + 1)
    BY <1>2, <1>6
  <2>3. PICK s \in [1..(m + 1) -> Nat] : \A k \in 1..(m + 1) : s[k] = start[n + k]
    <3> DEFINE shorter == [k \in 1..(m + 1) |-> start[n + k]]
    <3>1. shorter \in [1..(m + 1) -> Nat] /\ \A k \in 1..(m + 1) : shorter[k] = start[n + k]
      BY <1>4, <2>2
    <3> HIDE DEF shorter
    <3> QED
      BY <3>1, Zenon
  <2>4. s[1] = receiver_ack' /\ s[m + 1] = next_seqno'
    <3>1. 1 \in 1..(m + 1) /\ m + 1 \in 1..(m + 1) /\ n + (m + 1) = len + 1
      BY <1>2, <1>6, <2>1
    <3> HIDE DEF m
    <3> QED
      BY <1>4, <1>7, <1>9, <2>3, <3>1
  <2> HIDE DEF rest, q
  <2>5. \A j, k \in 1..(m + 1) : j <= k => s[j] <= s[k]
    <3> TAKE j, k \in 1..(m + 1)
    <3> HAVE j <= k
    <3>1. n + j \in 1..(len + 1) /\ n + k \in 1..(len + 1) /\ n + j <= n + k
      BY <1>6, <2>2
    <3> QED
      BY <1>4, <2>3, <3>1
  <2>6. ASSUME NEW k \in 1..m
        PROVE  /\ s[k + 1] = s[k] + length_in_sequence_space(q'[k])
               /\ length_in_sequence_space(q'[k]) > 0
               /\ CarriesSource(q'[k], s[k])
    <3>1. n + k \in 1..len /\ k \in 1..(m + 1) /\ k + 1 \in 1..(m + 1) /\ n + (k + 1) = (n + k) + 1
      BY <1>2, <1>6, <2>1
    <3>2. s[k] = start[n + k] /\ s[k + 1] = start[(n + k) + 1] /\ q'[k] = q[n + k]
      BY <2>1, <2>3, <3>1
    <3> QED
      BY <1>4, <3>1, <3>2, SMTT(30)
  <2>7. Tiled(s)'
    BY <2>1, <2>3, <2>4, <2>5, <2>6 DEF Tiled, q
  <2> QED
    BY <2>7
<1>14. Types'
  BY <1>7, <1>8, <1>11, <1>12, Zenon DEF SenderInv, Types
<1>15. Buffered' /\ Accounted'
  BY <1>7 DEF SenderInv, Buffered, Accounted
<1>16. Near'
  BY <1>7, <1>11, Constants, Bounds, SMTT(30) DEF SenderInv, Near, Types
<1> QED
  BY <1>12, <1>13, <1>14, <1>15, <1>16 DEF SenderInv

\* It never takes anything back.
LEMMA TakeAckAdvances ==
    ASSUME SenderInv, NEW a \in Int, NEW window_size \in Nat, take_ack(a, window_size)
    PROVE  receiver_ack <= receiver_ack'
<1> DEFINE q == outstanding_segments
           len == Len(q)
<1>1. PICK start : Tiled(start)
  BY DEF SenderInv
<1>2. len \in Nat
  BY LenProperties DEF SenderInv, Types
<1>3. \A k \in 1..len : seg_end(q[k]) = start[k + 1]
  BY <1>1, Recovered DEF SenderInv
<1>4. /\ start \in [1..(len + 1) -> Nat] /\ start[1] = receiver_ack
      /\ \A j, k \in 1..(len + 1) : j <= k => start[j] <= start[k]
  BY <1>1 DEF Tiled
<1>5. \A k \in 1..len : k + 1 \in 1..(len + 1) /\ start[k + 1] \in Nat
  BY <1>2, <1>4
<1>6. PICK n \in 0..len : receiver_ack' = IF n > 0 THEN seg_end(q[n]) ELSE receiver_ack
  BY DEF take_ack
<1>7. n \in 0..len /\ receiver_ack' = IF n > 0 THEN seg_end(q[n]) ELSE receiver_ack
  BY <1>6
<1> HIDE DEF q, len
<1>8. CASE n > 0
  <2>1. n \in 1..len /\ 1 \in 1..(len + 1) /\ n + 1 \in 1..(len + 1) /\ 1 <= n + 1
    BY <1>2, <1>6, <1>8
  <2>2. receiver_ack' = start[n + 1]
    BY <1>3, <1>7, <1>8, <2>1
  <2> QED
    BY <1>4, <2>1, <2>2
<1>9. CASE ~(n > 0)
  <2>1. receiver_ack \in Nat
    BY DEF SenderInv, Types
  <2> QED
    BY <1>7, <1>9, <2>1
<1> QED
  BY <1>8, <1>9

\* Time passes.
LEMMA TickKeeps ==
    ASSUME SenderInv, NEW ms \in Nat, tick(ms)
    PROVE  SenderInv'
<1>1. UNCHANGED <<stream, next_seqno, receiver_ack, receiver_window_size, set_syn_flag,
                  set_fin_flag, outstanding_segments>>
  BY DEF tick
<1>2. /\ timer \in TimerType /\ timer.init_rto = InitRTO /\ InitRTO \in Nat \ {0}
      /\ timer.rto >= InitRTO
      /\ timer.is_running => timer.accumulate_time < timer.rto
  BY Constants DEF SenderInv, Types, Timed
<1>3. /\ timer' \in TimerType /\ timer'.is_running = timer.is_running
      /\ timer'.is_running => timer'.accumulate_time < timer'.rto
      /\ timer'.rto >= InitRTO /\ timer'.init_rto = InitRTO
  <2>1. CASE check_timeout(timer, ms)
    <3>1. timer.is_running
      BY <2>1 DEF check_timeout
    <3>2. CASE receiver_window_size > 0
      <4>1. timer' = handle_timeout(accumulate(timer, ms))
        BY <2>1, <3>2 DEF tick
      <4>2. /\ timer' \in TimerType /\ timer'.is_running = timer.is_running
            /\ timer'.accumulate_time = 0 /\ timer'.rto = 2 * timer.rto
            /\ timer'.init_rto = InitRTO
        <5> DEFINE t == accumulate(timer, ms)
        <5>1. /\ t \in TimerType /\ t.is_running = timer.is_running
              /\ t.rto = timer.rto /\ t.init_rto = timer.init_rto
          <6>1. t = [timer EXCEPT !.accumulate_time = timer.accumulate_time + ms]
            BY <3>1 DEF accumulate
          <6>2. timer.accumulate_time + ms \in Nat
            BY <1>2 DEF TimerType
          <6> HIDE DEF t
          <6> QED
            BY <1>2, <6>1, <6>2 DEF TimerType
        <5>2. timer' = [t EXCEPT !.rto = 2 * t.rto, !.accumulate_time = 0]
          BY <4>1 DEF handle_timeout
        <5> HIDE DEF t
        <5>3. 2 * t.rto \in Nat
          BY <5>1 DEF TimerType
        <5> QED
          BY <1>2, <5>1, <5>2, <5>3, Zenon DEF TimerType
      <4>3. timer.rto \in Nat
        BY <1>2 DEF TimerType
      <4> QED
        BY <1>2, <4>2, <4>3
    <3>3. CASE ~(receiver_window_size > 0)
      <4>1. timer' = set_accumulate_time(set_timeout(timer, InitRTO), 0)
        BY <2>1, <3>3 DEF tick
      <4>2. /\ timer' \in TimerType /\ timer'.is_running = timer.is_running
            /\ timer'.accumulate_time = 0 /\ timer'.rto = InitRTO /\ timer'.init_rto = InitRTO
        BY <1>2, <4>1, Zenon DEF set_accumulate_time, set_timeout, TimerType
      <4> QED
        BY <1>2, <4>2
    <3> QED
      BY <3>2, <3>3
  <2>2. CASE ~check_timeout(timer, ms)
    <3>1. timer' = accumulate(timer, ms)
      BY <2>2 DEF tick
    <3>2. CASE timer.is_running
      <4>1. timer.accumulate_time + ms < timer.rto
        BY <1>2, <2>2, <3>2 DEF check_timeout, TimerType
      <4>2. timer' = [timer EXCEPT !.accumulate_time = @ + ms]
        BY <3>1, <3>2 DEF accumulate
      <4> QED
        BY <1>2, <4>1, <4>2 DEF TimerType
    <3>3. CASE ~timer.is_running
      BY <1>2, <3>1, <3>3 DEF accumulate
    <3> QED
      BY <3>2, <3>3
  <2> QED
    BY <2>1, <2>2
<1>4. Types' /\ Buffered' /\ Accounted' /\ Near'
  BY <1>1, <1>3 DEF SenderInv, Types, Buffered, Accounted, Near
<1>5. Timed'
  BY <1>1, <1>3 DEF SenderInv, Timed
<1>6. \E start : Tiled(start)'
  BY <1>1 DEF SenderInv, Tiled
<1> QED
  BY <1>4, <1>5, <1>6 DEF SenderInv

\* The first segment.
LEMMA SynSegment ==
    LET seg == Segment(SenderISN, TRUE, FALSE, <<>>)
    IN  seg \in Seg /\ CarriesSource(seg, 0) /\ length_in_sequence_space(seg) = 1
<1> DEFINE seg == Segment(SenderISN, TRUE, FALSE, <<>>)
<1>1. seg \in Seg /\ length_in_sequence_space(seg) = 1
  <2>1. <<>> \in Seq(Byte) /\ Len(<<>>) = 0
    BY EmptySeq
  <2> QED
    BY <2>1, Constants DEF Seg, Segment, SegmentType, length_in_sequence_space
<1>2. wrap(0, SenderISN) = SenderISN
  <2>1. SenderISN \in WrappingInt32 /\ SeqMod \in Nat \ {0}
    BY Constants, SeqModAssumption
  <2>2. SenderISN \in 0..(SeqMod - 1)
    BY <2>1 DEF WrappingInt32
  <2>3. (SenderISN + 0) % SeqMod = SenderISN
    <3>1. SenderISN + 0 = SenderISN
      BY <2>1, <2>2
    <3> QED
      BY <2>1, <2>2, <3>1, ModSmall
  <2> QED
    BY <2>1, <2>3, WrapIsMod
<1>3. CarriesSource(seg, 0)
  BY <1>2, Constants, EmptySeq DEF CarriesSource, Segment
<1> QED
  BY <1>1, <1>3, Zenon

\* It keeps the invariant.
LEMMA SendSynKeeps ==
    ASSUME SenderInv, ~set_fin_flag, next_seqno = 0, send_syn
    PROVE  SenderInv'
<1> DEFINE seg == Segment(SenderISN, TRUE, FALSE, <<>>)
<1>1. PICK start : Tiled(start)
  BY DEF SenderInv
<1>2. seg \in Seg /\ length_in_sequence_space(seg) = 1
  BY SynSegment, Zenon
<1>3. add64(next_seqno, 1) = 1
  BY Constants, Add64Small
<1>4. CarriesSource(seg, next_seqno)
  BY SynSegment, Zenon
<1>6. emit(seg, 1) /\ set_syn_flag' = TRUE /\ UNCHANGED <<stream, set_fin_flag>>
  BY <1>3, Zenon DEF send_syn
<1> HIDE DEF seg
<1>7. 1 = next_seqno + length_in_sequence_space(seg) /\ length_in_sequence_space(seg) > 0
  BY <1>2
<1>8. /\ outstanding_segments' \in Seq(Seg) /\ timer' \in TimerType
      /\ next_seqno' \in Nat /\ receiver_ack' \in Nat /\ receiver_window_size' \in 0..(HalfAbs - 1)
      /\ Timed' /\ \E s : Tiled(s)'
  BY <1>1, <1>2, <1>4, <1>6, <1>7, EmitKeeps DEF SenderInv
<1>9. Types'
  BY <1>6, <1>8 DEF SenderInv, Types
<1>10. Buffered'
  BY <1>6 DEF SenderInv, Buffered
<1>11. Accounted'
  <2>1. next_seqno' = 1
    BY <1>6 DEF emit
  <2>2. stream.read_bytes = 0
    BY Bounds DEF SenderInv, Accounted
  <2> QED
    BY <1>6, <2>1, <2>2 DEF Accounted
<1>12. Near'
  BY <1>6 DEF SenderInv, Near, emit
<1> QED
  BY <1>8, <1>9, <1>10, <1>11, <1>12 DEF SenderInv

\* The payload never exceeds what the stream holds.
LEMMA PayloadSize ==
    ASSUME SenderInv
    PROVE  payload_size \in 0..Len(stream.buffer)
<1>1. Len(stream.buffer) \in Nat /\ MaxPayload \in Nat /\ AbsMod \in Nat \ {0}
  BY Bounds, Constants DEF SenderInv
<1>2. fill_window_size \in Nat
  BY DEF SenderInv, Types, fill_window_size
<1>3. next_seqno \in Int /\ receiver_ack \in Int
  BY DEF SenderInv, Types
<1>4. bytes_in_flight \in Int
  BY <1>1, <1>3, DivMod DEF bytes_in_flight, in_flight, sub64
<1>5. sub64(fill_window_size, bytes_in_flight) \in Nat
  <2> HIDE DEF bytes_in_flight
  <2>1. fill_window_size - bytes_in_flight \in Int
    BY <1>2, <1>4
  <2>2. (fill_window_size - bytes_in_flight) % AbsMod \in 0..(AbsMod - 1)
    BY <1>1, <2>1, DivMod, Zenon
  <2> QED
    BY <1>1, <2>2 DEF sub64
<1> QED
  BY <1>1, <1>5 DEF payload_size, min, buffer_size

\* What read() leaves in the stream.
LEMMA ReadKeeps ==
    ASSUME SenderInv, NEW len \in 0..Len(stream.buffer), stream' = read(stream, len)
    PROVE  /\ stream' \in ByteStreamType(Byte) /\ Buffered'
           /\ stream'.read_bytes = stream.read_bytes + len
           /\ stream'.written_bytes = stream.written_bytes
           /\ stream'.end_write = stream.end_write
           /\ stream'.buffer = <<>> => len = Len(stream.buffer)
           /\ len = 0 => stream'.read_bytes = stream.read_bytes
<1> DEFINE b == stream.buffer
           rest == SubSeq(b, len + 1, Len(b))
<1>1. stream \in ByteStreamType(Byte) /\ b \in Seq(Byte) /\ Len(b) \in Nat
  BY Bounds DEF SenderInv, Types
<1>2. rest \in Seq(Byte) /\ Len(rest) = Len(b) - len /\ \A k \in 1..(Len(b) - len) : rest[k] = b[len + k]
  BY <1>1, FrontAndRest
<1>3. stream' = [stream EXCEPT !.buffer = rest, !.read_bytes = @ + len]
  BY <1>1 DEF read, pop_output
<1> HIDE DEF rest
<1>4. /\ stream'.buffer = rest /\ stream'.read_bytes = stream.read_bytes + len
      /\ stream'.written_bytes = stream.written_bytes /\ stream'.end_write = stream.end_write
      /\ stream'.capacity = stream.capacity /\ stream' \in ByteStreamType(Byte)
  <2>1. stream.read_bytes + len \in Nat
    BY <1>1 DEF ByteStreamType
  <2> QED
    BY <1>1, <1>2, <1>3, <2>1, Zenon DEF ByteStreamType
<1>5. /\ stream.read_bytes \in Nat /\ stream.written_bytes \in Nat /\ stream.capacity \in Nat
      /\ stream.written_bytes = stream.read_bytes + Len(b) /\ Len(b) <= stream.capacity
      /\ stream.written_bytes <= N
      /\ stream.end_write => stream.written_bytes = N
      /\ \A i \in 1..Len(b) : b[i] = Source[stream.read_bytes + i]
  BY Bounds DEF SenderInv, Buffered
<1> HIDE DEF b
<1>6. \A i \in 1..Len(rest) : rest[i] = Source[(stream.read_bytes + len) + i]
  <2> TAKE i \in 1..Len(rest)
  <2>1. i \in 1..(Len(b) - len)
    BY <1>2
  <2>2. len + i \in 1..Len(b) /\ stream.read_bytes + (len + i) = (stream.read_bytes + len) + i
    BY <1>1, <1>5, <2>1 DEF b
  <2> QED
    BY <1>2, <1>5, <2>1, <2>2
<1>7. /\ stream.written_bytes = (stream.read_bytes + len) + Len(rest)
      /\ Len(rest) <= stream.capacity
  BY <1>1, <1>2, <1>5 DEF b
<1>8. Buffered'
  BY <1>4, <1>5, <1>6, <1>7 DEF Buffered
<1>9. rest = <<>> => len = Len(b)
  <2>1. rest = <<>> => Len(rest) = 0
    OBVIOUS
  <2> QED
    BY <1>1, <1>2, <2>1 DEF b
<1>10. len = 0 => stream.read_bytes + len = stream.read_bytes
  BY <1>5
<1> QED
  BY <1>4, <1>8, <1>9, <1>10 DEF b

\* A read from an empty stream leaves it empty.
LEMMA ReadNothing ==
    ASSUME SenderInv, Len(stream.buffer) = 0
    PROVE  read(stream, 0).buffer = <<>>
<1>1. stream \in ByteStreamType(Byte) /\ stream.buffer \in Seq(Byte)
  BY Bounds DEF SenderInv, Types
<1>2. SubSeq(stream.buffer, 0 + 1, Len(stream.buffer)) = <<>>
  BY SubSeqEmpty
<1>3. read(stream, 0) = [stream EXCEPT !.buffer = SubSeq(@, 0 + 1, Len(@)), !.read_bytes = @ + 0]
  BY DEF read, pop_output
<1> QED
  BY <1>1, <1>2, <1>3, Zenon DEF ByteStreamType

\* What fill_window() sends after the SYN: the next payload, with the FIN on it
\* or not, or nothing.
LEMMA PayloadSent ==
    ASSUME SenderInv, ~set_fin_flag, next_seqno # 0, send_payload
    PROVE  /\ payload_size \in 0..Len(stream.buffer)
           /\ next_seqno = 1 + stream.read_bytes
           /\ set_syn_flag /\ set_syn_flag' = set_syn_flag
           /\ stream' = read(stream, payload_size)
           /\ set_fin_flag' = (eof(stream') /\ window_not_full(next_seqno + payload_size))
           /\ \/ \E seg \in Seg :
                     /\ length_in_sequence_space(seg) = payload_size + (IF set_fin_flag' THEN 1 ELSE 0)
                     /\ length_in_sequence_space(seg) > 0
                     /\ CarriesSource(seg, next_seqno)
                     /\ emit(seg, next_seqno + length_in_sequence_space(seg))
              \/ /\ ~set_fin_flag' /\ payload_size = 0 /\ ~filling'
                 /\ UNCHANGED <<next_seqno, receiver_ack, receiver_window_size, segments_out,
                                outstanding_segments, timer>>
<1> DEFINE size  == payload_size
           after == add64(next_seqno, size)
           fin   == eof(read(stream, size)) /\ window_not_full(after)
           data  == SubSeq(stream.buffer, 1, size)
           last  == IF fin THEN add64(after, 1) ELSE after
           seg   == Segment(wrap(next_seqno, SenderISN), FALSE, fin, data)
           out   == Segment(wrap(next_seqno, SenderISN), FALSE, fin, read_result(stream, size))
           f     == IF fin THEN 1 ELSE 0
<1>1. size \in 0..Len(stream.buffer)
  BY PayloadSize
<1>2. /\ stream.read_bytes \in Nat /\ stream.written_bytes \in Nat
      /\ stream.buffer \in Seq(Byte) /\ Len(stream.buffer) \in Nat
      /\ next_seqno \in Nat
  BY Bounds DEF SenderInv, Types
<1>3. next_seqno = 1 + stream.read_bytes /\ set_syn_flag
  BY <1>2 DEF SenderInv, Accounted
<1>4. /\ stream.written_bytes = stream.read_bytes + Len(stream.buffer)
      /\ stream.written_bytes <= N
      /\ stream.end_write => stream.written_bytes = N
  BY DEF SenderInv, Buffered
<1>5. \A i \in 1..Len(stream.buffer) : stream.buffer[i] = Source[stream.read_bytes + i]
  BY DEF SenderInv, Buffered
<1>6. /\ stream' = read(stream, size) /\ set_fin_flag' = fin /\ set_syn_flag' = set_syn_flag
      /\ \/ (fin \/ size > 0) /\ emit(out, last)
         \/ /\ ~fin /\ size = 0 /\ ~filling'
            /\ UNCHANGED <<next_seqno, receiver_ack, receiver_window_size, segments_out,
                           outstanding_segments, timer>>
  BY Zenon DEF send_payload
<1>7. /\ stream'.end_write = stream.end_write
      /\ stream'.buffer = <<>> => size = Len(stream.buffer)
  BY <1>1, <1>6, ReadKeeps, Zenon
<1>8. /\ data \in Seq(Byte) /\ Len(data) = size
      /\ \A k \in 1..size : data[k] = stream.buffer[k]
  BY <1>1, <1>2, FrontAndRest
<1>9. out = seg
  <2>1. read_result(stream, size) = data
    BY <1>1, <1>2, SMTT(30) DEF read_result
  <2> HIDE DEF size, data, fin
  <2> QED
    BY <2>1
<1>10. fin \in BOOLEAN /\ (fin => stream'.buffer = <<>> /\ stream'.end_write)
  BY <1>6 DEF eof, buffer_empty
<1>11. after = next_seqno + size /\ add64(next_seqno + size, 1) = next_seqno + size + 1
  <2> HIDE DEF size
  <2>1. size \in Nat /\ next_seqno + size <= N + 1 /\ next_seqno + size \in Nat
    BY <1>1, <1>2, <1>3, <1>4, Constants, SMTT(30)
  <2> QED
    BY <1>2, <2>1, Constants, Add64Small
<1>12. set_fin_flag' = (eof(stream') /\ window_not_full(next_seqno + size))
  BY <1>6, <1>11
<1> HIDE DEF size, after, fin, data, out
<1>13. f \in {0, 1} /\ (fin => f = 1) /\ (~fin => f = 0)
  OBVIOUS
<1>14. last = next_seqno + (size + f)
  <2>1. size \in Nat
    BY <1>1, <1>2
  <2> HIDE DEF f
  <2>2. CASE fin
    BY <1>2, <1>11, <1>13, <2>1, <2>2
  <2>3. CASE ~fin
    BY <1>2, <1>11, <1>13, <2>1, <2>3, SMTT(30)
  <2> QED
    BY <2>2, <2>3
<1>15. seg \in Seg
  <2>1. wrap(next_seqno, SenderISN) \in WrappingInt32
    BY <1>2, Constants, WrapIsMod
  <2> QED
    BY <1>8, <1>10, <2>1 DEF Segment, Seg, SegmentType
<1>16. length_in_sequence_space(seg) = size + f
  BY <1>1, <1>2, <1>8 DEF length_in_sequence_space, Segment
<1>17. CarriesSource(seg, next_seqno)
  <2>1. /\ fin => next_seqno + Len(data) = N + 1
        /\ next_seqno + Len(data) <= N + 1
    <3>1. Len(data) = size
      BY <1>8
    <3>2. fin => size = Len(stream.buffer) /\ stream.written_bytes = N
      BY <1>4, <1>7, <1>10
    <3>3. next_seqno + size <= N + 1
      BY <1>1, <1>2, <1>3, <1>4, Constants, SMTT(30)
    <3>4. size = Len(stream.buffer) /\ stream.written_bytes = N => next_seqno + size = N + 1
      BY <1>2, <1>3, <1>4, SMTT(30)
    <3> QED
      BY <3>1, <3>2, <3>3, <3>4
  <2>2. \A i \in 1..Len(data) : data[i] = Source[next_seqno + i - 1]
    <3> TAKE i \in 1..Len(data)
    <3>1. i \in 1..size
      BY <1>8
    <3>2. i \in 1..Len(stream.buffer) /\ next_seqno + i - 1 = stream.read_bytes + i
      <4>1. Len(stream.buffer) \in Nat /\ stream.read_bytes \in Nat
        BY <1>2
      <4>2. i \in 1..Len(stream.buffer)
        BY <1>1, <3>1, <4>1, SMTT(30)
      <4>3. next_seqno + i - 1 = stream.read_bytes + i
        BY <1>3, <3>1, <4>1, SMTT(30)
      <4> QED
        BY <4>2, <4>3
    <3> QED
      BY <1>5, <1>8, <3>1, <3>2
  <2> QED
    BY <2>1, <2>2 DEF CarriesSource, Segment
<1> HIDE DEF seg, last, f
<1>18. CASE (fin \/ size > 0) /\ emit(out, last)
  <2>1. size + f > 0
    BY <1>1, <1>2, <1>13, <1>18
  <2>2. emit(seg, next_seqno + length_in_sequence_space(seg))
    BY <1>9, <1>14, <1>16, <1>18
  <2>3. length_in_sequence_space(seg) = size + (IF set_fin_flag' THEN 1 ELSE 0)
    BY <1>6, <1>16 DEF f
  <2> QED
    BY <1>1, <1>3, <1>6, <1>12, <1>15, <1>16, <1>17, <2>1, <2>2, <2>3 DEF size
<1>19. CASE /\ ~fin /\ size = 0 /\ ~filling'
            /\ UNCHANGED <<next_seqno, receiver_ack, receiver_window_size, segments_out,
                           outstanding_segments, timer>>
  BY <1>1, <1>3, <1>6, <1>12, <1>19 DEF size
<1> QED
  BY <1>6, <1>18, <1>19

\* That keeps the invariant.
LEMMA SendPayloadKeeps ==
    ASSUME SenderInv, ~set_fin_flag, next_seqno # 0, send_payload
    PROVE  SenderInv'
<1> DEFINE size == payload_size
           fin  == IF set_fin_flag' THEN 1 ELSE 0
<1>1. /\ size \in 0..Len(stream.buffer) /\ next_seqno = 1 + stream.read_bytes
      /\ set_syn_flag /\ set_syn_flag' = set_syn_flag /\ stream' = read(stream, size)
      /\ set_fin_flag' \in BOOLEAN
      /\ set_fin_flag' => stream'.buffer = <<>> /\ stream'.end_write
  BY PayloadSent, Zenon DEF eof, buffer_empty
<1>2. /\ stream.read_bytes \in Nat /\ Len(stream.buffer) \in Nat /\ next_seqno \in Nat
      /\ receiver_ack \in Nat
  BY Bounds DEF SenderInv, Types
<1>3. /\ stream' \in ByteStreamType(Byte) /\ Buffered'
      /\ stream'.read_bytes = stream.read_bytes + size
      /\ stream'.written_bytes = stream.written_bytes
  BY <1>1, ReadKeeps
<1>4. fin \in {0, 1} /\ size \in Nat
  BY <1>1, <1>2
<1>5. ASSUME next_seqno' = next_seqno + (size + fin) PROVE Accounted'
  <2> HIDE DEF size, fin
  <2>1. next_seqno' = 1 + stream'.read_bytes + fin /\ next_seqno' # 0
    BY <1>1, <1>2, <1>3, <1>4, <1>5
  <2> QED
    BY <1>1, <2>1 DEF Accounted, fin
<1>6. CASE \E seg \in Seg :
               /\ length_in_sequence_space(seg) = size + fin
               /\ length_in_sequence_space(seg) > 0
               /\ CarriesSource(seg, next_seqno)
               /\ emit(seg, next_seqno + length_in_sequence_space(seg))
  <2> HIDE DEF size, fin
  <2>1. PICK seg \in Seg :
               /\ length_in_sequence_space(seg) = size + fin
               /\ length_in_sequence_space(seg) > 0
               /\ CarriesSource(seg, next_seqno)
               /\ emit(seg, next_seqno + length_in_sequence_space(seg))
    BY <1>6
  <2>2. PICK start : Tiled(start)
    BY DEF SenderInv
  <2>3. next_seqno + length_in_sequence_space(seg) \in Nat
    BY <1>2, SegLength
  <2>4. /\ outstanding_segments' \in Seq(Seg) /\ timer' \in TimerType
        /\ next_seqno' \in Nat /\ receiver_ack' \in Nat
        /\ receiver_window_size' \in 0..(HalfAbs - 1)
        /\ Timed' /\ \E s : Tiled(s)'
    BY <2>1, <2>2, <2>3, EmitKeeps DEF SenderInv
  <2>5. next_seqno' = next_seqno + (size + fin) /\ receiver_ack' = receiver_ack
    BY <2>1 DEF emit
  <2>6. Types'
    BY <1>1, <1>3, <2>4 DEF Types
  <2>7. Near'
    BY <1>3, <2>5 DEF SenderInv, Near
  <2> QED
    BY <1>3, <1>5, <2>4, <2>5, <2>6, <2>7 DEF SenderInv
<1>7. CASE /\ ~set_fin_flag' /\ size = 0
           /\ UNCHANGED <<next_seqno, receiver_ack, receiver_window_size,
                          outstanding_segments, timer>>
  <2>1. Types'
    BY <1>1, <1>3, <1>7 DEF SenderInv, Types
  <2>2. next_seqno' = next_seqno + (size + fin)
    BY <1>2, <1>7
  <2>3. Near' /\ Timed' /\ \E s : Tiled(s)'
    BY <1>3, <1>7, SMTT(30) DEF SenderInv, Near, Timed, Tiled
  <2> QED
    BY <1>3, <1>5, <2>1, <2>2, <2>3, SMTT(30) DEF SenderInv
<1> QED
  BY <1>6, <1>7, PayloadSent, SMTT(30)

\* The application writes.
LEMMA WriteKeeps ==
    ASSUME SenderInv, NEW len \in 1..N, Write(len)
    PROVE  SenderInv'
<1> DEFINE b == stream.buffer
           w == stream.written_bytes
           data == SubSeq(Source, w + 1, w + len)
           room == realWrite(stream, data)
           part == SubSeq(data, 1, room)
<1>1. /\ stream \in ByteStreamType(Byte) /\ b \in Seq(Byte) /\ Len(b) \in Nat
      /\ w \in Nat /\ stream.read_bytes \in Nat /\ stream.capacity \in Nat
      /\ receiver_ack \in Nat
  BY Bounds DEF SenderInv, Types
<1>2. /\ w = stream.read_bytes + Len(b) /\ Len(b) <= stream.capacity
      /\ \A i \in 1..Len(b) : b[i] = Source[stream.read_bytes + i]
  BY DEF SenderInv, Buffered
<1>w. w = stream.read_bytes + Len(b) /\ Len(b) <= stream.capacity
  BY <1>2
<1>3. /\ ~stream.end_write /\ w + len <= N /\ w + len + 2 - receiver_ack <= HalfSeq
      /\ stream' = write(stream, data)
      /\ UNCHANGED <<next_seqno, receiver_ack, receiver_window_size, set_syn_flag,
                     set_fin_flag, outstanding_segments, timer>>
  BY DEF Write, input_ended, bytes_written, sender_write
<1>4. /\ data \in Seq(Byte) /\ Len(data) = len
      /\ \A i \in 1..len : data[i] = Source[w + i]
  <2>1. Source \in Seq(Byte) /\ N = Len(Source) /\ N \in Nat
    BY SenderSpecAssumption, Constants DEF N
  <2>2. \A i \in (w + 1)..(w + len) : Source[i] \in Byte
    <3> TAKE i \in (w + 1)..(w + len)
    <3>1. i \in 1..N
      BY <1>1, <1>3, <2>1
    <3> QED
      BY <2>1, <3>1, ElementOfSeq
  <2>3. w + 1 \in Int /\ w + len \in Int
    BY <1>1, <2>1
  <2> HIDE DEF w
  <2>4. /\ data \in Seq(Byte)
        /\ Len(data) = IF w + 1 <= w + len THEN (w + len) - (w + 1) + 1 ELSE 0
        /\ \A i \in 1..((w + len) - (w + 1) + 1) : data[i] = Source[(w + 1) + i - 1]
    BY <2>2, <2>3, SubSeqProperties
  <2>5. (w + len) - (w + 1) + 1 = len /\ w + 1 <= w + len
    BY <1>1, <2>1
  <2>6. \A i \in 1..len : (w + 1) + i - 1 = w + i
    BY <1>1
  <2> QED
    BY <2>4, <2>5, <2>6
<1> HIDE DEF data
<1>5. room \in 0..len /\ room <= stream.capacity - Len(b)
  BY <1>1, <1>2, <1>4, Constants DEF realWrite, min
<1> HIDE DEF room
<1>6. part \in Seq(Byte) /\ Len(part) = room /\ \A i \in 1..room : part[i] = data[i]
  BY <1>4, <1>5, FrontAndRest
<1> HIDE DEF part
<1>7. /\ b \o part \in Seq(Byte) /\ Len(b \o part) = Len(b) + room
      /\ \A i \in 1..(Len(b) + room) :
             (b \o part)[i] = IF i <= Len(b) THEN b[i] ELSE part[i - Len(b)]
  BY <1>1, <1>6, ConcatProperties, Zenon
<1>8. stream' = [stream EXCEPT !.buffer = b \o part, !.written_bytes = w + room]
  BY <1>3 DEF write, part, room
<1> DEFINE new == b \o part
<1> HIDE DEF new
<1>9. /\ stream'.buffer = new /\ stream'.written_bytes = w + room
      /\ stream'.read_bytes = stream.read_bytes /\ stream'.capacity = stream.capacity
      /\ stream'.end_write = stream.end_write /\ stream' \in ByteStreamType(Byte)
  <2>1. stream' = [stream EXCEPT !.buffer = new, !.written_bytes = w + room]
    BY <1>8 DEF new
  <2>2. new \in Seq(Byte) /\ w + room \in Nat
    BY <1>1, <1>5, <1>7, Constants DEF new
  <2> QED
    BY <1>1, <2>1, <2>2, Zenon DEF ByteStreamType
<1>10. \A i \in 1..Len(new) : new[i] = Source[stream.read_bytes + i]
  <2> TAKE i \in 1..Len(new)
  <2>1. i \in 1..(Len(b) + room) /\ Len(b) + room \in Nat
    BY <1>1, <1>5, <1>7, Constants DEF new
  <2>2. CASE i <= Len(b)
    <3>1. i \in 1..Len(b)
      BY <1>1, <2>1, <2>2
    <3> QED
      BY <1>2, <1>7, <2>1, <2>2, <3>1 DEF new
  <2>3. CASE ~(i <= Len(b))
    <3>1. /\ i - Len(b) \in 1..room /\ i - Len(b) \in 1..len
          /\ w + (i - Len(b)) = stream.read_bytes + i
      <4> HIDE DEF b, w
      <4>1. len \in Nat /\ room \in Nat /\ room <= len
        BY <1>5, Constants
      <4> QED
        BY <1>1, <1>w, <2>1, <2>3, <4>1, SMTT(30)
    <3>2. new[i] = part[i - Len(b)]
      BY <1>7, <2>1, <2>3 DEF new
    <3> QED
      BY <1>4, <1>6, <3>1, <3>2
  <2> QED
    BY <2>2, <2>3
<1>11. Len(new) = Len(b) + room
  BY <1>7 DEF new
<1>12. /\ w + room = stream.read_bytes + Len(new) /\ w + room <= N
       /\ Len(new) <= stream.capacity /\ w + room + 2 <= receiver_ack + HalfSeq
  <2>1. w + len <= N /\ w + len + 2 - receiver_ack <= HalfSeq
    BY <1>3
  <2>2. room \in Nat /\ len \in Nat /\ room <= len /\ room <= stream.capacity - Len(b)
    BY <1>5, Constants
  <2> HIDE DEF b, w
  <2>3. w + room = stream.read_bytes + Len(new) /\ Len(new) <= stream.capacity
    BY <1>1, <1>w, <1>11, <2>2, SMTT(30)
  <2>4. w + room <= N
    BY <1>1, <2>1, <2>2, Constants
  <2>5. w + room + 2 <= receiver_ack + HalfSeq
    BY <1>1, <2>1, <2>2, Constants
  <2> QED
    BY <2>3, <2>4, <2>5
<1> HIDE DEF b, w
<1>13. Buffered' /\ Near'
  BY <1>3, <1>9, <1>10, <1>12 DEF Buffered, Near
<1>14. Types'
  BY <1>3, <1>9 DEF SenderInv, Types
<1>15. Accounted'
  BY <1>3, <1>9 DEF SenderInv, Accounted
<1>16. Timed' /\ \E start : Tiled(start)'
  BY <1>3, SMTT(30) DEF SenderInv, Timed, Tiled
<1> QED
  BY <1>13, <1>14, <1>15, <1>16 DEF SenderInv

-----------------------------------------------------------------------------
\* The constructor establishes the invariant.
LEMMA InitInv == SenderInit => SenderInv
<1> SUFFICES ASSUME SenderInit PROVE SenderInv
  OBVIOUS
<1> USE DEF SenderInit
<1>1. <<>> \in Seq(Byte) /\ <<>> \in Seq(Seg) /\ Len(<<>>) = 0
  BY EmptySeq
<1>2. Types
  <2>1. 1 \in 0..(HalfAbs - 1)
    BY Constants
  <2> QED
    BY <1>1, <2>1, Constants, SenderAssumption, Zenon
       DEF Types, NewByteStream, ByteStreamType, NewRetransmissionTimer, TimerType
<1>3. Buffered /\ Accounted /\ Near
  BY <1>1, Constants, SenderAssumption DEF Buffered, Accounted, Near, NewByteStream
<1>4. Timed
  BY Constants DEF Timed, NewRetransmissionTimer
<1>5. Tiled([k \in {1} |-> 0])
  <2> DEFINE s == [k \in {1} |-> 0]
  <2>1. s \in [1..(0 + 1) -> Nat] /\ s[1] = 0 /\ s[0 + 1] = 0
    OBVIOUS
  <2>2. \A j, k \in 1..(0 + 1) : s[j] <= s[k]
    OBVIOUS
  <2> HIDE DEF s
  <2>3. Tiled(s)
    BY <1>1, <2>1, <2>2 DEF Tiled
  <2> QED
    BY <2>3 DEF s
<1> QED
  BY <1>2, <1>3, <1>4, <1>5 DEF SenderInv

\* One invocation of fill_window() keeps it.
LEMMA FillKeeps ==
    ASSUME SenderInv, fill_window
    PROVE  SenderInv'
<1>1. CASE set_fin_flag
  <2>1. UNCHANGED <<stream, next_seqno, receiver_ack, receiver_window_size, set_syn_flag,
                    set_fin_flag, outstanding_segments, timer>>
    BY <1>1 DEF fill_window
  <2> QED
    BY <2>1, Zenon DEF SenderInv, Types, Buffered, Accounted, Near, Timed, Tiled
<1>2. CASE ~set_fin_flag /\ next_seqno = 0
  BY <1>2, SendSynKeeps DEF fill_window
<1>3. CASE ~set_fin_flag /\ next_seqno # 0
  BY <1>3, SendPayloadKeeps DEF fill_window
<1> QED
  BY <1>1, <1>2, <1>3, SMTT(30)

\* Every call keeps it.
LEMMA NextInv == SenderInv /\ [SenderNext]_senderVars => SenderInv'
<1> SUFFICES ASSUME SenderInv, [SenderNext]_senderVars PROVE SenderInv'
  OBVIOUS
<1>1. ASSUME UNCHANGED <<stream, next_seqno, receiver_ack, receiver_window_size, set_syn_flag,
                         set_fin_flag, outstanding_segments, timer>>
      PROVE  SenderInv'
  BY <1>1, Zenon DEF SenderInv, Types, Buffered, Accounted, Near, Timed, Tiled
<1>2. ASSUME fill_window PROVE SenderInv'
  BY <1>2, FillKeeps
<1>3. ASSUME NEW len \in 1..N, Write(len) PROVE SenderInv'
  BY <1>3, WriteKeeps
<1>4. CASE EndInput
  <2>1. /\ stream.written_bytes = N /\ stream' = [stream EXCEPT !.end_write = TRUE]
        /\ UNCHANGED <<next_seqno, receiver_ack, receiver_window_size, set_syn_flag,
                       set_fin_flag, outstanding_segments, timer>>
    BY <1>4 DEF EndInput, bytes_written, sender_end_input, end_input
  <2>2. Types'
    BY <2>1, Zenon DEF SenderInv, Types, ByteStreamType
  <2>3. /\ stream'.buffer = stream.buffer /\ stream'.read_bytes = stream.read_bytes
        /\ stream'.written_bytes = stream.written_bytes /\ stream'.capacity = stream.capacity
        /\ stream'.end_write = TRUE
    BY <2>1 DEF SenderInv, Types, ByteStreamType
  <2>4. Buffered' /\ Accounted' /\ Near'
    BY <2>1, <2>3 DEF SenderInv, Buffered, Accounted, Near
  <2>5. Timed' /\ \E start : Tiled(start)'
    BY <2>1, SMTT(30) DEF SenderInv, Timed, Tiled
  <2> QED
    BY <2>2, <2>4, <2>5 DEF SenderInv
<1>5. CASE SetError
  <2>1. /\ stream' = [stream EXCEPT !.error = TRUE]
        /\ UNCHANGED <<next_seqno, receiver_ack, receiver_window_size, set_syn_flag,
                       set_fin_flag, outstanding_segments, timer>>
    BY <1>5 DEF SetError, sender_set_error, set_error
  <2>2. Types'
    BY <2>1, Zenon DEF SenderInv, Types, ByteStreamType
  <2>3. /\ stream'.buffer = stream.buffer /\ stream'.read_bytes = stream.read_bytes
        /\ stream'.written_bytes = stream.written_bytes /\ stream'.capacity = stream.capacity
        /\ stream'.end_write = stream.end_write
    BY <2>1 DEF SenderInv, Types, ByteStreamType
  <2>4. Buffered' /\ Accounted' /\ Near'
    BY <2>1, <2>3 DEF SenderInv, Buffered, Accounted, Near
  <2>5. Timed' /\ \E start : Tiled(start)'
    BY <2>1, SMTT(30) DEF SenderInv, Timed, Tiled
  <2> QED
    BY <2>2, <2>4, <2>5 DEF SenderInv
<1>6. CASE FillWindow
  BY <1>2, <1>6 DEF FillWindow
<1>7. CASE FillWindowAgain
  BY <1>2, <1>7 DEF FillWindowAgain
<1>8. ASSUME NEW ackno \in WrappingInt32, NEW window_size \in 0..MaxWindow,
             AckReceived(ackno, window_size)
      PROVE  SenderInv'
  <2> DEFINE a == unwrap(ackno, SenderISN, next_seqno)
  <2>1. a \in Int /\ window_size \in 0..(HalfAbs - 1)
    BY UnwrapInt, SenderSpecAssumption, Constants DEF SenderInv, Types
  <2>2. take_ack(a, window_size) \/ UNCHANGED senderVars
    BY <1>8 DEF AckReceived, ack_received
  <2> HIDE DEF a
  <2>3. CASE take_ack(a, window_size)
    BY <2>1, <2>3, TakeAckKeeps
  <2>4. CASE UNCHANGED senderVars
    BY <1>1, <2>4 DEF senderVars
  <2> QED
    BY <2>2, <2>3, <2>4
<1>9. ASSUME NEW ms \in 1..MaxTick, Tick(ms) PROVE SenderInv'
  BY <1>9, TickKeeps, SenderSpecAssumption DEF Tick
<1>10. CASE SendEmptySegment
  BY <1>1, <1>10 DEF SendEmptySegment, send_empty_segment
<1>11. CASE PopSegment
  BY <1>1, <1>11 DEF PopSegment, sender_pop_segment
<1>12. CASE UNCHANGED senderVars
  BY <1>1, <1>12 DEF senderVars
<1> QED
  BY <1>3, <1>4, <1>5, <1>6, <1>7, <1>8, <1>9, <1>10, <1>11, <1>12 DEF SenderNext

\* The invariant says what SequenceAccounting does.
LEMMA InvAccounts == SenderInv => SequenceAccounting
<1> SUFFICES ASSUME SenderInv PROVE SequenceAccounting
  OBVIOUS
<1>1. PICK start : Tiled(start)
  BY DEF SenderInv
<1> DEFINE len == Len(outstanding_segments)
<1>2. len \in Nat
  BY LenProperties DEF SenderInv, Types
<1>3. /\ start[1] = receiver_ack /\ start[len + 1] = next_seqno
      /\ \A j, k \in 1..(len + 1) : j <= k => start[j] <= start[k]
  BY <1>1 DEF Tiled
<1> HIDE DEF len
<1>4. receiver_ack <= next_seqno
  <2>1. 1 \in 1..(len + 1) /\ len + 1 \in 1..(len + 1) /\ 1 <= len + 1
    BY <1>2
  <2> QED
    BY <1>3, <2>1
<1> QED
  BY <1>4 DEF SenderInv, Buffered, Accounted, SequenceAccounting, eof, buffer_empty, bytes_read, bytes_written

\* A sender never loses count of its sequence numbers, whatever acknowledgments
\* and windows arrive: _next_seqno is the SYN, the bytes taken from the stream
\* and the FIN, and never behind _receiver_ack.
THEOREM NumbersAccounted == SenderSpec => []SequenceAccounting
<1>1. SenderSpec => []SenderInv
  BY InitInv, NextInv, PTL DEF SenderSpec
<1> QED
  BY <1>1, InvAccounts, PTL

\* _outstanding_segments always is the part of the stream from _receiver_ack to
\* _next_seqno, cut into segments that follow each other: nothing that is not
\* acknowledged is ever dropped, and nothing else is kept.
THEOREM OutstandingAlwaysTiles == SenderSpec => []OutstandingTiles
<1>1. SenderSpec => []SenderInv
  BY InitInv, NextInv, PTL DEF SenderSpec
<1> QED
  BY <1>1, InvTiles, PTL

-----------------------------------------------------------------------------
\* The numbers in use stay within half the sequence space.
Reached ==
    /\ next_seqno \in Nat /\ receiver_ack \in Nat /\ receiver_ack <= next_seqno
    /\ next_seqno <= N + 2 /\ next_seqno <= receiver_ack + HalfSeq

\* The invariant keeps them there.
LEMMA Reach == SenderInv => Reached
<1> SUFFICES ASSUME SenderInv PROVE Reached
  OBVIOUS
<1>1. next_seqno \in Nat /\ receiver_ack \in Nat
  BY DEF SenderInv, Types
<1>2. /\ stream.written_bytes \in Nat
      /\ next_seqno <= stream.written_bytes + 2 /\ next_seqno <= N + 2
  BY Bounds DEF SenderInv
<1>3. stream.written_bytes + 2 <= receiver_ack + HalfSeq
  BY DEF SenderInv, Near
<1>4. receiver_ack <= next_seqno
  BY InvAccounts DEF SequenceAccounting
<1> QED
  BY <1>1, <1>2, <1>3, <1>4, Constants DEF Reached

\* The same after a step.
LEMMA ReachNext == SenderInv' => Reached'
BY Reach, PTL

\* A number that is not far behind the checkpoint is recovered.
LEMMA UnwrapBehind ==
    ASSUME NEW at \in Nat, NEW checkpoint \in Nat,
           at <= checkpoint, checkpoint <= N + 2, checkpoint <= at + HalfSeq
    PROVE  unwrap(wrap(at, SenderISN), SenderISN, checkpoint) = at
<1>1. /\ at \in 0..(HalfAbs - 1) /\ checkpoint \in 0..(HalfAbs - 1)
      /\ at - checkpoint \in (-HalfSeq)..(HalfSeq - 1)
  BY Constants
<1> QED
  BY <1>1, Constants, UnwrapWrap

\* The number of bytes in flight is a difference that does not wrap around.
LEMMA InFlight ==
    ASSUME Reached, NEW n \in Nat, receiver_ack <= n, n <= N + 2
    PROVE  sub64(n, receiver_ack) = n - receiver_ack
<1>1. n - receiver_ack \in 0..(AbsMod - 1)
  BY Constants DEF Reached
<1> QED
  BY <1>1, Constants, ModSmall DEF sub64

-----------------------------------------------------------------------------
\* The summary.

\* The whole stream has been sent, the FIN included.
Sent == stream.buffer = <<>> /\ stream.end_write /\ next_seqno = stream.written_bytes + 2

\* What state_summary() computes, without 64-bit arithmetic.
Summary ==
    LET rank == SummaryRank(sender_state_summary)
        open == ~stream.error /\ next_seqno # 0 /\ receiver_ack # 0
    IN  /\ stream.error => rank = 5
        /\ ~stream.error /\ next_seqno = 0 => rank = 0
        /\ ~stream.error /\ next_seqno # 0 /\ receiver_ack = 0 => rank = 1
        /\ open /\ ~Sent => rank = 2
        /\ open /\ Sent /\ receiver_ack < next_seqno => rank = 3
        /\ open /\ Sent /\ receiver_ack = next_seqno => rank = 4
        /\ sender_state_summary \in {"FIN_SENT", "FIN_ACKED"} => Sent
        /\ sender_state_summary = "FIN_ACKED" => receiver_ack = next_seqno

\* It does compute that.
LEMMA SummaryIs == SenderInv => Summary
<1> SUFFICES ASSUME SenderInv PROVE Summary
  OBVIOUS
<1>1. /\ next_seqno \in Nat /\ receiver_ack \in Nat /\ receiver_ack <= next_seqno
      /\ next_seqno <= N + 2 /\ Reached
  BY Reach DEF Reached
<1>2. /\ stream.written_bytes \in Nat /\ next_seqno <= stream.written_bytes + 2
      /\ stream.error \in BOOLEAN /\ stream.end_write \in BOOLEAN
  BY Bounds DEF SenderInv, Types, ByteStreamType
<1>3. bytes_in_flight = next_seqno - receiver_ack
  BY <1>1, InFlight DEF bytes_in_flight, in_flight
<1>4. /\ next_seqno = bytes_in_flight <=> receiver_ack = 0
      /\ bytes_in_flight > 0 <=> receiver_ack < next_seqno
      /\ ~(bytes_in_flight > 0) => receiver_ack = next_seqno
  BY <1>1, <1>3
<1>5. (~eof(stream) \/ next_seqno < bytes_written(stream) + 2) <=> ~Sent
  BY <1>1, <1>2 DEF Sent, eof, buffer_empty, bytes_written
<1>6. /\ SummaryRank("CLOSED") = 0 /\ SummaryRank("SYN_SENT") = 1 /\ SummaryRank("SYN_ACKED") = 2
      /\ SummaryRank("FIN_SENT") = 3 /\ SummaryRank("FIN_ACKED") = 4 /\ SummaryRank("error") = 5
  BY DEF SummaryRank
<1>7. CASE stream.error
  <2>1. sender_state_summary = "error"
    BY <1>7 DEF sender_state_summary
  <2> QED
    BY <1>6, <1>7, <2>1 DEF Summary
<1>8. CASE ~stream.error /\ next_seqno = 0
  <2>1. sender_state_summary = "CLOSED"
    BY <1>8, SMTT(30) DEF sender_state_summary
  <2> QED
    BY <1>6, <1>8, <2>1 DEF Summary
<1>9. CASE ~stream.error /\ next_seqno # 0 /\ receiver_ack = 0
  <2>1. sender_state_summary = "SYN_SENT"
    BY <1>4, <1>9 DEF sender_state_summary
  <2> QED
    BY <1>6, <1>9, <2>1 DEF Summary
<1>10. CASE ~stream.error /\ next_seqno # 0 /\ receiver_ack # 0 /\ ~Sent
  <2>1. sender_state_summary = "SYN_ACKED"
    BY <1>4, <1>5, <1>10, SMTT(30) DEF sender_state_summary
  <2> QED
    BY <1>6, <1>10, <2>1 DEF Summary
<1>11. CASE ~stream.error /\ next_seqno # 0 /\ receiver_ack # 0 /\ Sent /\ receiver_ack < next_seqno
  <2>1. sender_state_summary = "FIN_SENT"
    BY <1>4, <1>5, <1>11, SMTT(30) DEF sender_state_summary
  <2> QED
    BY <1>1, <1>6, <1>11, <2>1 DEF Summary
<1>12. CASE ~stream.error /\ next_seqno # 0 /\ receiver_ack # 0 /\ Sent /\ receiver_ack = next_seqno
  <2>1. ~(bytes_in_flight > 0)
    BY <1>1, <1>4, <1>12
  <2>2. sender_state_summary = "FIN_ACKED"
    BY <1>4, <1>5, <1>12, <2>1, SMTT(30) DEF sender_state_summary
  <2> QED
    BY <1>1, <1>6, <1>12, <2>2 DEF Summary
<1> QED
  BY <1>1, <1>7, <1>8, <1>9, <1>10, <1>11, <1>12, SMTT(30)

\* When the whole stream has been sent, the FIN has.
LEMMA SentFin ==
    ASSUME SenderInv, Sent
    PROVE  set_fin_flag /\ next_seqno = N + 2
<1>1. /\ stream.read_bytes \in Nat /\ stream.written_bytes \in Nat
      /\ stream.read_bytes <= stream.written_bytes
  BY Bounds, SMTT(30) DEF SenderInv
<1>2. stream.written_bytes = N
  BY DEF Sent, SenderInv, Buffered
<1>3. set_fin_flag
  <2> SUFFICES ASSUME ~set_fin_flag PROVE FALSE
    OBVIOUS
  <2>1. next_seqno <= 1 + stream.read_bytes
    BY <1>1 DEF SenderInv, Accounted
  <2> QED
    BY <1>1, <2>1 DEF Sent
<1> QED
  BY <1>2, <1>3 DEF Sent

-----------------------------------------------------------------------------
\* What the sender puts on the wire.

\* A segment the sender can have made when it had used the numbers below n: one
\* or more of them, with what belongs there.
OnWire(seg, n) ==
    \E a, b \in 0..(N + 2) :
        a < b /\ b <= n /\ seg = SegmentFrom(SenderISN, a, b)

\* The stream and its length.
LEMMA TheSource == Source \in Seq(Byte) /\ Len(Source) = N /\ N \in Nat
BY SenderSpecAssumption, Constants DEF N

\* A segment that carries what belongs at a is the segment of the numbers from
\* a on.
LEMMA SegmentIs ==
    ASSUME NEW seg \in Seg, NEW a \in Nat, CarriesSource(seg, a),
           length_in_sequence_space(seg) > 0, NEW n, a + length_in_sequence_space(seg) <= n
    PROVE  OnWire(seg, n)
<1> DEFINE p   == seg.payload
           len == Len(p)
           b   == a + length_in_sequence_space(seg)
           lo  == max(a, 1)
           hi  == min(b - 1, N)
           part == SubSeq(Source, lo, hi)
<1>1. /\ p \in Seq(Byte) /\ seg.syn \in BOOLEAN /\ seg.fin \in BOOLEAN
      /\ seg = Segment(seg.seqno, seg.syn, seg.fin, p)
  BY DEF Seg, SegmentType, Segment
<1>2. len \in Nat /\ N \in Nat /\ Source \in Seq(Byte) /\ Len(Source) = N
  BY <1>1, TheSource, LenProperties
<1>3. /\ seg.seqno = wrap(a, SenderISN) /\ (seg.syn <=> a = 0) /\ (seg.syn => p = <<>>)
      /\ a + len <= N + 1 /\ (seg.fin => a + len = N + 1)
      /\ \A i \in 1..len : p[i] = Source[a + i - 1]
  BY DEF CarriesSource
<1>4. seg.syn => len = 0
  BY <1>3, EmptySeq, Zenon
<1>5. b = a + len + (IF seg.syn THEN 1 ELSE 0) + (IF seg.fin THEN 1 ELSE 0)
  <2> DEFINE syn == IF seg.syn THEN 1 ELSE 0
             fin == IF seg.fin THEN 1 ELSE 0
  <2>1. b = a + (len + syn + fin) /\ syn \in Nat /\ fin \in Nat
    BY DEF length_in_sequence_space
  <2> HIDE DEF syn, fin, b, len
  <2>2. b = a + len + syn + fin
    BY <1>2, <2>1
  <2> QED
    BY <2>2 DEF syn, fin
<1>6. length_in_sequence_space(seg) \in Nat
  BY SegLength
<1>7. b \in Nat /\ a < b
  BY <1>6
<1> HIDE DEF b, len, p
<1>8. /\ b <= N + 2 /\ (seg.fin <=> b = N + 2) /\ (seg.syn <=> a = 0 /\ b > 0)
      /\ seg.syn => lo = 1 /\ hi = 0
      /\ ~seg.syn => lo = a /\ hi = a + len - 1
  BY <1>1, <1>2, <1>3, <1>4, <1>5, <1>7 DEF min, max
<1>9. part = p
  <2>1. CASE seg.syn
    BY <1>2, <1>3, <1>8, <2>1, SubSeqEmpty
  <2>2. CASE ~seg.syn
    <3>1. a \in 1..(N + 1) /\ a + len - 1 \in 0..N /\ a + len - 1 >= a - 1
      BY <1>2, <1>3, <2>2
    <3>2. /\ part \in Seq(Byte) /\ Len(part) = len
          /\ \A i \in 1..len : part[i] = Source[a + i - 1]
      <4> DEFINE m == a + len - 1
      <4>1. /\ SubSeq(Source, a, m) \in Seq(Byte)
            /\ Len(SubSeq(Source, a, m)) = IF a <= m THEN m - a + 1 ELSE 0
            /\ \A i \in 1..(m - a + 1) : SubSeq(Source, a, m)[i] = Source[a + i - 1]
        BY <1>2, <3>1, SubSeqProperties
      <4>2. part = SubSeq(Source, a, m) /\ m - a + 1 = len /\ (a <= m \/ len = 0)
        BY <1>2, <1>8, <2>2
      <4> HIDE DEF m
      <4> QED
        BY <4>1, <4>2
    <3> QED
      BY <1>1, <1>3, <3>2, SeqEqual DEF len
  <2> QED
    BY <2>1, <2>2
<1>10. seg = SegmentFrom(SenderISN, a, b)
  <2>1. seg.syn = (a = 0 /\ b > 0) /\ seg.fin = (a < b /\ b = N + 2)
    BY <1>1, <1>7, <1>8
  <2> QED
    BY <1>1, <1>3, <1>9, <2>1 DEF SegmentFrom, p
<1>11. a \in 0..(N + 2) /\ b \in 0..(N + 2)
  BY <1>2, <1>7, <1>8
<1>12. b <= n
  BY DEF b
<1> QED
  BY <1>7, <1>10, <1>11, <1>12, Zenon DEF OnWire

\* It is a segment.
LEMMA OnWireTyped ==
    ASSUME NEW seg, NEW n, OnWire(seg, n)
    PROVE  seg \in Seg
<1>1. PICK a \in 0..(N + 2), b \in 0..(N + 2) : a < b /\ seg = SegmentFrom(SenderISN, a, b)
  BY Zenon DEF OnWire
<1> DEFINE lo == max(a, 1)
           hi == min(b - 1, N)
<1>2. a \in Nat /\ lo \in 1..(N + 2) /\ hi \in 0..N /\ (lo = N + 2 => hi < lo)
  BY <1>1, Constants DEF min, max
<1>3. wrap(a, SenderISN) \in WrappingInt32
  BY <1>2, Constants, WrapIsMod, Zenon
<1> HIDE DEF lo, hi
<1>4. SubSeq(Source, lo, hi) \in Seq(Byte)
  <2>1. \A i \in lo..hi : Source[i] \in Byte
    BY <1>2, TheSource, ElementOfSeq
  <2> QED
    BY <1>2, <2>1, TheSource, SubSeqProperties
<1>5. seg = [seqno |-> wrap(a, SenderISN), syn |-> a = 0 /\ b > 0, fin |-> a < b /\ b = N + 2,
             payload |-> SubSeq(Source, lo, hi)]
  BY <1>1, Zenon DEF SegmentFrom, Segment, lo, hi
<1> QED
  BY <1>3, <1>4, <1>5 DEF Seg, SegmentType

\* It still is one when more numbers have been used.
LEMMA OnWireLater ==
    ASSUME NEW m \in Nat, NEW n \in Nat, m <= n, NEW seg, OnWire(seg, m)
    PROVE  OnWire(seg, n)
<1>1. PICK a \in 0..(N + 2), b \in 0..(N + 2) :
          a < b /\ b <= m /\ seg = SegmentFrom(SenderISN, a, b)
  BY Zenon DEF OnWire
<1>2. b <= n
  BY <1>1, Constants
<1> QED
  BY <1>1, <1>2, Zenon DEF OnWire

\* What holds of a sender that is never asked for an empty segment: SenderInv,
\* and everything that waits in _segments_out is the stream's own.
HostInv ==
    /\ SenderInv
    /\ consecutive_retransmissions \in Nat /\ filling \in BOOLEAN
    /\ segments_out \in Seq(Seg)
    /\ \A k \in 1..Len(segments_out) : OnWire(segments_out[k], next_seqno)

\* What a step of such a sender keeps and does.
HostKept ==
    /\ HostInv'
    /\ next_seqno \in Nat /\ next_seqno' \in Nat /\ next_seqno <= next_seqno'

\* A step that queues at most one segment keeps that.
LEMMA QueueKeeps ==
    ASSUME HostInv, SenderInv', consecutive_retransmissions' \in Nat, filling' \in BOOLEAN,
           next_seqno <= next_seqno',
           \/ segments_out' = segments_out
           \/ \E seg \in Seg : segments_out' = Append(segments_out, seg) /\ OnWire(seg, next_seqno')
    PROVE  HostKept
<1> DEFINE q == segments_out
           n == Len(segments_out)
<1>1. /\ q \in Seq(Seg) /\ n \in Nat /\ \A k \in 1..n : OnWire(q[k], next_seqno)
      /\ next_seqno \in Nat /\ next_seqno' \in Nat
  BY LenProperties DEF HostInv, SenderInv, Types
<1>2. \A seg : OnWire(seg, next_seqno) => OnWire(seg, next_seqno')
  BY <1>1, OnWireLater
<1>3. q' \in Seq(Seg) /\ \A k \in 1..Len(q') : OnWire(q'[k], next_seqno')
  <2>1. CASE q' = q
    BY <1>1, <1>2, <2>1, Zenon
  <2>2. ASSUME NEW seg \in Seg, q' = Append(q, seg), OnWire(seg, next_seqno')
        PROVE  q' \in Seq(Seg) /\ \A k \in 1..Len(q') : OnWire(q'[k], next_seqno')
    <3>1. /\ q' \in Seq(Seg) /\ Len(q') = n + 1 /\ q'[n + 1] = seg
          /\ \A k \in 1..n : q'[k] = q[k]
      BY <1>1, <2>2, AppendProperties
    <3>2. \A k \in 1..(n + 1) : k \in 1..n \/ k = n + 1
      BY <1>1
    <3> HIDE DEF n, q
    <3>3. ASSUME NEW k \in 1..(n + 1) PROVE OnWire(q'[k], next_seqno')
      <4>1. CASE k \in 1..n
        <5>1. q'[k] = q[k] /\ OnWire(q[k], next_seqno)
          BY <1>1, <3>1, <4>1, Zenon
        <5> QED
          BY <1>2, <5>1, Zenon
      <4>2. CASE k = n + 1
        <5>1. q'[k] = seg
          BY <3>1, <4>2, Zenon
        <5> QED
          BY <2>2, <5>1, Zenon
      <4> QED
        BY <3>2, <4>1, <4>2, Zenon
    <3> QED
      BY <3>1, <3>3, Zenon
  <2> QED
    BY <2>1, <2>2, Zenon
<1> QED
  BY <1>1, <1>3, Zenon DEF HostInv, HostKept

\* What fill_window() does: it queues the segment of the numbers it uses, or
\* nothing, and takes bytes from the stream.
LEMMA FillQueues ==
    ASSUME SenderInv, fill_window
    PROVE  /\ receiver_ack' = receiver_ack
           /\ consecutive_retransmissions' = consecutive_retransmissions /\ filling' \in BOOLEAN
           /\ stream'.written_bytes = stream.written_bytes
           /\ stream'.end_write = stream.end_write
           /\ \/ segments_out' = segments_out /\ next_seqno' = next_seqno
              \/ \E seg \in Seg :
                     /\ CarriesSource(seg, next_seqno)
                     /\ length_in_sequence_space(seg) > 0
                     /\ next_seqno' = next_seqno + length_in_sequence_space(seg)
                     /\ segments_out' = Append(segments_out, seg)
<1>1. /\ receiver_ack' = receiver_ack
      /\ consecutive_retransmissions' = consecutive_retransmissions
      /\ filling' = FALSE \/ \E n : filling' = window_not_full(n)
      /\ stream' = stream \/ stream' = read(stream, payload_size)
  BY Zenon DEF fill_window, send_syn, send_payload, emit
<1>2. filling' \in BOOLEAN
  <2>1. \A x, y : (x > y) \in BOOLEAN
    OBVIOUS
  <2>2. \A n : window_not_full(n) \in BOOLEAN
    BY <2>1, Zenon DEF window_not_full
  <2> QED
    BY <1>1, <2>2, Zenon
<1>3. stream'.written_bytes = stream.written_bytes /\ stream'.end_write = stream.end_write
  <2>1. stream \in ByteStreamType(Byte)
    BY Zenon DEF SenderInv, Types
  <2>2. ASSUME NEW len
        PROVE  /\ read(stream, len).written_bytes = stream.written_bytes
               /\ read(stream, len).end_write = stream.end_write
    BY <2>1 DEF read, pop_output, set_error, ByteStreamType
  <2> QED
    BY <1>1, <2>2, Zenon
<1>4. CASE set_fin_flag
  BY <1>1, <1>2, <1>3, <1>4, Zenon DEF fill_window
<1>5. CASE ~set_fin_flag /\ next_seqno = 0
  <2> DEFINE seg == Segment(SenderISN, TRUE, FALSE, <<>>)
  <2>1. emit(seg, add64(next_seqno, 1))
    BY <1>5, Zenon DEF fill_window, send_syn
  <2>2. seg \in Seg /\ CarriesSource(seg, next_seqno) /\ length_in_sequence_space(seg) = 1
    BY <1>5, SynSegment, Zenon
  <2>3. add64(next_seqno, 1) = 1
    BY <1>5, Constants, Add64Small
  <2>4. next_seqno' = 1 /\ segments_out' = Append(segments_out, seg)
    BY <2>1, <2>3, Zenon DEF emit
  <2> HIDE DEF seg
  <2>5. next_seqno' = next_seqno + length_in_sequence_space(seg) /\ length_in_sequence_space(seg) > 0
    BY <1>5, <2>2, <2>4
  <2> QED
    BY <1>1, <1>2, <1>3, <2>2, <2>4, <2>5, Zenon
<1>6. CASE ~set_fin_flag /\ next_seqno # 0
  <2>1. send_payload
    BY <1>6, Zenon DEF fill_window
  <2>2. \/ \E seg \in Seg :
              /\ length_in_sequence_space(seg) > 0
              /\ CarriesSource(seg, next_seqno)
              /\ emit(seg, next_seqno + length_in_sequence_space(seg))
        \/ UNCHANGED <<next_seqno, segments_out>>
    BY <1>6, <2>1, PayloadSent, Zenon
  <2> QED
    BY <1>1, <1>2, <1>3, <2>2, Zenon DEF emit
<1> QED
  BY <1>4, <1>5, <1>6

\* It keeps what holds of the host's sender.
LEMMA HostFills ==
    ASSUME HostInv, fill_window
    PROVE  HostKept /\ receiver_ack' = receiver_ack
<1>1. SenderInv /\ SenderInv'
  BY FillKeeps, Zenon DEF HostInv
<1>2. /\ receiver_ack' = receiver_ack
      /\ consecutive_retransmissions' = consecutive_retransmissions /\ filling' \in BOOLEAN
      /\ \/ segments_out' = segments_out /\ next_seqno' = next_seqno
         \/ \E seg \in Seg :
                /\ CarriesSource(seg, next_seqno)
                /\ length_in_sequence_space(seg) > 0
                /\ next_seqno' = next_seqno + length_in_sequence_space(seg)
                /\ segments_out' = Append(segments_out, seg)
  BY <1>1, FillQueues, Zenon
<1>3. next_seqno \in Nat /\ consecutive_retransmissions' \in Nat
  BY <1>1, <1>2, Zenon DEF SenderInv, Types, HostInv
<1>4. CASE segments_out' = segments_out /\ next_seqno' = next_seqno
  <2>1. next_seqno <= next_seqno'
    BY <1>3, <1>4
  <2> QED
    BY <1>1, <1>2, <1>3, <1>4, <2>1, QueueKeeps, Zenon
<1>5. ASSUME NEW seg \in Seg, CarriesSource(seg, next_seqno),
             length_in_sequence_space(seg) > 0,
             next_seqno' = next_seqno + length_in_sequence_space(seg),
             segments_out' = Append(segments_out, seg)
      PROVE  HostKept
  <2>1. length_in_sequence_space(seg) \in Nat
    BY <1>5, SegLength
  <2>2. next_seqno <= next_seqno' /\ next_seqno + length_in_sequence_space(seg) <= next_seqno'
    BY <1>3, <1>5, <2>1
  <2>3. OnWire(seg, next_seqno')
    BY <1>3, <1>5, <2>2, SegmentIs
  <2> QED
    BY <1>1, <1>2, <1>3, <1>5, <2>2, <2>3, QueueKeeps, Zenon
<1> QED
  BY <1>2, <1>4, <1>5, Zenon

\* tick() queues the oldest outstanding segment again, or nothing.
LEMMA HostTicks ==
    ASSUME HostInv, NEW ms \in Nat, tick(ms)
    PROVE  HostKept /\ receiver_ack' = receiver_ack
<1>1. SenderInv /\ SenderInv'
  BY TickKeeps, Zenon DEF HostInv
<1>2. /\ next_seqno' = next_seqno /\ receiver_ack' = receiver_ack /\ filling' = filling
      /\ \/ /\ consecutive_retransmissions' = consecutive_retransmissions
            /\ segments_out' = segments_out
         \/ /\ timer.is_running
            /\ consecutive_retransmissions' = consecutive_retransmissions + 1
            /\ segments_out' = Append(segments_out, Head(outstanding_segments))
  BY Zenon DEF tick, check_timeout
<1>3. /\ next_seqno \in Nat /\ consecutive_retransmissions \in Nat /\ filling \in BOOLEAN
      /\ outstanding_segments \in Seq(Seg)
      /\ timer.is_running <=> outstanding_segments # <<>>
  BY <1>1, Zenon DEF SenderInv, Types, Timed, HostInv
<1>4. next_seqno <= next_seqno' /\ consecutive_retransmissions' \in Nat /\ filling' \in BOOLEAN
  BY <1>2, <1>3
<1>5. CASE segments_out' = segments_out
  BY <1>1, <1>2, <1>4, <1>5, QueueKeeps, Zenon
<1>6. CASE timer.is_running /\ segments_out' = Append(segments_out, Head(outstanding_segments))
  <2> DEFINE q == outstanding_segments
             n == Len(q)
             seg == Head(q)
  <2>1. n \in Nat /\ n > 0 /\ seg = q[1] /\ seg \in Seg
    BY <1>3, <1>6, HeadTailProperties, EmptySeq, LenProperties
  <2>2. PICK start : Tiled(start)
    BY <1>1, Zenon DEF SenderInv
  <2>3. /\ start \in [1..(n + 1) -> Nat] /\ start[n + 1] = next_seqno
        /\ \A j, k \in 1..(n + 1) : j <= k => start[j] <= start[k]
        /\ \A k \in 1..n : /\ start[k + 1] = start[k] + length_in_sequence_space(q[k])
                           /\ length_in_sequence_space(q[k]) > 0
                           /\ CarriesSource(q[k], start[k])
    BY <2>2, Zenon DEF Tiled
  <2> HIDE DEF n, q, seg
  <2>4. /\ 1 \in 1..n /\ 1 \in 1..(n + 1) /\ 1 + 1 \in 1..(n + 1) /\ n + 1 \in 1..(n + 1)
        /\ 1 + 1 <= n + 1
    BY <2>1
  <2>5. /\ start[1] \in Nat /\ start[1 + 1] <= next_seqno
        /\ start[1 + 1] = start[1] + length_in_sequence_space(seg)
        /\ length_in_sequence_space(seg) > 0 /\ CarriesSource(seg, start[1])
    BY <2>1, <2>3, <2>4, Zenon
  <2>6. start[1] + length_in_sequence_space(seg) <= next_seqno'
    BY <1>2, <2>5, Zenon
  <2>7. OnWire(seg, next_seqno')
    BY <2>1, <2>5, <2>6, SegmentIs
  <2>8. \E x \in Seg : segments_out' = Append(segments_out, x) /\ OnWire(x, next_seqno')
    BY <1>6, <2>1, <2>7, Zenon DEF seg, q
  <2> QED
    BY <1>1, <1>2, <1>4, <2>8, QueueKeeps, Zenon
<1> QED
  BY <1>2, <1>5, <1>6, Zenon

\* What leaves the queue is the stream's own.
LEMMA HostSends ==
    ASSUME HostInv, PopSegment
    PROVE  HostKept /\ receiver_ack' = receiver_ack /\ OnWire(Head(segments_out), next_seqno')
<1> DEFINE q == segments_out
           n == Len(q)
<1>1. /\ q # <<>> /\ q' = Tail(q) /\ next_seqno' = next_seqno
      /\ receiver_ack' = receiver_ack /\ filling' = filling
      /\ consecutive_retransmissions' = consecutive_retransmissions
  BY Zenon DEF PopSegment, sender_pop_segment
<1>2. SenderInv'
  BY NextInv, Zenon DEF HostInv, SenderNext
<1>3. /\ q \in Seq(Seg) /\ \A k \in 1..n : OnWire(q[k], next_seqno)
      /\ consecutive_retransmissions \in Nat /\ filling \in BOOLEAN /\ next_seqno \in Nat
  BY Zenon DEF HostInv, SenderInv, Types
<1>4. /\ n \in Nat /\ n > 0 /\ Head(q) = q[1] /\ Tail(q) \in Seq(Seg) /\ Len(Tail(q)) = n - 1
      /\ \A k \in 1..(n - 1) : Tail(q)[k] = q[k + 1]
  BY <1>1, <1>3, HeadTailProperties, LenProperties, EmptySeq
<1> HIDE DEF n, q
<1>5. 1 \in 1..n /\ \A k \in 1..(n - 1) : k + 1 \in 1..n
  BY <1>4
<1>6. (\A k \in 1..Len(q') : OnWire(q'[k], next_seqno')) /\ OnWire(Head(q), next_seqno')
  BY <1>1, <1>3, <1>4, <1>5, Zenon
<1>7. next_seqno <= next_seqno'
  BY <1>1, <1>3
<1> QED
  BY <1>1, <1>2, <1>3, <1>4, <1>6, <1>7, Zenon DEF HostInv, HostKept, q

\* Steps that leave the queue and the numbers alone.
LEMMA HostWaits ==
    ASSUME HostInv, (\E len \in 1..N : Write(len)) \/ EndInput \/ UNCHANGED senderVars
    PROVE  /\ HostKept /\ receiver_ack' = receiver_ack
           /\ next_seqno' = next_seqno /\ segments_out' = segments_out
<1>1. SenderInv'
  BY NextInv, Zenon DEF HostInv, SenderNext
<1>2. /\ next_seqno' = next_seqno /\ receiver_ack' = receiver_ack /\ filling' = filling
      /\ consecutive_retransmissions' = consecutive_retransmissions
      /\ segments_out' = segments_out
  BY Zenon DEF EndInput, Write, sender_end_input, sender_write, senderVars
<1>3. next_seqno \in Nat /\ consecutive_retransmissions \in Nat /\ filling \in BOOLEAN
  BY Zenon DEF HostInv, SenderInv, Types
<1>4. next_seqno <= next_seqno'
  BY <1>2, <1>3
<1> QED
  BY <1>1, <1>2, <1>3, <1>4, QueueKeeps, Zenon

\* ack_received() takes for acknowledged no more than it is told.
LEMMA TakesNoMore ==
    ASSUME SenderInv, NEW a \in Int, NEW window, take_ack(a, window)
    PROVE  receiver_ack' = receiver_ack \/ receiver_ack' <= a
<1> DEFINE q == outstanding_segments
<1>1. PICK n \in 0..Len(q) :
          /\ \A k \in 1..n : seg_end(q[k]) <= a
          /\ receiver_ack' = IF n > 0 THEN seg_end(q[n]) ELSE receiver_ack
  BY Zenon DEF take_ack, fully_acked
<1>2. Len(q) \in Nat
  BY LenProperties DEF SenderInv, Types
<1>3. n > 0 => n \in 1..n
  BY <1>2
<1> QED
  BY <1>1, <1>3, Zenon

\* An acknowledgment of a number that has been used, in a stream shorter than
\* half the sequence space, is recovered as that number.
LEMMA HostAcks ==
    ASSUME HostInv, N + 2 < HalfSeq, NEW a \in Nat, a <= next_seqno,
           NEW window \in 0..MaxWindow, AckReceived(wrap(a, SenderISN), window)
    PROVE  /\ HostKept /\ stream' = stream
           /\ receiver_ack' \in Nat /\ (receiver_ack' = receiver_ack \/ receiver_ack' <= a)
<1>1. SenderInv /\ next_seqno \in Nat /\ next_seqno <= N + 2 /\ next_seqno <= a + HalfSeq
  BY Reach, Constants DEF HostInv, Reached
<1>2. unwrap(wrap(a, SenderISN), SenderISN, next_seqno) = a
  BY <1>1, UnwrapBehind, Zenon
<1>3. wrap(a, SenderISN) \in WrappingInt32
  BY Constants, WrapIsMod, Zenon
<1>4. SenderInv'
  BY <1>1, <1>3, NextInv, Zenon DEF SenderNext
<1>5. take_ack(a, window) \/ UNCHANGED senderVars
  BY <1>2, Zenon DEF AckReceived, ack_received
<1>6. /\ next_seqno' = next_seqno /\ segments_out' = segments_out /\ filling' = filling
      /\ consecutive_retransmissions' \in {0, consecutive_retransmissions} /\ stream' = stream
  BY <1>5, Zenon DEF take_ack, senderVars
<1>7. receiver_ack' = receiver_ack \/ receiver_ack' <= a
  <2>1. a \in Int
    OBVIOUS
  <2> QED
    BY <1>1, <1>5, <2>1, TakesNoMore, Zenon DEF senderVars
<1>8. next_seqno <= next_seqno' /\ consecutive_retransmissions' \in Nat
  BY <1>1, <1>6 DEF HostInv
<1>9. filling' \in BOOLEAN /\ receiver_ack' \in Nat
  BY <1>4, <1>6, Zenon DEF HostInv, SenderInv, Types
<1> QED
  BY <1>4, <1>6, <1>7, <1>8, <1>9, QueueKeeps, Zenon

-----------------------------------------------------------------------------
\* What has been written.

\* A number of the stream that has been used belongs to a byte that was written,
\* and the FIN's number is used only when the stream has ended.
LEMMA WrittenFirst ==
    ASSUME SenderInv
    PROVE  LET w == stream.written_bytes
           IN  /\ w \in 0..N
               /\ \A m \in 0..N : m < next_seqno => m <= w
               /\ N + 1 < next_seqno => stream.end_write /\ w = N
<1> DEFINE w == stream.written_bytes
           r == stream.read_bytes
           syn == IF set_syn_flag THEN 1 ELSE 0
           fin == IF set_fin_flag THEN 1 ELSE 0
           n == next_seqno
<1>1. /\ w \in Nat /\ r \in Nat /\ r <= w /\ n \in Nat /\ w <= N /\ N \in Nat
      /\ (set_fin_flag => stream.end_write) /\ (stream.end_write => w = N)
  BY Bounds, Constants, Zenon DEF SenderInv, Buffered, Accounted, Types
<1>2. /\ n = syn + r + fin /\ syn \in 0..1 /\ fin \in 0..1 /\ (fin = 1 => set_fin_flag)
  BY DEF SenderInv, Accounted
<1> HIDE DEF w, r, syn, fin, n
<1>3. \A m \in 0..N : m < n => m <= w
  <2> SUFFICES ASSUME NEW m \in 0..N, m < n PROVE m <= w
    OBVIOUS
  <2>1. CASE fin = 1
    <3>1. w = N
      BY <1>1, <1>2, <2>1
    <3> QED
      BY <1>1, <3>1
  <2>2. CASE fin = 0
    BY <1>1, <1>2, <2>2
  <2> QED
    BY <1>2, <2>1, <2>2
<1>4. N + 1 < n => stream.end_write /\ w = N
  BY <1>1, <1>2
<1>5. w \in 0..N
  BY <1>1
<1> QED
  BY <1>3, <1>4, <1>5 DEF w, n

\* write() only adds to it.
LEMMA WriteAdds ==
    ASSUME SenderInv, NEW len \in 1..N, Write(len)
    PROVE  /\ ~stream.end_write /\ ~stream'.end_write
           /\ stream'.written_bytes \in stream.written_bytes..N
<1> DEFINE w == stream.written_bytes
           v == w'
           d == SubSeq(Source, w + 1, w + len)
<1>1. /\ ~stream.end_write /\ stream' = write(stream, d) /\ w + len <= N
  BY Zenon DEF Write, input_ended, sender_write, bytes_written
<1>2. stream \in ByteStreamType(Byte) /\ Len(stream.buffer) <= stream.capacity
  BY Zenon DEF SenderInv, Types, Buffered
<1>3. w \in 0..N /\ v \in 0..N
  <2>1. SenderInv'
    BY WriteKeeps
  <2> QED
    BY <2>1, Constants DEF SenderInv, Types, Buffered, ByteStreamType
<1>4. stream'.end_write = stream.end_write /\ v = w + realWrite(stream, d)
  BY <1>1, <1>2 DEF write, ByteStreamType
<1>5. d \in Seq(Byte)
  <2>1. w + 1 \in 1..(N + 1) /\ w + len \in 0..N
    BY <1>1, <1>3, Constants
  <2> QED
    BY <1>3, <2>1, TheSource, ElementOfSeq, SubSeqProperties
<1> DEFINE k == realWrite(stream, d)
<1> HIDE DEF d
<1>6. k \in Nat
  BY <1>2, <1>5 DEF realWrite, min, ByteStreamType
<1> HIDE DEF k, v, w
<1>7. v = w + k
  BY <1>4 DEF k
<1>8. v \in w..N
  BY <1>3, <1>6, <1>7, Constants
<1> QED
  BY <1>1, <1>4, <1>8 DEF v, w

=============================================================================
