----------------------- MODULE TCPSenderWindowProofs -----------------------
(***************************************************************************)
(* What a TCPSender does with its window, its timer and its summary, for   *)
(* every instance of TCPSenderSpec: all it ever does is what a sliding     *)
(* window may do, fill_window() stops only when it must, the timer runs    *)
(* exactly when something is outstanding and backs off by doubling, and    *)
(* the summary never goes back.  All of it rests on SenderInv.             *)
(***************************************************************************)
EXTENDS TCPSenderProofs, FiniteSetTheorems

\* How far the timer backs off.

\* Powers of two are numbers, and each is twice the one before: they count the
\* subsets of 1..n.
LEMMA TwoToThe ==
    ASSUME NEW n \in Nat
    PROVE  2^n \in Nat \ {0} /\ 2^(n + 1) = 2 * 2^n
<1> DEFINE S == 1..n
           U == 1..(n + 1)
           with(B) == B \cup {n + 1}
           T == {with(B) : B \in SUBSET S}
<1>1. IsFiniteSet(S) /\ Cardinality(S) = n /\ IsFiniteSet(U) /\ Cardinality(U) = n + 1
  BY FS_Interval
<1>2. /\ IsFiniteSet(SUBSET S) /\ Cardinality(SUBSET S) = 2^n
      /\ Cardinality(SUBSET U) = 2^(n + 1)
  BY <1>1, FS_SUBSET, Zenon
<1>3. n + 1 \notin S /\ U = S \cup {n + 1}
  OBVIOUS
<1> HIDE DEF S, U
<1>4. SUBSET U = (SUBSET S) \cup T /\ (SUBSET S) \cap T = {}
  <2>1. ASSUME NEW B \in SUBSET U, B \notin SUBSET S PROVE B \in T
    <3>1. B \ {n + 1} \in SUBSET S /\ B = with(B \ {n + 1})
      BY <1>3, <2>1
    <3> QED
      BY <3>1, Zenon
  <2>2. T \subseteq SUBSET U /\ SUBSET S \subseteq SUBSET U /\ \A B \in T : B \notin SUBSET S
    BY <1>3
  <2> HIDE DEF T
  <2> QED
    BY <2>1, <2>2, Zenon
<1>5. ExistsBijection(SUBSET S, T)
  <2> DEFINE f == [B \in SUBSET S |-> with(B)]
  <2>1. f \in [SUBSET S -> T]
    OBVIOUS
  <2>2. \A A, B \in SUBSET S : f[A] = f[B] => A = B
    <3> TAKE A, B \in SUBSET S
    <3> HAVE f[A] = f[B]
    <3>1. A \cup {n + 1} = B \cup {n + 1}
      OBVIOUS
    <3>2. n + 1 \notin A /\ n + 1 \notin B
      BY <1>3
    <3>3. A \subseteq B /\ B \subseteq A
      BY <3>1, <3>2
    <3> QED
      BY <3>3, Zenon
  <2>3. \A y \in T : \E B \in SUBSET S : f[B] = y
    OBVIOUS
  <2> HIDE DEF f, T
  <2>4. IsInjective(f)
    BY <2>1, <2>2 DEF IsInjective
  <2>5. f \in Bijection(SUBSET S, T)
    BY <2>1, <2>3, <2>4, Zenon DEF Bijection, Injection, Surjection
  <2> QED
    BY <2>5, Zenon DEF ExistsBijection
<1>6. IsFiniteSet(T) /\ Cardinality(T) = 2^n
  BY <1>2, <1>5, FS_Bijection, Zenon
<1> HIDE DEF T
<1>7. Cardinality((SUBSET S) \cup T) = Cardinality(SUBSET S) + Cardinality(T) - Cardinality((SUBSET S) \cap T)
  BY <1>2, <1>6, FS_Union, Zenon
<1>8. Cardinality((SUBSET S) \cap T) = 0
  BY <1>4, FS_EmptySet, Zenon
<1>9. 2^n \in Nat
  BY <1>2, FS_CardinalityType, Zenon
<1>10. 2^n # 0
  <2>1. SUBSET S # {}
    BY Zenon
  <2> QED
    BY <1>2, <2>1, FS_EmptySet, Zenon
<1>11. 2^(n + 1) = Cardinality(SUBSET S) + Cardinality(T) - Cardinality((SUBSET S) \cap T)
  BY <1>2, <1>4, <1>7, Zenon
<1>12. 2^(n + 1) = 2^n + 2^n - 0
  BY <1>2, <1>6, <1>8, <1>11, Zenon
<1> DEFINE p == 2^n
           pp == 2^(n + 1)
<1> HIDE DEF p, pp
<1>13. pp = 2 * p
  <2>1. p \in Nat /\ pp = p + p - 0
    BY <1>9, <1>12, Zenon DEF p, pp
  <2> QED
    BY <2>1
<1> QED
  BY <1>9, <1>10, <1>13, Zenon DEF p, pp

\* The timeout has doubled at most once for each retransmission in a row.
Backoff ==
    /\ consecutive_retransmissions \in Nat
    /\ timer.rto <= InitRTO * 2^consecutive_retransmissions

\* The initial timeout is within the bound, and doubling keeps it there.
LEMMA Doubled ==
    ASSUME NEW c \in Nat
    PROVE  /\ InitRTO <= InitRTO * 2^c
           /\ \A t \in Nat : t <= InitRTO * 2^c => 2 * t <= InitRTO * 2^(c + 1)
<1> DEFINE p == 2^c
           pp == 2^(c + 1)
<1>1. p \in Nat /\ p >= 1 /\ pp = 2 * p
  BY TwoToThe
<1>2. InitRTO \in Nat
  BY Constants
<1> HIDE DEF p, pp
<1>3. InitRTO * p \in Nat /\ InitRTO <= InitRTO * p
  BY <1>1, <1>2
<1>4. InitRTO * pp = 2 * (InitRTO * p)
  BY <1>1, <1>2
<1>5. \A t \in Nat : t <= InitRTO * p => 2 * t <= InitRTO * pp
  <2> DEFINE m == InitRTO * p
  <2>1. m \in Nat /\ InitRTO * pp = 2 * m
    BY <1>3, <1>4
  <2> HIDE DEF m
  <2>2. \A t \in Nat : t <= m => 2 * t <= 2 * m
    BY <2>1
  <2> QED
    BY <2>1, <2>2 DEF m
<1> QED
  BY <1>3, <1>5 DEF p, pp

\* A timer that starts, or is set to the initial timeout, is within the bound.
LEMMA StepBacksOff ==
    ASSUME SenderInv, Backoff, [SenderNext]_senderVars
    PROVE  Backoff'
<1>1. /\ timer \in TimerType /\ timer.init_rto = InitRTO /\ InitRTO \in Nat
      /\ timer.rto \in Nat /\ consecutive_retransmissions \in Nat
  BY Constants DEF SenderInv, Types, Timed, TimerType, Backoff
<1>2. ASSUME timer'.rto \in {timer.rto, InitRTO},
             consecutive_retransmissions' = consecutive_retransmissions
      PROVE  Backoff'
  BY <1>1, <1>2, Doubled DEF Backoff
<1>3. ASSUME NEW seg, NEW n, emit(seg, n) PROVE Backoff'
  <2>1. /\ timer' = start_timer(timer)
        /\ consecutive_retransmissions' = consecutive_retransmissions
    BY <1>3 DEF emit
  <2>2. timer'.rto \in {timer.rto, InitRTO}
    BY <1>1, <2>1 DEF start_timer, TimerType
  <2> QED
    BY <1>2, <2>1, <2>2
<1>4. ASSUME fill_window PROVE Backoff'
  BY <1>2, <1>3, <1>4, Zenon DEF fill_window, send_syn, send_payload
<1>5. ASSUME NEW a, NEW window_size, take_ack(a, window_size) PROVE Backoff'
  <2>1. PICK n, stopped :
          /\ stopped \in {stop_timer(timer), timer}
          /\ IF n > 0
             THEN /\ timer' = set_accumulate_time(set_timeout(stopped, InitRTO), 0)
                  /\ consecutive_retransmissions' = 0
             ELSE timer' = stopped /\ consecutive_retransmissions' = consecutive_retransmissions
    BY <1>5, Zenon DEF take_ack
  <2>2. stopped \in TimerType /\ stopped.rto = timer.rto
    BY <1>1, <2>1, Zenon DEF stop_timer, TimerType
  <2>3. CASE n > 0
    <3>1. timer'.rto = InitRTO
      BY <2>1, <2>2, <2>3, Zenon DEF set_accumulate_time, set_timeout, TimerType
    <3>2. InitRTO <= InitRTO * 2^0 /\ 0 \in Nat
      BY Doubled, Zenon
    <3> QED
      BY <2>1, <2>3, <3>1, <3>2, Zenon DEF Backoff
  <2>4. CASE ~(n > 0)
    BY <1>2, <2>1, <2>2, <2>4
  <2> QED
    BY <2>3, <2>4
<1>6. ASSUME NEW ms, tick(ms) PROVE Backoff'
  <2> DEFINE t == accumulate(timer, ms)
  <2>1. t.rto = timer.rto /\ DOMAIN t = DOMAIN timer
    BY <1>1, Zenon DEF accumulate, TimerType
  <2> HIDE DEF t
  <2>2. CASE check_timeout(timer, ms)
    <3>1. consecutive_retransmissions' = consecutive_retransmissions + 1
      BY <1>6, <2>2 DEF tick
    <3>2. CASE receiver_window_size > 0
      <4>1. timer' = [t EXCEPT !.rto = 2 * @, !.accumulate_time = 0]
        BY <1>6, <2>2, <3>2 DEF tick, handle_timeout, t
      <4>2. timer'.rto = 2 * timer.rto
        BY <1>1, <2>1, <4>1 DEF TimerType
      <4> QED
        BY <1>1, <3>1, <4>2, Doubled DEF Backoff
    <3>3. CASE ~(receiver_window_size > 0)
      <4>1. timer' = set_accumulate_time(set_timeout(timer, InitRTO), 0)
        BY <1>6, <2>2, <3>3 DEF tick
      <4>2. timer'.rto = InitRTO
        BY <1>1, <4>1, Zenon DEF set_accumulate_time, set_timeout, TimerType
      <4> QED
        BY <1>1, <3>1, <4>2, Doubled DEF Backoff
    <3> QED
      BY <3>2, <3>3
  <2>3. CASE ~check_timeout(timer, ms)
    <3>1. timer' = t /\ consecutive_retransmissions' = consecutive_retransmissions
      BY <1>6, <2>3 DEF tick, t
    <3> QED
      BY <1>2, <2>1, <3>1
  <2> QED
    BY <2>2, <2>3
<1>7. ASSUME UNCHANGED <<timer, consecutive_retransmissions>> PROVE Backoff'
  BY <1>7 DEF Backoff
<1>8. CASE UNCHANGED senderVars
  BY <1>7, <1>8 DEF senderVars
<1>9. CASE \E ackno \in WrappingInt32, window_size \in 0..MaxWindow : AckReceived(ackno, window_size)
  BY <1>5, <1>7, <1>9 DEF AckReceived, ack_received, senderVars
<1>10. CASE \E ms \in 1..MaxTick : Tick(ms)
  BY <1>6, <1>10 DEF Tick
<1>11. CASE FillWindow \/ FillWindowAgain
  BY <1>4, <1>11 DEF FillWindow, FillWindowAgain
<1>12. CASE \/ \E len \in 1..N : Write(len)
            \/ EndInput \/ SetError \/ SendEmptySegment \/ PopSegment
  BY <1>7, <1>12, Zenon DEF Write, EndInput, SetError, SendEmptySegment, PopSegment, sender_write,
     sender_end_input, sender_set_error, send_empty_segment, sender_pop_segment
<1> QED
  BY <1>8, <1>9, <1>10, <1>11, <1>12 DEF SenderNext

\* The timer runs exactly when a segment is outstanding, so front() in tick()
\* is never called on an empty queue; between two calls it has not expired, and
\* its timeout lies between the initial one and the initial one doubled once
\* for each retransmission in a row.
THEOREM TimerRunsForOutstanding == SenderSpec => []TimerIffOutstanding
<1>1. SenderSpec => []SenderInv
  BY InitInv, NextInv, PTL DEF SenderSpec
<1>2. SenderInit => Backoff
  <2> SUFFICES ASSUME SenderInit PROVE Backoff
    OBVIOUS
  <2>1. consecutive_retransmissions = 0 /\ timer.rto = InitRTO
    BY DEF SenderInit, NewRetransmissionTimer
  <2> QED
    BY <2>1, Doubled, Zenon DEF Backoff
<1>3. SenderSpec => []Backoff
  BY <1>1, <1>2, StepBacksOff, PTL DEF SenderSpec
<1>4. SenderInv /\ Backoff => TimerIffOutstanding
  <2> SUFFICES ASSUME SenderInv, Backoff PROVE TimerIffOutstanding
    OBVIOUS
  <2> DEFINE bound == InitRTO * 2^consecutive_retransmissions
  <2>1. /\ timer.rto \in Nat /\ InitRTO \in Nat /\ timer.rto >= InitRTO
        /\ timer.is_running <=> outstanding_segments # <<>>
        /\ timer.is_running => timer.accumulate_time < timer.rto
    BY Constants DEF SenderInv, Types, Timed, TimerType
  <2>2. timer.rto <= bound /\ bound \in Nat
    BY <2>1, TwoToThe DEF Backoff
  <2> HIDE DEF bound
  <2>3. timer.rto \in InitRTO..bound
    BY <2>1, <2>2
  <2> QED
    BY <2>1, <2>3 DEF TimerIffOutstanding, bound
<1> QED
  BY <1>1, <1>3, <1>4, PTL

-----------------------------------------------------------------------------
\* The sender implements the sliding window.

Stream == <<0>> \o Source \o <<-1>>

\* What a segment carries.
What(seg) == (IF seg.syn THEN <<0>> ELSE <<>>) \o seg.payload \o (IF seg.fin THEN <<-1>> ELSE <<>>)

\* The pieces that wait in _segments_out.
Wire == [k \in DOMAIN segments_out |-> piece(segments_out[k])]

\* A segment that waits to be sent starts no earlier than the oldest
\* unacknowledged number and no later than the next one to be used.
Waiting ==
    /\ segments_out \in Seq(Seg)
    /\ \A k \in 1..Len(segments_out) : \E at \in Nat :
           /\ receiver_ack <= at /\ at <= next_seqno
           /\ segments_out[k].seqno = wrap(at, SenderISN)

\* Append and Tail, of functions that are sequences.
LEMMA AppendIs ==
    ASSUME NEW n \in Nat, NEW T, NEW w \in [1..n -> T], NEW v \in [1..(n + 1) -> T],
           \A k \in 1..n : v[k] = w[k]
    PROVE  v = Append(w, v[n + 1])
<1> DEFINE x == v[n + 1]
<1>1. x \in T
  OBVIOUS
<1> HIDE DEF x
<1>3. w \in Seq(T) /\ Len(w) = n /\ v \in Seq(T) /\ Len(v) = n + 1
  BY SeqDef, LenProperties
<1>4. /\ Append(w, x) \in Seq(T) /\ Len(Append(w, x)) = n + 1
      /\ \A i \in 1..n : Append(w, x)[i] = w[i]
      /\ Append(w, x)[n + 1] = x
  BY <1>1, <1>3, AppendProperties
<1>5. \A i \in 1..Len(v) : v[i] = Append(w, x)[i]
  <2> TAKE i \in 1..Len(v)
  <2>1. i \in 1..n \/ i = n + 1
    BY <1>3
  <2> QED
    BY <1>4, <2>1 DEF x
<1> QED
  BY <1>3, <1>4, <1>5, SeqEqual DEF x

\* Tail as the sequence shifted by one.
LEMMA TailIs ==
    ASSUME NEW n \in Nat, n > 0, NEW T, NEW w \in [1..n -> T], NEW v \in [1..(n - 1) -> T],
           \A k \in 1..(n - 1) : v[k] = w[k + 1]
    PROVE  w # <<>> /\ v = Tail(w)
<1>1. w \in Seq(T) /\ Len(w) = n
  BY SeqDef, LenProperties
<1>2. v \in Seq(T) /\ Len(v) = n - 1
  <2> DEFINE m == n - 1
  <2>1. m \in Nat
    OBVIOUS
  <2>2. v \in [1..m -> T]
    OBVIOUS
  <2> HIDE DEF m
  <2>3. v \in Seq(T) /\ Len(v) = m
    BY <2>1, <2>2, SeqDef, LenProperties
  <2> QED
    BY <2>3 DEF m
<1>3. w \in Seq(T) /\ Len(w) = n /\ v \in Seq(T) /\ Len(v) = n - 1
  BY <1>1, <1>2
<1>4. w # <<>>
  BY <1>3, EmptySeq
<1>5. /\ Tail(w) \in Seq(T) /\ Len(Tail(w)) = n - 1
      /\ \A i \in 1..(n - 1) : Tail(w)[i] = w[i + 1]
  BY <1>3, <1>4, HeadTailProperties
<1>6. \A i \in 1..Len(v) : v[i] = Tail(w)[i]
  BY <1>3, <1>5
<1> QED
  BY <1>3, <1>4, <1>5, <1>6, SeqEqual

\* The stream with its SYN and FIN.
LEMMA StreamIs ==
    /\ Stream \in Seq(Byte \cup {0, -1}) /\ Len(Stream) = N + 2
    /\ Stream[1] = 0 /\ Stream[N + 2] = -1
    /\ \A i \in 1..N : Stream[i + 1] = Source[i]
<1> DEFINE T == Byte \cup {0, -1}
           first == <<0>> \o Source
<1>1. Source \in Seq(T) /\ Len(Source) = N /\ N \in Nat
  <2>1. Source \in Seq(Byte)
    BY SenderSpecAssumption
  <2>2. Source \in Seq(T)
    BY <2>1, LenProperties, SeqDef
  <2> QED
    BY <2>2, Constants DEF N
<1>2. /\ <<0>> \in Seq(T) /\ Len(<<0>>) = 1 /\ <<0>>[1] = 0
      /\ <<-1>> \in Seq(T) /\ Len(<<-1>>) = 1 /\ <<-1>>[1] = -1
  OBVIOUS
<1> HIDE DEF T
<1>3. /\ first \in Seq(T) /\ Len(first) = 1 + N
      /\ \A i \in 1..(1 + N) : first[i] = IF i <= 1 THEN <<0>>[i] ELSE Source[i - 1]
  BY <1>1, <1>2, ConcatProperties
<1> HIDE DEF first
<1>4. /\ first \o <<-1>> \in Seq(T) /\ Len(first \o <<-1>>) = 1 + N + 1
      /\ \A i \in 1..(1 + N + 1) :
             (first \o <<-1>>)[i] = IF i <= 1 + N THEN first[i] ELSE <<-1>>[i - (1 + N)]
  BY <1>2, <1>3, ConcatProperties
<1>5. Stream = first \o <<-1>>
  BY DEF Stream, first
<1>6. Stream[1] = 0 /\ Stream[N + 2] = -1
  <2>1. 1 \in 1..(1 + N + 1) /\ 1 <= 1 + N /\ 1 \in 1..(1 + N) /\ N + 2 \in 1..(1 + N + 1)
        /\ ~(N + 2 <= 1 + N) /\ (N + 2) - (1 + N) = 1
    BY <1>1
  <2> QED
    BY <1>2, <1>3, <1>4, <1>5, <2>1
<1>7. \A i \in 1..N : Stream[i + 1] = Source[i]
  <2> TAKE i \in 1..N
  <2>1. i + 1 \in 1..(1 + N + 1) /\ i + 1 \in 1..(1 + N) /\ i + 1 <= 1 + N /\ ~(i + 1 <= 1) /\ (i + 1) - 1 = i
    BY <1>1
  <2> QED
    BY <1>3, <1>4, <1>5, <2>1
<1>8. 1 + N + 1 = N + 2
  BY <1>1
<1> QED
  BY <1>4, <1>5, <1>6, <1>7, <1>8, Zenon DEF T

\* A segment that carries its part of the source is a piece of the stream.
LEMMA WhatIs ==
    ASSUME NEW seg \in Seg, NEW at \in Nat, CarriesSource(seg, at)
    PROVE  What(seg) = SubSeq(Stream, at + 1, at + length_in_sequence_space(seg))
<1> DEFINE T == Byte \cup {0, -1}
           p == seg.payload
           len == length_in_sequence_space(seg)
           part == SubSeq(Stream, at + 1, at + len)
<1>1. p \in Seq(T) /\ Len(p) \in Nat /\ seg.syn \in BOOLEAN /\ seg.fin \in BOOLEAN
  <2>1. p \in Seq(Byte) /\ seg.syn \in BOOLEAN /\ seg.fin \in BOOLEAN
    BY DEF Seg, SegmentType
  <2>2. p \in Seq(T)
    BY <2>1, LenProperties, SeqDef
  <2> QED
    BY <2>1, <2>2, LenProperties
<1>2. /\ seg.syn <=> at = 0
      /\ seg.syn => p = <<>>
      /\ seg.fin => at + Len(p) = N + 1
      /\ at + Len(p) <= N + 1
  BY DEF CarriesSource
<1>3. \A i \in 1..Len(p) : p[i] = Source[at + i - 1]
  BY DEF CarriesSource
<1>4. /\ Stream \in Seq(T) /\ Len(Stream) = N + 2 /\ N \in Nat
      /\ Stream[1] = 0 /\ Stream[N + 2] = -1
  BY StreamIs, Constants
<1>5. \A i \in 1..N : Stream[i + 1] = Source[i]
  BY StreamIs
<1>6. len = Len(p) + (IF seg.syn THEN 1 ELSE 0) + (IF seg.fin THEN 1 ELSE 0)
  BY DEF length_in_sequence_space
<1> HIDE DEF T, p, len
<1>7. Len(<<>>) = 0 /\ <<>> \in Seq(T)
  BY EmptySeq
<1>8. len \in Nat /\ at + len <= N + 2
  <2>1. CASE seg.syn
    <3>1. ~seg.fin /\ Len(p) = 0 /\ at = 0
      BY <1>1, <1>2, <1>4, <1>7, <2>1
    <3> QED
      BY <1>4, <1>6, <2>1, <3>1
  <2>2. CASE ~seg.syn
    <3>1. CASE seg.fin
      BY <1>1, <1>2, <1>4, <1>6, <2>2, <3>1
    <3>2. CASE ~seg.fin
      BY <1>1, <1>2, <1>4, <1>6, <2>2, <3>2, SMTT(30)
    <3> QED
      BY <3>1, <3>2
  <2> QED
    BY <2>1, <2>2
<1>9. /\ part \in Seq(T) /\ Len(part) = len
      /\ \A i \in 1..len : part[i] = Stream[at + i]
  <2>1. \A i \in (at + 1)..(at + len) : Stream[i] \in T
    <3> TAKE i \in (at + 1)..(at + len)
    <3>1. i \in 1..(N + 2)
      BY <1>4, <1>8
    <3> QED
      BY <1>4, <3>1, ElementOfSeq
  <2>2. at + 1 \in Int /\ at + len \in Int
    BY <1>8
  <2>3. /\ part \in Seq(T)
        /\ Len(part) = IF at + 1 <= at + len THEN (at + len) - (at + 1) + 1 ELSE 0
        /\ \A i \in 1..((at + len) - (at + 1) + 1) : part[i] = Stream[(at + 1) + i - 1]
    BY <2>1, <2>2, SubSeqProperties
  <2>4. (at + len) - (at + 1) + 1 = len /\ (~(at + 1 <= at + len) => len = 0)
    BY <1>8
  <2>5. \A i \in 1..len : (at + 1) + i - 1 = at + i
    BY <1>8
  <2> QED
    BY <2>3, <2>4, <2>5
<1> HIDE DEF part
<1>10. CASE seg.syn
  <2>1. ~seg.fin /\ p = <<>> /\ len = 1 /\ at = 0
    BY <1>1, <1>2, <1>4, <1>6, <1>7, <1>10
  <2>2. What(seg) = <<0>>
    <3>1. What(seg) = (<<0>> \o <<>>) \o <<>>
      BY <1>10, <2>1 DEF What, p
    <3>2. <<0>> \in Seq({0})
      OBVIOUS
    <3> QED
      BY <3>1, <3>2, ConcatEmptySeq
  <2>3. part[1] = 0
    BY <1>4, <1>9, <2>1
  <2>4. /\ <<0>> \in Seq(T) /\ Len(<<0>>) = 1 /\ <<0>>[1] = 0
    BY DEF T
  <2>5. \A i \in 1..Len(part) : part[i] = <<0>>[i]
    BY <1>9, <2>1, <2>3, <2>4
  <2>6. part = <<0>>
    BY <1>9, <2>1, <2>4, <2>5, SeqEqual
  <2> QED
    BY <2>2, <2>6, Zenon DEF part, len
<1>11. CASE ~seg.syn
  <2>1. What(seg) = p \o (IF seg.fin THEN <<-1>> ELSE <<>>)
    <3>1. What(seg) = (<<>> \o p) \o (IF seg.fin THEN <<-1>> ELSE <<>>)
      BY <1>11, Zenon DEF What, p
    <3> QED
      BY <1>1, <3>1, ConcatEmptySeq
  <2>2. \A i \in 1..Len(p) : part[i] = p[i]
    <3> TAKE i \in 1..Len(p)
    <3>1. at > 0
      BY <1>2, <1>11
    <3>2. i \in 1..len
      BY <1>1, <1>6, <1>11
    <3>3. at + i - 1 \in 1..N /\ (at + i - 1) + 1 = at + i
      BY <1>1, <1>2, <1>4, <3>1
    <3> QED
      BY <1>3, <1>5, <1>9, <3>2, <3>3
  <2>3. CASE ~seg.fin
    <3>1. What(seg) = p
      BY <1>1, <2>1, <2>3, ConcatEmptySeq
    <3>2. len = Len(p)
      BY <1>1, <1>6, <1>11, <2>3, SMTT(30)
    <3>3. part = p
      BY <1>1, <1>9, <2>2, <3>2, SeqEqual
    <3> QED
      BY <3>1, <3>3 DEF part, len
  <2>4. CASE seg.fin
    <3>1. What(seg) = p \o <<-1>>
      BY <2>1, <2>4
    <3>2. len = Len(p) + 1 /\ at + len = N + 2
      BY <1>1, <1>2, <1>4, <1>6, <1>11, <2>4
    <3>3. <<-1>> \in Seq(T) /\ Len(<<-1>>) = 1 /\ <<-1>>[1] = -1
      BY DEF T
    <3>4. /\ p \o <<-1>> \in Seq(T) /\ Len(p \o <<-1>>) = Len(p) + 1
          /\ \A i \in 1..(Len(p) + 1) :
                 (p \o <<-1>>)[i] = IF i <= Len(p) THEN p[i] ELSE <<-1>>[i - Len(p)]
      BY <1>1, <3>3, ConcatProperties
    <3>5. \A i \in 1..Len(part) : part[i] = (p \o <<-1>>)[i]
      <4> TAKE i \in 1..Len(part)
      <4>1. i \in 1..(Len(p) + 1) /\ i \in 1..len
        BY <1>9, <3>2
      <4>2. CASE i <= Len(p)
        <5>1. i \in 1..Len(p)
          BY <1>1, <4>1, <4>2
        <5> QED
          BY <2>2, <3>4, <4>1, <4>2, <5>1
      <4>3. CASE ~(i <= Len(p))
        <5>1. i = Len(p) + 1 /\ i - Len(p) = 1 /\ at + i = N + 2
          BY <1>1, <1>4, <3>2, <4>1, <4>3
        <5>2. part[i] = -1
          BY <1>4, <1>9, <4>1, <5>1
        <5>3. (p \o <<-1>>)[i] = <<-1>>[i - Len(p)]
          BY <3>4, <4>1, <4>3
        <5> QED
          BY <3>3, <5>1, <5>2, <5>3
      <4> QED
        BY <4>2, <4>3, Zenon
    <3>6. part = p \o <<-1>>
      BY <1>9, <3>2, <3>4, <3>5, SeqEqual, SMTT(30)
    <3> QED
      BY <3>1, <3>6, Zenon DEF part, len
  <2> QED
    BY <2>3, <2>4
<1> QED
  BY <1>1, <1>10, <1>11

\* The pieces on the wire stay what they are while more is sent.
LEMMA SamePieces ==
    ASSUME SenderInv, SenderInv', Waiting, receiver_ack' = receiver_ack, next_seqno <= next_seqno',
           NEW k \in 1..Len(segments_out)
    PROVE  piece(segments_out[k]) = [from |-> unwrap(segments_out[k].seqno, SenderISN, next_seqno'),
                                     what |-> What(segments_out[k])]
<1> DEFINE seg == segments_out[k]
<1>1. PICK at \in Nat :
          receiver_ack <= at /\ at <= next_seqno /\ seg.seqno = wrap(at, SenderISN)
  BY DEF Waiting
<1>2. /\ next_seqno \in Nat /\ receiver_ack \in Nat /\ next_seqno <= N + 2
      /\ next_seqno <= receiver_ack + HalfSeq
      /\ next_seqno' \in Nat /\ next_seqno' <= N + 2
      /\ next_seqno' <= receiver_ack + HalfSeq
  BY Reach, ReachNext DEF Reached
<1> HIDE DEF seg
<1>3. unwrap(seg.seqno, SenderISN, next_seqno) = at
  <2>1. next_seqno <= at + HalfSeq
    BY <1>1, <1>2, Constants
  <2> QED
    BY <1>1, <1>2, <2>1, UnwrapBehind
<1>4. unwrap(seg.seqno, SenderISN, next_seqno') = at
  <2>1. next_seqno' <= at + HalfSeq /\ at <= next_seqno'
    BY <1>1, <1>2, Constants
  <2> QED
    BY <1>1, <1>2, <2>1, UnwrapBehind
<1> QED
  BY <1>3, <1>4 DEF piece, seg_start, What, seg

\* Nothing is sent: the wire is the same.
LEMMA WireSame ==
    ASSUME SenderInv, SenderInv', Waiting, receiver_ack' = receiver_ack, next_seqno <= next_seqno',
           segments_out' = segments_out
    PROVE  Wire' = Wire /\ Waiting'
<1>1. segments_out \in Seq(Seg) /\ DOMAIN segments_out = 1..Len(segments_out)
  BY LenProperties DEF Waiting
<1>2. Wire' = [k \in DOMAIN segments_out |->
                  [from |-> unwrap(segments_out[k].seqno, SenderISN, next_seqno'),
                   what |-> What(segments_out[k])]]
  BY DEF Wire, piece, seg_start, What
<1>3. Wire = [k \in DOMAIN segments_out |-> piece(segments_out[k])]
  BY DEF Wire
<1>4. \A k \in DOMAIN segments_out :
          piece(segments_out[k]) = [from |-> unwrap(segments_out[k].seqno, SenderISN, next_seqno'),
                                    what |-> What(segments_out[k])]
  BY <1>1, SamePieces
<1>5. Wire' = Wire
  BY <1>2, <1>3, <1>4
<1>6. Waiting'
  <2>1. \A k \in 1..Len(segments_out) : \E at \in Nat :
            /\ receiver_ack <= at /\ at <= next_seqno'
            /\ segments_out[k].seqno = wrap(at, SenderISN)
    <3> TAKE k \in 1..Len(segments_out)
    <3>1. PICK at \in Nat : /\ receiver_ack <= at /\ at <= next_seqno
                            /\ segments_out[k].seqno = wrap(at, SenderISN)
      BY DEF Waiting
    <3>2. at <= next_seqno'
      BY <3>1, Reach, ReachNext DEF Reached
    <3> QED
      BY <3>1, <3>2
  <2> QED
    BY <1>1, <2>1 DEF Waiting
<1> QED
  BY <1>5, <1>6

\* A segment is sent: its piece goes to the end of the wire.
LEMMA WireGrows ==
    ASSUME SenderInv, SenderInv', Waiting, receiver_ack' = receiver_ack, next_seqno <= next_seqno',
           NEW seg \in Seg, segments_out' = Append(segments_out, seg),
           NEW at \in Nat, receiver_ack <= at, at <= next_seqno',
           seg.seqno = wrap(at, SenderISN)
    PROVE  Wire' = Append(Wire, [from |-> at, what |-> What(seg)]) /\ Waiting'
<1> DEFINE n == Len(segments_out)
           out == segments_out'
           x == [from |-> at, what |-> What(seg)]
           v == [k \in 1..(n + 1) |-> [from |-> unwrap(out[k].seqno, SenderISN, next_seqno'),
                                       what |-> What(out[k])]]
           w == [k \in 1..n |-> piece(segments_out[k])]
<1>1. segments_out \in Seq(Seg) /\ n \in Nat /\ DOMAIN segments_out = 1..n
  BY LenProperties, SMTT(30) DEF Waiting
<1>2. /\ out \in Seq(Seg) /\ Len(out) = n + 1 /\ DOMAIN out = 1..(n + 1)
      /\ out[n + 1] = seg /\ \A k \in 1..n : out[k] = segments_out[k]
  BY <1>1, AppendProperties, LenProperties, SMTT(30)
<1>3. Wire' = v
  <2>1. Wire' = [k \in DOMAIN out |-> [from |-> unwrap(out[k].seqno, SenderISN, next_seqno'),
                                       what |-> What(out[k])]]
    BY DEF Wire, piece, seg_start, What
  <2> QED
    BY <1>2, <2>1, SMTT(30)
<1>4. Wire = w
  BY <1>1 DEF Wire
<1>5. /\ next_seqno \in Nat /\ receiver_ack \in Nat
      /\ next_seqno' \in Nat /\ next_seqno' <= N + 2
      /\ next_seqno' <= receiver_ack + HalfSeq
  BY Reach, ReachNext DEF Reached
<1>6. v[n + 1] = x
  <2>1. next_seqno' <= at + HalfSeq
    BY <1>5, Constants
  <2>2. unwrap(seg.seqno, SenderISN, next_seqno') = at
    BY <1>5, <2>1, UnwrapBehind
  <2>3. n + 1 \in 1..(n + 1)
    BY <1>1, SMTT(30)
  <2> HIDE DEF out, n
  <2> QED
    BY <1>2, <2>2, <2>3
<1>7. ASSUME NEW k \in 1..n PROVE v[k] = w[k]
  <2>1. k \in 1..(n + 1)
    BY <1>1
  <2>2. v[k] = [from |-> unwrap(out[k].seqno, SenderISN, next_seqno'), what |-> What(out[k])]
    BY <2>1
  <2>3. w[k] = [from |-> unwrap(segments_out[k].seqno, SenderISN, next_seqno'),
                what |-> What(segments_out[k])]
    BY SamePieces
  <2> HIDE DEF v, w, out, n
  <2> QED
    BY <1>2, <2>2, <2>3
<1>8. v = [k \in 1..(n + 1) |-> v[k]] /\ w = [k \in 1..n |-> w[k]]
  OBVIOUS
<1>9. Waiting'
  <2>1. \A k \in 1..Len(out) : \E a \in Nat :
            receiver_ack' <= a /\ a <= next_seqno' /\ out[k].seqno = wrap(a, SenderISN)
    <3> TAKE k \in 1..Len(out)
    <3>1. CASE k \in 1..n
      <4>1. PICK a \in Nat : /\ receiver_ack <= a /\ a <= next_seqno
                             /\ segments_out[k].seqno = wrap(a, SenderISN)
        BY <3>1 DEF Waiting
      <4>2. a <= next_seqno'
        BY <1>5, <4>1
      <4>3. out[k] = segments_out[k]
        BY <1>2, <3>1
      <4> HIDE DEF out
      <4> QED
        BY <4>1, <4>2, <4>3, SMTT(30)
    <3>2. CASE k = n + 1
      <4>1. out[k] = seg
        BY <1>2, <3>2
      <4> HIDE DEF out
      <4> QED
        BY <4>1
    <3> QED
      BY <1>1, <1>2, <3>1, <3>2
  <2> QED
    BY <1>2, <2>1, SMTT(30) DEF Waiting
<1> HIDE DEF v, w, x, n
<1>10. v = Append(w, x)
  <2> DEFINE T == {v[k] : k \in 1..(n + 1)}
  <2>1. \A k \in 1..n : v[k] = w[k] /\ v[k] \in T
    BY <1>1, <1>7
  <2>2. v \in [1..(n + 1) -> T]
    BY <1>8
  <2>3. w \in [1..n -> T]
    BY <1>8, <2>1, SMTT(30)
  <2> HIDE DEF T
  <2> QED
    BY <1>1, <1>6, <2>1, <2>2, <2>3, AppendIs, SMTT(30)
<1> QED
  BY <1>3, <1>4, <1>9, <1>10 DEF x

\* Arithmetic.
LEMMA NotGreater ==
    ASSUME NEW a \in Nat, NEW b \in Nat, NEW c \in Nat, ~(a > b - c)
    PROVE  a <= b - c
OBVIOUS

\* The size of a payload keeps to a window that is not overfull, and is zero
\* only when the window is full or nothing is buffered.
LEMMA PayloadFits ==
    ASSUME SenderInv
    PROVE  /\ next_seqno - receiver_ack <= fill_window_size
                => (next_seqno + payload_size) - receiver_ack <= fill_window_size
           /\ payload_size = 0 => \/ Len(stream.buffer) = 0
                                  \/ fill_window_size <= next_seqno - receiver_ack
<1> DEFINE w == fill_window_size
           f == next_seqno - receiver_ack
           room == sub64(w, bytes_in_flight)
           b == Len(stream.buffer)
<1>1. w \in Nat /\ w < AbsMod
  BY Constants DEF SenderInv, Types, fill_window_size
<1>2. /\ Reached /\ next_seqno \in Nat /\ receiver_ack \in Nat /\ receiver_ack <= next_seqno
      /\ next_seqno <= N + 2
  BY Reach DEF Reached
<1>3. bytes_in_flight = f /\ f \in Nat
  BY <1>2, InFlight DEF bytes_in_flight, in_flight
<1>4. b \in Nat /\ MaxPayload \in Nat \ {0} /\ AbsMod \in Nat \ {0}
  BY Bounds, Constants DEF SenderInv
<1> HIDE DEF w, b
<1>5. f <= w => room = w - f
  <2> SUFFICES ASSUME f <= w PROVE room = w - f
    OBVIOUS
  <2>1. w - f \in 0..(AbsMod - 1)
    BY <1>1, <1>3, <1>4
  <2>2. (w - f) % AbsMod = w - f
    BY <1>4, <2>1, ModSmall
  <2> HIDE DEF f
  <2> QED
    BY <1>3, <2>2 DEF sub64
<1>6. room \in Nat
  <2>1. w - f \in Int
    BY <1>1, <1>3
  <2>2. (w - f) % AbsMod \in 0..(AbsMod - 1)
    BY <1>4, <2>1, DivMod, Zenon
  <2> HIDE DEF f
  <2> QED
    BY <1>3, <1>4, <2>2 DEF sub64
<1>7. payload_size = min(room, min(b, MaxPayload))
  BY DEF payload_size, buffer_size, w, b
<1> HIDE DEF room
<1>8. payload_size \in Nat /\ payload_size <= room /\ (payload_size = 0 => room = 0 \/ b = 0)
  BY <1>4, <1>6, <1>7 DEF min
<1>9. f <= w => (next_seqno + payload_size) - receiver_ack <= w
  BY <1>1, <1>2, <1>5, <1>8
<1>10. room = 0 => w <= f
  BY <1>1, <1>3, <1>5, SMTT(30)
<1> QED
  BY <1>8, <1>9, <1>10 DEF w, b

\* What one invocation of fill_window() does: it sends the next part of the
\* stream, within the window, or nothing; and it stops only when the FIN is
\* sent, the window is full or nothing can be sent.
LEMMA FillSends ==
    ASSUME SenderInv, SenderInv', fill_window
    PROVE  /\ receiver_ack' = receiver_ack /\ receiver_window_size' = receiver_window_size
           /\ stream'.written_bytes = stream.written_bytes
           /\ stream'.end_write = stream.end_write
           /\ \/ segments_out' = segments_out /\ next_seqno' = next_seqno
              \/ \E seg \in Seg :
                     /\ CarriesSource(seg, next_seqno)
                     /\ length_in_sequence_space(seg) > 0
                     /\ next_seqno' = next_seqno + length_in_sequence_space(seg)
                     /\ segments_out' = Append(segments_out, seg)
                     /\ next_seqno - receiver_ack <= fill_window_size
                          => next_seqno' - receiver_ack <= fill_window_size
                     /\ next_seqno' <= 1 + stream.written_bytes
                                         + (IF stream.end_write THEN 1 ELSE 0)
           /\ ~filling' /\ next_seqno' > 0 =>
                 \/ set_fin_flag'
                 \/ fill_window_size <= next_seqno' - receiver_ack
                 \/ stream'.buffer = <<>> /\ ~stream'.end_write
<1>1. /\ Reached /\ next_seqno \in Nat /\ receiver_ack \in Nat /\ receiver_ack <= next_seqno
      /\ next_seqno' \in Nat /\ receiver_ack' \in Nat /\ receiver_ack' <= next_seqno'
      /\ next_seqno' <= N + 2
  BY Reach, ReachNext DEF Reached
<1>2. fill_window_size \in Nat /\ fill_window_size >= 1
  BY SMTT(30) DEF SenderInv, Types, fill_window_size
<1>3. /\ stream.read_bytes \in Nat /\ stream.written_bytes \in Nat
      /\ Len(stream.buffer) \in Nat /\ stream.buffer \in Seq(Byte)
      /\ stream.written_bytes = stream.read_bytes + Len(stream.buffer)
      /\ stream.written_bytes <= N
  BY Bounds DEF SenderInv, Buffered
<1>4. ASSUME receiver_ack' = receiver_ack, ~(fill_window_size > sub64(next_seqno', receiver_ack))
      PROVE  fill_window_size <= next_seqno' - receiver_ack
  <2>1. sub64(next_seqno', receiver_ack) = next_seqno' - receiver_ack
    BY <1>1, <1>4, InFlight
  <2>2. ~(fill_window_size > next_seqno' - receiver_ack)
    BY <1>4, <2>1
  <2>3. next_seqno' \in Nat /\ receiver_ack \in Nat /\ fill_window_size \in Nat
    BY <1>1, <1>2
  <2> QED
    BY <2>2, <2>3, NotGreater, Zenon
<1>5. CASE set_fin_flag
  BY <1>5, SMTT(30) DEF fill_window
<1>6. CASE ~set_fin_flag /\ next_seqno = 0
  <2> DEFINE seg == Segment(SenderISN, TRUE, FALSE, <<>>)
  <2>1. emit(seg, add64(next_seqno, 1)) /\ stream' = stream
    BY <1>6, Zenon DEF fill_window, send_syn
  <2>2. seg \in Seg /\ CarriesSource(seg, next_seqno) /\ length_in_sequence_space(seg) = 1
    BY <1>6, SynSegment, Zenon
  <2>3. add64(next_seqno, 1) = 1
    BY <1>6, Constants, Add64Small
  <2>4. /\ next_seqno' = 1 /\ segments_out' = Append(segments_out, seg)
        /\ filling' = (fill_window_size > sub64(next_seqno', receiver_ack))
        /\ receiver_ack' = receiver_ack /\ receiver_window_size' = receiver_window_size
    BY <2>1, <2>3 DEF emit, window_not_full, in_flight
  <2> HIDE DEF seg
  <2>5. next_seqno' = next_seqno + length_in_sequence_space(seg) /\ length_in_sequence_space(seg) > 0
    BY <1>6, <2>2, <2>4
  <2>6. /\ next_seqno' - receiver_ack <= fill_window_size
        /\ next_seqno' <= 1 + stream.written_bytes + (IF stream.end_write THEN 1 ELSE 0)
    BY <1>1, <1>2, <1>3, <2>4, SMTT(30)
  <2> QED
    BY <1>4, <2>1, <2>2, <2>4, <2>5, <2>6, Zenon
<1>7. CASE ~set_fin_flag /\ next_seqno # 0
  <2> DEFINE size == payload_size
             fin == IF set_fin_flag' THEN 1 ELSE 0
  <2>1. send_payload
    BY <1>7 DEF fill_window
  <2>2. /\ size \in 0..Len(stream.buffer) /\ next_seqno = 1 + stream.read_bytes
        /\ stream' = read(stream, size)
        /\ set_fin_flag' = (eof(stream') /\ fill_window_size > sub64(next_seqno + size, receiver_ack))
    BY <1>7, <2>1, PayloadSent, SMTT(30) DEF window_not_full, in_flight
  <2>3. /\ stream'.written_bytes = stream.written_bytes
        /\ stream'.end_write = stream.end_write
        /\ size = 0 /\ Len(stream.buffer) = 0 => stream'.buffer = <<>>
    BY <1>3, <2>2, ReadKeeps, ReadNothing
  <2>4. /\ next_seqno - receiver_ack <= fill_window_size
             => (next_seqno + size) - receiver_ack <= fill_window_size
        /\ size = 0 => \/ Len(stream.buffer) = 0
                       \/ fill_window_size <= next_seqno - receiver_ack
    BY PayloadFits
  <2>5. size \in Nat /\ size <= Len(stream.buffer)
    BY <1>3, <2>2
  <2>6. sub64(next_seqno + size, receiver_ack) = (next_seqno + size) - receiver_ack
    <3> HIDE DEF size
    <3>1. next_seqno = 1 + stream.read_bytes
      BY <2>2
    <3>2. next_seqno + size \in Nat /\ receiver_ack <= next_seqno + size
      BY <1>1, <2>5
    <3>3. next_seqno + size <= N + 2
      BY <1>1, <1>3, <2>5, <3>1, Constants, SMTT(30)
    <3> QED
      BY <1>1, <3>2, <3>3, InFlight, Zenon
  <2>7. CASE \E seg \in Seg :
                 /\ length_in_sequence_space(seg) = size + fin
                 /\ length_in_sequence_space(seg) > 0
                 /\ CarriesSource(seg, next_seqno)
                 /\ emit(seg, next_seqno + length_in_sequence_space(seg))
    <3> HIDE DEF size, fin
    <3>1. PICK seg \in Seg :
                 /\ length_in_sequence_space(seg) = size + fin
                 /\ length_in_sequence_space(seg) > 0
                 /\ CarriesSource(seg, next_seqno)
                 /\ emit(seg, next_seqno + length_in_sequence_space(seg))
      BY <2>7
    <3>2. /\ next_seqno' = next_seqno + (size + fin) /\ segments_out' = Append(segments_out, seg)
          /\ filling' = (fill_window_size > sub64(next_seqno', receiver_ack))
          /\ receiver_ack' = receiver_ack /\ receiver_window_size' = receiver_window_size
      BY <3>1, SMTT(30) DEF emit, window_not_full, in_flight
    <3>3. CASE set_fin_flag'
      <4>1. /\ fin = 1 /\ stream.end_write
            /\ fill_window_size > sub64(next_seqno + size, receiver_ack)
        BY <2>2, <2>3, <3>3, Zenon DEF fin, eof
      <4>2. fill_window_size > (next_seqno + size) - receiver_ack
        BY <2>6, <4>1
      <4>3. next_seqno' - receiver_ack <= fill_window_size
        BY <1>1, <1>2, <2>5, <3>2, <4>1, <4>2, SMTT(30)
      <4>4. next_seqno' <= 1 + stream.written_bytes + (IF stream.end_write THEN 1 ELSE 0)
        <5>1. (IF stream.end_write THEN 1 ELSE 0) = 1 /\ next_seqno = 1 + stream.read_bytes
          BY <2>2, <4>1
        <5>2. next_seqno' <= 1 + stream.written_bytes + 1
          <6>1. next_seqno' = next_seqno + (size + 1)
            BY <3>2, <4>1
          <6>2. /\ stream.read_bytes \in Nat /\ stream.written_bytes \in Nat
                /\ stream.written_bytes = stream.read_bytes + Len(stream.buffer)
                /\ Len(stream.buffer) \in Nat
            BY <1>3, SMTT(30)
          <6> QED
            BY <2>5, <5>1, <6>1, <6>2, SMTT(30)
        <5> QED
          BY <5>1, <5>2
      <4> QED
        BY <2>3, <3>1, <3>2, <3>3, <4>3, <4>4, SMTT(30)
    <3>4. CASE ~set_fin_flag'
      <4>1. fin = 0
        BY <3>4 DEF fin
      <4>2. next_seqno' = next_seqno + size
        BY <1>1, <2>5, <3>2, <4>1
      <4>3. next_seqno - receiver_ack <= fill_window_size
              => next_seqno' - receiver_ack <= fill_window_size
        BY <1>1, <1>2, <2>4, <2>5, <4>2, SMTT(30)
      <4>4. next_seqno' <= 1 + stream.written_bytes + (IF stream.end_write THEN 1 ELSE 0)
        <5>1. next_seqno = 1 + stream.read_bytes
          BY <2>2
        <5>2. next_seqno' <= 1 + stream.written_bytes
          <6>1. /\ stream.read_bytes \in Nat /\ stream.written_bytes \in Nat
                /\ stream.written_bytes = stream.read_bytes + Len(stream.buffer)
                /\ Len(stream.buffer) \in Nat
            BY <1>3, SMTT(30)
          <6> QED
            BY <2>5, <4>2, <5>1, <6>1, SMTT(30)
        <5> QED
          BY <1>1, <1>3, <5>2, SMTT(30)
      <4> QED
        BY <1>4, <2>3, <3>1, <3>2, <4>3, <4>4, Zenon
    <3> QED
      BY <3>3, <3>4
  <2>8. CASE /\ ~set_fin_flag' /\ size = 0 /\ ~filling'
             /\ UNCHANGED <<next_seqno, receiver_ack, receiver_window_size, segments_out,
                            outstanding_segments, timer>>
    <3> HIDE DEF size
    <3>1. next_seqno + size = next_seqno
      BY <1>1, <2>8, SMTT(30)
    <3>2. CASE fill_window_size <= next_seqno - receiver_ack
      BY <2>3, <2>8, <3>2, SMTT(90)
    <3>3. CASE Len(stream.buffer) = 0 /\ ~(fill_window_size <= next_seqno - receiver_ack)
      <4>1. stream'.buffer = <<>>
        BY <2>3, <2>8, <3>3
      <4>2. fill_window_size > sub64(next_seqno + size, receiver_ack)
        <5>1. sub64(next_seqno + size, receiver_ack) = next_seqno - receiver_ack
          BY <2>6, <3>1, Zenon
        <5>2. fill_window_size > next_seqno - receiver_ack
          BY <1>1, <1>2, <3>3, SMTT(30)
        <5> QED
          BY <5>1, <5>2
      <4>3. ~stream'.end_write
        BY <2>2, <2>8, <4>1, <4>2, Zenon DEF eof, buffer_empty
      <4> QED
        BY <2>3, <2>8, <4>1, <4>3, SMTT(30)
    <3> QED
      BY <2>4, <2>8, <3>2, <3>3, SMTT(30)
  <2> QED
    BY <1>7, <2>1, <2>7, <2>8, PayloadSent, SMTT(90)
<1> QED
  BY <1>5, <1>6, <1>7

-----------------------------------------------------------------------------
\* The steps of the sliding window, in terms of the sender's state.

Available == 1 + stream.written_bytes + (IF stream.end_write THEN 1 ELSE 0)

\* A step that changes none of what the sliding window sees.
LEMMA WindowVars ==
    ASSUME UNCHANGED <<receiver_ack, next_seqno, receiver_window_size>>,
           Available' = Available, Wire' = Wire
    PROVE  UNCHANGED Window!windowVars
BY DEF Window!windowVars, Available, Wire, bytes_written, input_ended

\* fill_window() sends something new, or nothing.
LEMMA FillImplements ==
    ASSUME SenderInv, SenderInv', Waiting, fill_window
    PROVE  Waiting' /\ (Window!WindowNext \/ UNCHANGED Window!windowVars)
<1>1. /\ receiver_ack' = receiver_ack /\ receiver_window_size' = receiver_window_size
      /\ stream'.written_bytes = stream.written_bytes
      /\ stream'.end_write = stream.end_write
  BY FillSends
<1>2. Available' = Available
  BY <1>1 DEF Available
<1>3. /\ next_seqno \in Nat /\ receiver_ack \in Nat /\ receiver_ack <= next_seqno
      /\ next_seqno' \in Nat /\ next_seqno' <= N + 2
  BY Reach, ReachNext DEF Reached
<1>4. CASE segments_out' = segments_out /\ next_seqno' = next_seqno
  <2>1. next_seqno <= next_seqno'
    BY <1>3, <1>4
  <2>2. Wire' = Wire /\ Waiting'
    BY <1>1, <1>4, <2>1, WireSame
  <2> QED
    BY <1>1, <1>2, <1>4, <2>2, WindowVars
<1>5. CASE \E seg \in Seg :
               /\ CarriesSource(seg, next_seqno)
               /\ length_in_sequence_space(seg) > 0
               /\ next_seqno' = next_seqno + length_in_sequence_space(seg)
               /\ segments_out' = Append(segments_out, seg)
               /\ next_seqno - receiver_ack <= fill_window_size
                    => next_seqno' - receiver_ack <= fill_window_size
               /\ next_seqno' <= 1 + stream.written_bytes + (IF stream.end_write THEN 1 ELSE 0)
  <2>1. PICK seg \in Seg :
               /\ CarriesSource(seg, next_seqno)
               /\ length_in_sequence_space(seg) > 0
               /\ next_seqno' = next_seqno + length_in_sequence_space(seg)
               /\ segments_out' = Append(segments_out, seg)
               /\ next_seqno - receiver_ack <= fill_window_size
                    => next_seqno' - receiver_ack <= fill_window_size
               /\ next_seqno' <= 1 + stream.written_bytes + (IF stream.end_write THEN 1 ELSE 0)
    BY <1>5
  <2>2. PICK to \in Nat : to = next_seqno'
    BY <1>3
  <2>3. length_in_sequence_space(seg) \in Nat
    BY SegLength
  <2>4. next_seqno <= next_seqno' /\ next_seqno <= to /\ next_seqno + 1 <= to /\ to <= N + 2
    BY <1>3, <2>1, <2>2, <2>3, SMTT(30)
  <2>5. seg.seqno = wrap(next_seqno, SenderISN)
    BY <2>1 DEF CarriesSource
  <2>6. PICK at \in Nat : at = next_seqno
    BY <1>3, SMTT(30)
  <2>7. Wire' = Append(Wire, [from |-> at, what |-> What(seg)]) /\ Waiting'
    <3>1. receiver_ack <= at /\ at <= next_seqno' /\ seg.seqno = wrap(at, SenderISN)
      BY <1>3, <2>4, <2>5, <2>6
    <3> QED
      BY <1>1, <2>1, <2>4, <3>1, WireGrows
  <2>8. What(seg) = SubSeq(Stream, at + 1, to)
    BY <2>1, <2>2, <2>6, WhatIs, SMTT(30)
  <2>9. /\ Wire' = Append(Wire, [from |-> next_seqno, what |-> SubSeq(Stream, next_seqno + 1, to)])
        /\ next_seqno' = to
    BY <2>2, <2>6, <2>7, <2>8
  <2>10. to \in (next_seqno + 1)..Available
    <3>1. Available \in Int /\ to <= Available
      <4>1. stream.written_bytes \in Nat
        BY Bounds DEF SenderInv
      <4> QED
        BY <2>1, <2>2, <4>1 DEF Available
    <3> QED
      BY <1>3, <2>4, <3>1
  <2>11. next_seqno - receiver_ack <= fill_window_size => to - receiver_ack <= fill_window_size
    BY <2>1, <2>2, SMTT(30)
  <2>12. Window!SendNew(to)
    BY <1>1, <1>2, <2>9, <2>10, <2>11, Zenon
       DEF Window!SendNew, Window!Piece, Window!Room, fill_window_size, Wire, Available, Stream,
           bytes_written, input_ended
  <2>13. to \in 0..Len(<<0>> \o Source \o <<-1>>)
    <3>1. Len(Stream) = N + 2
      BY StreamIs
    <3> QED
      BY <2>4, <3>1, Constants DEF Stream
  <2> QED
    BY <2>7, <2>12, <2>13 DEF Window!WindowNext
<1> QED
  BY <1>4, <1>5, FillSends, SMTT(30)

\* tick() sends the oldest outstanding segment again, or nothing.
LEMMA TickImplements ==
    ASSUME SenderInv, SenderInv', Waiting, NEW ms \in Nat, tick(ms)
    PROVE  Waiting' /\ (Window!WindowNext \/ UNCHANGED Window!windowVars)
<1>1. UNCHANGED <<stream, next_seqno, receiver_ack, receiver_window_size>>
  BY DEF tick
<1>2. Available' = Available
  BY <1>1 DEF Available
<1>3. /\ next_seqno \in Nat /\ receiver_ack \in Nat /\ receiver_ack <= next_seqno
      /\ next_seqno <= N + 2 /\ next_seqno <= next_seqno'
  BY <1>1, Reach DEF Reached
<1>4. CASE check_timeout(timer, ms)
  <2> DEFINE q == outstanding_segments
             seg == q[1]
  <2>1. q \in Seq(Seg) /\ q # <<>> /\ Len(q) \in Nat
    <3>1. timer.is_running
      BY <1>4 DEF check_timeout
    <3> QED
      BY <3>1, LenProperties DEF SenderInv, Types, Timed
  <2>2. Len(q) >= 1 /\ 1 \in 1..Len(q) /\ seg \in Seg /\ Head(q) = seg
    BY <2>1, ElementOfSeq
  <2>3. segments_out' = Append(segments_out, seg)
    BY <1>4, <2>2 DEF tick
  <2>4. PICK start : Tiled(start)
    BY DEF SenderInv
  <2>5. /\ start \in [1..(Len(q) + 1) -> Nat]
        /\ start[1] = receiver_ack /\ start[Len(q) + 1] = next_seqno
        /\ \A j, k \in 1..(Len(q) + 1) : j <= k => start[j] <= start[k]
        /\ \A k \in 1..Len(q) : /\ start[k + 1] = start[k] + length_in_sequence_space(q[k])
                                /\ length_in_sequence_space(q[k]) > 0
                                /\ CarriesSource(q[k], start[k])
    BY <2>4 DEF Tiled
  <2> DEFINE to == start[1 + 1]
  <2>6. /\ to = receiver_ack + length_in_sequence_space(seg)
        /\ length_in_sequence_space(seg) > 0 /\ CarriesSource(seg, receiver_ack)
    BY <2>2, <2>5
  <2>7. to \in Nat /\ to <= next_seqno
    <3>1. 1 + 1 \in 1..(Len(q) + 1) /\ Len(q) + 1 \in 1..(Len(q) + 1) /\ 1 + 1 <= Len(q) + 1
      BY <2>1, <2>2
    <3> QED
      BY <2>5, <3>1
  <2>8. length_in_sequence_space(seg) \in Nat
    BY <2>2, SegLength
  <2> HIDE DEF q, seg, to
  <2>9. PICK at \in Nat : at = receiver_ack
    BY <1>3
  <2>10. Wire' = Append(Wire, [from |-> at, what |-> What(seg)]) /\ Waiting'
    <3>1. receiver_ack <= at /\ at <= next_seqno' /\ seg.seqno = wrap(at, SenderISN)
      BY <1>1, <1>3, <2>6, <2>9, SMTT(30) DEF CarriesSource
    <3> QED
      BY <1>1, <1>3, <2>2, <2>3, <3>1, WireGrows, SMTT(30)
  <2>11. What(seg) = SubSeq(Stream, at + 1, to)
    BY <2>2, <2>6, <2>9, WhatIs
  <2>12. to \in (receiver_ack + 1)..next_seqno
    BY <1>3, <2>6, <2>7, <2>8, SMTT(30)
  <2>13. Window!SendAgain(to)
    <3>1. Wire' = Append(Wire, [from |-> receiver_ack, what |-> SubSeq(Stream, receiver_ack + 1, to)])
      BY <2>9, <2>10, <2>11
    <3> QED
      BY <1>1, <1>2, <2>12, <3>1, Zenon
         DEF Window!SendAgain, Window!Piece, Wire, Available, Stream, bytes_written, input_ended
  <2>14. to \in 0..Len(<<0>> \o Source \o <<-1>>)
    <3>1. Len(Stream) = N + 2
      BY StreamIs
    <3> QED
      BY <1>3, <2>7, <3>1, Constants DEF Stream
  <2> QED
    BY <2>10, <2>13, <2>14, SMTT(30) DEF Window!WindowNext
<1>5. CASE ~check_timeout(timer, ms)
  <2>1. segments_out' = segments_out
    BY <1>5 DEF tick
  <2>2. Wire' = Wire /\ Waiting'
    BY <1>1, <1>3, <2>1, WireSame
  <2> QED
    BY <1>1, <1>2, <2>2, WindowVars
<1> QED
  BY <1>4, <1>5

\* An empty segment carries nothing.
LEMMA EmptyImplements ==
    ASSUME SenderInv, SenderInv', Waiting, send_empty_segment
    PROVE  Waiting' /\ Window!WindowNext
<1> DEFINE seg == Segment(wrap(next_seqno, SenderISN), FALSE, FALSE, <<>>)
<1>1. /\ UNCHANGED <<stream, next_seqno, receiver_ack, receiver_window_size>>
      /\ segments_out' = Append(segments_out, seg)
  BY DEF send_empty_segment
<1>2. Available' = Available
  BY <1>1 DEF Available
<1>3. /\ next_seqno \in Nat /\ receiver_ack \in Nat /\ receiver_ack <= next_seqno
      /\ next_seqno <= next_seqno'
  BY <1>1, Reach DEF Reached
<1>4. seg \in Seg /\ What(seg) = <<>> /\ seg.seqno = wrap(next_seqno, SenderISN)
  <2>1. <<>> \in Seq(Byte)
    BY EmptySeq
  <2>2. wrap(next_seqno, SenderISN) \in WrappingInt32
    BY <1>3, Constants, WrapIsMod, SMTT(30)
  <2>3. seg \in Seg /\ seg.seqno = wrap(next_seqno, SenderISN)
    BY <2>1, <2>2 DEF Segment, Seg, SegmentType
  <2>4. What(seg) = (<<>> \o <<>>) \o <<>>
    BY DEF What, Segment
  <2> QED
    BY <2>1, <2>3, <2>4, ConcatEmptySeq, Zenon
<1> HIDE DEF seg
<1>5. PICK at \in Nat : at = next_seqno
  BY <1>3
<1>6. Wire' = Append(Wire, [from |-> at, what |-> What(seg)]) /\ Waiting'
  <2>1. receiver_ack <= at /\ at <= next_seqno' /\ seg.seqno = wrap(at, SenderISN)
    BY <1>3, <1>4, <1>5
  <2> QED
    BY <1>1, <1>3, <1>4, <2>1, WireGrows, SMTT(30)
<1>7. SubSeq(Stream, at + 1, at) = <<>>
  BY SubSeqEmpty
<1>8. Wire' = Append(Wire, [from |-> next_seqno, what |-> SubSeq(Stream, next_seqno + 1, next_seqno)])
  BY <1>4, <1>5, <1>6, <1>7, SMTT(30)
<1>9. Window!SendEmpty
  BY <1>1, <1>2, <1>8, Zenon
     DEF Window!SendEmpty, Window!Piece, Wire, Available, Stream, bytes_written, input_ended
<1> QED
  BY <1>6, <1>9 DEF Window!WindowNext

\* The owner takes the first piece off the wire.
LEMMA PopImplements ==
    ASSUME SenderInv, SenderInv', Waiting, sender_pop_segment
    PROVE  Waiting' /\ Window!WindowNext
<1> DEFINE n == Len(segments_out)
           out == segments_out'
           T == {piece(segments_out[k]) : k \in 1..n}
<1>1. /\ segments_out # <<>> /\ out = Tail(segments_out)
      /\ UNCHANGED <<stream, next_seqno, receiver_ack, receiver_window_size>>
  BY DEF sender_pop_segment
<1>2. segments_out \in Seq(Seg) /\ n \in Nat /\ DOMAIN segments_out = 1..n
  BY LenProperties DEF Waiting
<1>3. /\ out \in Seq(Seg) /\ Len(out) = n - 1 /\ DOMAIN out = 1..(n - 1)
      /\ \A k \in 1..(n - 1) : out[k] = segments_out[k + 1]
  BY <1>1, <1>2, HeadTailProperties, LenProperties
<1>4. n > 0
  BY <1>1, <1>2
<1>5. Wire = [k \in 1..n |-> piece(segments_out[k])]
  BY <1>2 DEF Wire
<1>6. Wire' = [k \in 1..(n - 1) |-> piece(segments_out[k + 1])]
  <2>1. Wire' = [k \in DOMAIN out |-> piece(out[k])]
    BY <1>1 DEF Wire, piece, seg_start
  <2> HIDE DEF out
  <2> QED
    BY <1>3, <2>1, SMTT(30)
<1> HIDE DEF out
<1>7. Wire # <<>> /\ Wire' = Tail(Wire)
  <2> DEFINE v == Wire'
             w == Wire
  <2>1. w \in [1..n -> T]
    BY <1>5
  <2>2. \A k \in 1..(n - 1) : k + 1 \in 1..n /\ k \in 1..n
    BY <1>2
  <2>3. v \in [1..(n - 1) -> T]
    BY <1>6, <2>2
  <2>4. \A k \in 1..(n - 1) : v[k] = w[k + 1]
    BY <1>5, <1>6, <2>2
  <2> HIDE DEF v, w, T, n
  <2>5. w # <<>> /\ v = Tail(w)
    BY <1>2, <1>4, <2>1, <2>3, <2>4, TailIs, SMTT(30)
  <2> QED
    BY <2>5 DEF v, w
<1>8. Available' = Available
  BY <1>1 DEF Available
<1>9. Window!Take
  BY <1>1, <1>7, <1>8, Zenon DEF Window!Take, Wire, Available, bytes_written, input_ended
<1>10. Waiting'
  <2>1. \A k \in 1..Len(out) : \E at \in Nat :
            receiver_ack' <= at /\ at <= next_seqno' /\ out[k].seqno = wrap(at, SenderISN)
    <3> TAKE k \in 1..Len(out)
    <3>1. k \in 1..(n - 1) /\ k + 1 \in 1..n
      BY <1>2, <1>3
    <3>2. out[k] = segments_out[k + 1]
      BY <1>3, <3>1
    <3> QED
      BY <1>1, <3>1, <3>2 DEF Waiting
  <2> QED
    BY <1>3, <2>1, Zenon DEF Waiting, out
<1> QED
  BY <1>9, <1>10 DEF Window!WindowNext

\* An acknowledgment moves what is acknowledged forward, when nothing waits.
LEMMA AckImplements ==
    ASSUME SenderInv, SenderInv', Waiting, segments_out = <<>>, NEW a \in Int,
           NEW window_size \in Nat, take_ack(a, window_size)
    PROVE  Waiting' /\ Window!WindowNext
<1>1. /\ UNCHANGED <<stream, next_seqno, segments_out>> /\ receiver_window_size' = window_size
  BY DEF take_ack
<1>2. Available' = Available /\ DOMAIN segments_out = {}
  BY <1>1 DEF Available
<1>3. Wire' = Wire
  BY <1>1, <1>2 DEF Wire
<1>4. receiver_ack <= receiver_ack'
  BY TakeAckAdvances
<1>5. /\ next_seqno \in Nat /\ receiver_ack \in Nat /\ receiver_ack' \in Nat
      /\ receiver_ack' <= next_seqno /\ next_seqno <= N + 2
  BY <1>1, Reach, ReachNext DEF Reached
<1>6. PICK upto \in Nat : upto = receiver_ack'
  BY <1>5
<1>7. upto \in receiver_ack..next_seqno
  BY <1>4, <1>5, <1>6
<1>8. Window!Acknowledge(upto)
  BY <1>1, <1>2, <1>3, <1>6, <1>7
     DEF Window!Acknowledge, Wire, Available, bytes_written, input_ended
<1>9. upto \in 0..Len(<<0>> \o Source \o <<-1>>)
  <2>1. Len(Stream) = N + 2
    BY StreamIs
  <2> QED
    BY <1>5, <1>6, <2>1, Constants DEF Stream
<1>10. Waiting'
  <2>1. Len(segments_out') = 0 /\ segments_out' \in Seq(Seg)
    BY <1>1, EmptySeq
  <2> QED
    BY <2>1 DEF Waiting
<1> QED
  BY <1>8, <1>9, <1>10 DEF Window!WindowNext

\* The application provides more of the stream.
LEMMA ProvideImplements ==
    ASSUME SenderInv, SenderInv', Waiting,
           UNCHANGED <<next_seqno, receiver_ack, receiver_window_size, segments_out>>,
           Available' \in Available..(N + 2)
    PROVE  Waiting' /\ Window!WindowNext
<1>1. next_seqno \in Nat /\ next_seqno <= next_seqno'
  BY Reach DEF Reached
<1>2. Wire' = Wire /\ Waiting'
  BY <1>1, WireSame
<1>3. Available \in Nat
  <2>1. stream.written_bytes \in Nat
    BY Bounds DEF SenderInv
  <2> QED
    BY <2>1 DEF Available
<1>4. PICK n \in Int : n = Available'
  OBVIOUS
<1>5. Len(Stream) = N + 2 /\ N \in Nat
  BY StreamIs, Constants
<1>6. n \in Available..Len(Stream) /\ n \in 0..Len(Stream)
  BY <1>3, <1>4, <1>5, SMTT(30)
<1>7. Window!Provide(n)
  BY <1>2, <1>4, <1>6, SMTT(30)
     DEF Window!Provide, Wire, Available, Stream, bytes_written, input_ended
<1> QED
  BY <1>2, <1>6, <1>7 DEF Window!WindowNext, Stream

\* A write provides what it puts into the stream.
LEMMA WriteProvides ==
    ASSUME SenderInv, SenderInv', NEW len \in 1..N, Write(len)
    PROVE  Available' \in Available..(N + 2)
<1> DEFINE w == stream.written_bytes
           data == SubSeq(Source, w + 1, w + len)
           room == realWrite(stream, data)
<1>1. /\ stream \in ByteStreamType(Byte) /\ w \in Nat
      /\ stream.capacity \in Nat /\ Len(stream.buffer) \in Nat
      /\ Len(stream.buffer) <= stream.capacity
  BY Bounds, Zenon DEF SenderInv, Types, Buffered
<1>2. ~stream.end_write /\ stream' = write(stream, data)
  BY DEF Write, input_ended, bytes_written, sender_write
<1>3. stream'.end_write = stream.end_write /\ stream'.written_bytes = w + room
  BY <1>1, <1>2 DEF write, ByteStreamType
<1>4. w + len <= N /\ w + 1 \in 1..N /\ w + len \in 1..N
  BY <1>1, Constants DEF Write, bytes_written
<1>5. Len(data) \in Nat
  <2>1. Source \in Seq(Byte) /\ Len(Source) = N
    BY SenderSpecAssumption DEF N
  <2>2. \A i \in (w + 1)..(w + len) : Source[i] \in Byte
    <3> TAKE i \in (w + 1)..(w + len)
    <3>1. i \in 1..N
      BY <1>1, <1>4, Constants
    <3> QED
      BY <2>1, <3>1, ElementOfSeq, SMTT(30)
  <2>3. w + 1 \in Int /\ w + len \in Int
    BY <1>1
  <2> HIDE DEF w
  <2>4. data \in Seq(Byte)
    BY <2>2, <2>3, SubSeqProperties
  <2> QED
    BY <2>4, LenProperties
<1> HIDE DEF data
<1>6. room \in Nat
  BY <1>1, <1>5 DEF realWrite, min
<1> HIDE DEF room
<1>7. stream'.written_bytes <= N
  BY DEF SenderInv, Buffered
<1>8. Available = 1 + w + 0 /\ Available' = 1 + (w + room) + 0 /\ w + room <= N
  BY <1>2, <1>3, <1>7, SMTT(30) DEF Available
<1> HIDE DEF w
<1> QED
  BY <1>1, <1>6, <1>8, Constants, SMTT(30)

\* Every call is a step of the sliding window, or changes nothing it speaks of.
LEMMA StepImplements ==
    ASSUME SenderInv, SenderInv', Waiting, [SenderNext]_senderVars
    PROVE  Waiting' /\ (Window!WindowNext \/ UNCHANGED Window!windowVars)
<1>1. ASSUME UNCHANGED <<next_seqno, receiver_ack, receiver_window_size, segments_out>>,
             Available' = Available
      PROVE  Waiting' /\ UNCHANGED Window!windowVars
  <2>1. next_seqno \in Nat /\ next_seqno <= next_seqno'
    BY <1>1, Reach DEF Reached
  <2>2. Wire' = Wire /\ Waiting'
    BY <1>1, <2>1, WireSame
  <2> QED
    BY <1>1, <2>2, WindowVars
<1>2. ASSUME NEW len \in 1..N, Write(len)
      PROVE  Waiting' /\ Window!WindowNext
  <2>1. UNCHANGED <<next_seqno, receiver_ack, receiver_window_size, segments_out>>
    BY <1>2 DEF Write, sender_write
  <2>2. Available' \in Available..(N + 2)
    BY <1>2, WriteProvides
  <2> QED
    BY <2>1, <2>2, ProvideImplements
<1>3. CASE EndInput
  <2>1. /\ UNCHANGED <<next_seqno, receiver_ack, receiver_window_size, segments_out>>
        /\ stream.written_bytes = N /\ stream' = [stream EXCEPT !.end_write = TRUE]
    BY <1>3 DEF EndInput, bytes_written, sender_end_input, end_input
  <2>2. stream'.written_bytes = N /\ stream'.end_write
    BY <2>1 DEF SenderInv, Types, ByteStreamType
  <2>3. Available' = N + 2 /\ Available \in Nat /\ Available <= N + 2
    BY <2>1, <2>2, Constants DEF Available
  <2>4. Available' \in Available..(N + 2)
    BY <2>3, Constants
  <2> QED
    BY <2>1, <2>4, ProvideImplements
<1>4. CASE SetError
  <2>1. /\ UNCHANGED <<next_seqno, receiver_ack, receiver_window_size, segments_out>>
        /\ stream' = [stream EXCEPT !.error = TRUE]
    BY <1>4 DEF SetError, sender_set_error, set_error
  <2>2. Available' = Available
    BY <2>1 DEF SenderInv, Types, ByteStreamType, Available
  <2> QED
    BY <1>1, <2>1, <2>2
<1>5. CASE FillWindow \/ FillWindowAgain
  BY <1>5, FillImplements DEF FillWindow, FillWindowAgain
<1>6. ASSUME NEW ackno \in WrappingInt32, NEW window_size \in 0..MaxWindow,
             AckReceived(ackno, window_size)
      PROVE  Waiting' /\ (Window!WindowNext \/ UNCHANGED Window!windowVars)
  <2> DEFINE a == unwrap(ackno, SenderISN, next_seqno)
  <2>1. a \in Int /\ window_size \in Nat
    BY UnwrapInt, SenderSpecAssumption, Constants DEF SenderInv, Types
  <2>2. segments_out = <<>> /\ (take_ack(a, window_size) \/ UNCHANGED senderVars)
    BY <1>6 DEF AckReceived, Idle, ack_received
  <2> HIDE DEF a
  <2>3. CASE take_ack(a, window_size)
    BY <2>1, <2>2, <2>3, AckImplements, SMTT(30)
  <2>4. CASE UNCHANGED senderVars
    BY <1>1, <2>4 DEF senderVars, Available
  <2> QED
    BY <2>2, <2>3, <2>4, SMTT(30)
<1>7. ASSUME NEW ms \in 1..MaxTick, Tick(ms)
      PROVE  Waiting' /\ (Window!WindowNext \/ UNCHANGED Window!windowVars)
  BY <1>7, TickImplements, SenderSpecAssumption DEF Tick
<1>8. CASE SendEmptySegment
  BY <1>8, EmptyImplements DEF SendEmptySegment
<1>9. CASE PopSegment
  BY <1>9, PopImplements DEF PopSegment
<1>10. CASE UNCHANGED senderVars
  BY <1>1, <1>10 DEF senderVars, Available
<1> QED
  BY <1>2, <1>3, <1>4, <1>5, <1>6, <1>7, <1>8, <1>9, <1>10, SMTT(30) DEF SenderNext

\* The sender implements the sliding window, whatever it has to send, however
\* it is cut into segments, and whatever acknowledgments and windows arrive:
\* all that fill_window(), tick() and send_empty_segment() ever emit is the
\* next part of the stream, within the window, or the oldest unacknowledged
\* part again, or nothing.
THEOREM SenderImplements == SenderSpec => ImplementsWindow
<1>1. SenderSpec => []SenderInv
  BY InitInv, NextInv, PTL DEF SenderSpec
<1>2. SenderInit => Waiting
  <2> SUFFICES ASSUME SenderInit PROVE Waiting
    OBVIOUS
  <2>1. segments_out = <<>> /\ <<>> \in Seq(Seg) /\ Len(<<>>) = 0
    BY EmptySeq, SMTT(30) DEF SenderInit
  <2> QED
    BY <2>1 DEF Waiting
<1>3. SenderInit => Window!WindowInit
  <2> SUFFICES ASSUME SenderInit PROVE Window!WindowInit
    OBVIOUS
  <2>1. DOMAIN segments_out = {}
    BY DEF SenderInit
  <2>2. [k \in DOMAIN segments_out |-> piece(segments_out[k])] = <<>>
    BY <2>1
  <2> QED
    BY <2>2 DEF SenderInit, NewByteStream, Window!WindowInit, bytes_written, input_ended
<1>4. SenderInv /\ SenderInv' /\ Waiting /\ [SenderNext]_senderVars =>
          Waiting' /\ [Window!WindowNext]_(Window!windowVars)
  BY StepImplements
<1> QED
  BY <1>1, <1>2, <1>3, <1>4, PTL DEF SenderSpec, ImplementsWindow, Window!WindowSpec

\* fill_window() always fills as much of the window as possible: it stops only
\* when the FIN is sent, the window is full, or nothing is left to send.
THEOREM FillAlwaysMaximal == SenderSpec => FillIsMaximal
<1>1. SenderSpec => []SenderInv
  BY InitInv, NextInv, PTL DEF SenderSpec
<1>2. SenderInv /\ [SenderNext]_senderVars =>
          [fill_window /\ ~filling' /\ next_seqno' > 0 =>
              \/ set_fin_flag'
              \/ fill_window_size <= next_seqno' - receiver_ack
              \/ buffer_empty(stream') /\ ~input_ended(stream')]_senderVars
  <2> SUFFICES ASSUME SenderInv, fill_window, ~filling', next_seqno' > 0
               PROVE  \/ set_fin_flag'
                      \/ fill_window_size <= next_seqno' - receiver_ack
                      \/ buffer_empty(stream') /\ ~input_ended(stream')
    OBVIOUS
  <2>1. SenderInv'
    BY FillKeeps
  <2> QED
    BY <2>1, FillSends DEF buffer_empty, input_ended
<1> QED
  BY <1>1, <1>2, PTL DEF SenderSpec, FillIsMaximal

-----------------------------------------------------------------------------
\* The summary never goes back.

\* What the summary says, after a step.
LEMMA SummaryNext == SenderInv' => Summary'
BY SummaryIs, PTL

\* Nothing the summary depends on is ever taken back.
Forward ==
    /\ stream.error => stream'.error
    /\ next_seqno <= next_seqno' /\ receiver_ack <= receiver_ack'
    /\ Sent => Sent' /\ next_seqno' = next_seqno

\* Every call goes forward.
LEMMA StepForward ==
    ASSUME SenderInv, SenderInv', [SenderNext]_senderVars
    PROVE  Forward
<1>1. next_seqno \in Nat /\ receiver_ack \in Nat /\ stream \in ByteStreamType(Byte)
  BY DEF SenderInv, Types
<1>2. ASSUME UNCHANGED <<stream, next_seqno>>, receiver_ack <= receiver_ack'
      PROVE  Forward
  BY <1>1, <1>2 DEF Forward, Sent
<1>3. ASSUME UNCHANGED <<stream, next_seqno, receiver_ack>> PROVE Forward
  BY <1>1, <1>2, <1>3
<1>4. ASSUME NEW len \in 1..N, Write(len) PROVE Forward
  <2>1. /\ UNCHANGED <<next_seqno, receiver_ack>> /\ ~stream.end_write
        /\ stream'.error = stream.error
    BY <1>1, <1>4 DEF Write, sender_write, input_ended, write, ByteStreamType
  <2> QED
    BY <1>1, <2>1 DEF Forward, Sent
<1>5. CASE EndInput
  <2>1. /\ UNCHANGED <<next_seqno, receiver_ack>>
        /\ stream' = [stream EXCEPT !.end_write = TRUE]
    BY <1>5 DEF EndInput, sender_end_input, end_input
  <2>2. /\ stream'.error = stream.error /\ stream'.buffer = stream.buffer
        /\ stream'.end_write = TRUE /\ stream'.written_bytes = stream.written_bytes
    BY <1>1, <2>1 DEF ByteStreamType
  <2> QED
    BY <1>1, <2>1, <2>2 DEF Forward, Sent
<1>6. CASE SetError
  <2>1. /\ UNCHANGED <<next_seqno, receiver_ack>>
        /\ stream' = [stream EXCEPT !.error = TRUE]
    BY <1>6 DEF SetError, sender_set_error, set_error
  <2>2. /\ stream'.error = TRUE /\ stream'.buffer = stream.buffer
        /\ stream'.end_write = stream.end_write /\ stream'.written_bytes = stream.written_bytes
    BY <1>1, <2>1 DEF ByteStreamType
  <2> QED
    BY <1>1, <2>1, <2>2 DEF Forward, Sent
<1>7. ASSUME fill_window PROVE Forward
  <2>1. CASE set_fin_flag
    BY <1>3, <1>7, <2>1 DEF fill_window
  <2>2. CASE ~set_fin_flag
    <3>1. ~Sent
      BY <2>2, SentFin, SMTT(30)
    <3>2. receiver_ack' = receiver_ack /\ next_seqno <= next_seqno'
      <4>1. \A seg \in Seg : length_in_sequence_space(seg) \in Nat
        BY SegLength, SMTT(30)
      <4> QED
        BY <1>1, <1>7, <4>1, FillSends
    <3>3. stream' = stream \/ stream' = read(stream, payload_size)
      BY <1>7, <2>2, Zenon DEF fill_window, send_syn, send_payload
    <3>4. stream.error => stream'.error
      BY <1>1, <3>3, Zenon DEF read, pop_output, set_error, ByteStreamType
    <3> QED
      BY <1>1, <3>1, <3>2, <3>4 DEF Forward
  <2> QED
    BY <2>1, <2>2
<1>8. ASSUME NEW ackno \in WrappingInt32, NEW window_size \in 0..MaxWindow,
             AckReceived(ackno, window_size)
      PROVE  Forward
  <2> DEFINE a == unwrap(ackno, SenderISN, next_seqno)
  <2>1. a \in Int /\ window_size \in Nat
    BY UnwrapInt, SenderSpecAssumption, Constants, SMTT(30) DEF SenderInv, Types
  <2>2. take_ack(a, window_size) \/ UNCHANGED senderVars
    BY <1>8 DEF AckReceived, ack_received
  <2> HIDE DEF a
  <2>3. CASE take_ack(a, window_size)
    <3>1. UNCHANGED <<stream, next_seqno>>
      BY <2>3 DEF take_ack
    <3> QED
      BY <1>2, <2>1, <2>3, <3>1, TakeAckAdvances, SMTT(30)
  <2>4. CASE UNCHANGED senderVars
    BY <1>3, <2>4, SMTT(30) DEF senderVars
  <2> QED
    BY <2>2, <2>3, <2>4, SMTT(30)
<1>9. ASSUME NEW ms \in 1..MaxTick, Tick(ms) PROVE Forward
  BY <1>3, <1>9 DEF Tick, tick
<1>10. CASE SendEmptySegment \/ PopSegment
  BY <1>3, <1>10, Zenon DEF SendEmptySegment, send_empty_segment, PopSegment, sender_pop_segment
<1>11. CASE UNCHANGED senderVars
  BY <1>3, <1>11 DEF senderVars
<1> QED
  BY <1>4, <1>5, <1>6, <1>7, <1>8, <1>9, <1>10, <1>11, SMTT(30) DEF SenderNext, FillWindow, FillWindowAgain

\* The summary of the sender never goes back, however acknowledgments, writes
\* and retransmissions interleave, and says that the FIN has been sent or
\* acknowledged only when that is so.
THEOREM SummaryAlwaysAdvances == SenderSpec => SummaryAdvances
<1>1. SenderSpec => []SenderInv
  BY InitInv, NextInv, PTL DEF SenderSpec
<1>2. SenderInv /\ SenderInv' /\ [SenderNext]_senderVars =>
        [/\ SummaryRank(sender_state_summary') >= SummaryRank(sender_state_summary)
         /\ sender_state_summary \in {"FIN_SENT", "FIN_ACKED"} => set_fin_flag
         /\ sender_state_summary = "FIN_ACKED" => receiver_ack = N + 2]_senderVars
  <2> SUFFICES ASSUME SenderInv, SenderInv', [SenderNext]_senderVars
               PROVE  /\ SummaryRank(sender_state_summary') >= SummaryRank(sender_state_summary)
                      /\ sender_state_summary \in {"FIN_SENT", "FIN_ACKED"} => set_fin_flag
                      /\ sender_state_summary = "FIN_ACKED" => receiver_ack = N + 2
    OBVIOUS
  <2>1. Summary /\ Summary' /\ Forward
    BY SummaryIs, SummaryNext, StepForward, SMTT(30)
  <2>2. sender_state_summary \in {"FIN_SENT", "FIN_ACKED"} => set_fin_flag
    BY <2>1, SentFin, SMTT(30) DEF Summary
  <2>3. sender_state_summary = "FIN_ACKED" => receiver_ack = N + 2
    BY <2>1, SentFin DEF Summary
  <2>4. SummaryRank(sender_state_summary') >= SummaryRank(sender_state_summary)
    <3> DEFINE r == SummaryRank(sender_state_summary)
               s == SummaryRank(sender_state_summary')
    <3>1. /\ next_seqno \in Nat /\ receiver_ack \in Nat /\ receiver_ack <= next_seqno
          /\ next_seqno' \in Nat /\ receiver_ack' \in Nat /\ receiver_ack' <= next_seqno'
      BY Reach, ReachNext, SMTT(30) DEF Reached
    <3>2. /\ stream.error => r = 5
          /\ ~stream.error /\ next_seqno = 0 => r = 0
          /\ ~stream.error /\ next_seqno # 0 /\ receiver_ack = 0 => r = 1
          /\ ~stream.error /\ next_seqno # 0 /\ receiver_ack # 0 =>
                /\ ~Sent => r = 2
                /\ Sent /\ receiver_ack < next_seqno => r = 3
                /\ Sent /\ receiver_ack = next_seqno => r = 4
      BY <2>1, SMTT(30) DEF Summary
    <3>3. /\ stream'.error => s = 5
          /\ ~stream'.error /\ next_seqno' = 0 => s = 0
          /\ ~stream'.error /\ next_seqno' # 0 /\ receiver_ack' = 0 => s = 1
          /\ ~stream'.error /\ next_seqno' # 0 /\ receiver_ack' # 0 =>
                /\ ~Sent' => s = 2
                /\ Sent' /\ receiver_ack' < next_seqno' => s = 3
                /\ Sent' /\ receiver_ack' = next_seqno' => s = 4
      BY <2>1, SMTT(30) DEF Summary
    <3> HIDE DEF r, s
    <3>4. s >= r
      BY <2>1, <3>1, <3>2, <3>3 DEF Forward
    <3> QED
      BY <3>4 DEF r, s
  <2> QED
    BY <2>2, <2>3, <2>4
<1> QED
  BY <1>1, <1>2, PTL DEF SenderSpec, SummaryAdvances

=============================================================================
