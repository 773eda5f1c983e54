-------------------------- MODULE ByteStreamProofs --------------------------
(***************************************************************************)
(* For every set of bytes, every capacity and any sequence of calls: a     *)
(* ByteStream is a FIFO, keeps its counters right and stays within its     *)
(* capacity.                                                               *)
(***************************************************************************)
EXTENDS ByteStreamSpec, SequenceTheorems, TLAPS

\* The invariants together are inductive.
Inv == TypeOK /\ Fifo /\ Accounting

-----------------------------------------------------------------------------
\* A prefix of a sequence, and the rest after it, are sequences that make up
\* the whole.
LEMMA SplitSeq ==
    ASSUME NEW S, NEW s \in Seq(S), NEW n \in 0..Len(s)
    PROVE  /\ SubSeq(s, 1, n) \in Seq(S) /\ Len(SubSeq(s, 1, n)) = n
           /\ SubSeq(s, n + 1, Len(s)) \in Seq(S)
           /\ Len(SubSeq(s, n + 1, Len(s))) = Len(s) - n
           /\ SubSeq(s, 1, n) \o SubSeq(s, n + 1, Len(s)) = s
<1>1. Len(s) \in Nat /\ n \in Nat /\ n <= Len(s)
  BY LenProperties
<1>2. \A i \in 1..Len(s) : s[i] \in S
  BY ElementOfSeq
<1>3. SubSeq(s, 1, n) \in Seq(S) /\ Len(SubSeq(s, 1, n)) = n
  BY <1>1, <1>2, SubSeqProperties
<1>4. SubSeq(s, n + 1, Len(s)) \in Seq(S) /\ Len(SubSeq(s, n + 1, Len(s))) = Len(s) - n
  BY <1>1, <1>2, SubSeqProperties
<1>5. SubSeq(s, 1, n) \o SubSeq(s, n + 1, Len(s)) = SubSeq(s, 1, Len(s))
  <2>1. 1 \in 1..(Len(s) + 1) /\ n \in (1 - 1)..Len(s) /\ Len(s) \in n..Len(s)
    BY <1>1
  <2> QED
    BY <2>1, ConcatAdjacentSubSeq, Zenon
<1> QED
  BY <1>3, <1>4, <1>5, SubSeqFull

\* What write() accepts is a prefix of data that fits.
LEMMA RealWriteRange ==
    ASSUME NEW s \in ByteStreamType(Byte), NEW data \in Seq(Byte),
           Len(s.buffer) <= s.capacity
    PROVE  /\ realWrite(s, data) \in 0..Len(data)
           /\ realWrite(s, data) + Len(s.buffer) <= s.capacity
  BY DEF realWrite, min, ByteStreamType

-----------------------------------------------------------------------------
\* write() keeps the invariant.
LEMMA WriteStep ==
    ASSUME Inv, NEW data \in Seq(Byte), Write(data)
    PROVE  Inv'
<1> DEFINE k == realWrite(stream, data)
           d == SubSeq(data, 1, k)
<1>1. /\ stream \in ByteStreamType(Byte) /\ stream.capacity = Capacity
      /\ stream.buffer \in Seq(Byte) /\ Len(stream.buffer) \in Nat
      /\ stream.written_bytes \in Nat /\ stream.read_bytes \in Nat
      /\ accepted \in Seq(Byte) /\ consumed \in Seq(Byte)
  BY DEF Inv, TypeOK, ByteStreamType
<1>2. /\ Len(stream.buffer) <= Capacity
      /\ stream.written_bytes = Len(accepted) /\ stream.read_bytes = Len(consumed)
      /\ Len(stream.buffer) = stream.written_bytes - stream.read_bytes
  BY <1>1, ByteStreamAssumption
     DEF Inv, Accounting, remaining_capacity, bytes_written, bytes_read, buffer_size
<1>3. k \in 0..Len(data) /\ k + Len(stream.buffer) <= Capacity
  BY <1>1, <1>2, RealWriteRange
<1>4. d \in Seq(Byte) /\ Len(d) = k
  BY <1>3, SplitSeq
<1>5. stream' = [stream EXCEPT !.buffer = stream.buffer \o d,
                               !.written_bytes = stream.written_bytes + k]
  BY DEF Write, write
<1>6. accepted' = accepted \o d /\ consumed' = consumed
  BY DEF Write
<1> HIDE DEF k, d
<1>7. stream.buffer \o d \in Seq(Byte) /\ Len(stream.buffer \o d) = Len(stream.buffer) + k
  BY <1>1, <1>4, ConcatProperties
<1>8. accepted \o d \in Seq(Byte) /\ Len(accepted \o d) = Len(accepted) + k
  BY <1>1, <1>4, ConcatProperties
<1>9. stream.written_bytes + k \in Nat
  BY <1>1, <1>3
<1>10. /\ stream' \in ByteStreamType(Byte)
      /\ stream'.buffer = stream.buffer \o d
      /\ stream'.written_bytes = stream.written_bytes + k
      /\ stream'.capacity = stream.capacity /\ stream'.read_bytes = stream.read_bytes
  BY <1>1, <1>5, <1>7, <1>9 DEF ByteStreamType
<1>11. TypeOK'
  BY <1>1, <1>6, <1>8, <1>10 DEF TypeOK
<1>12. Fifo'
  <2> DEFINE b == stream.buffer
  <2>1. b \in Seq(Byte) /\ consumed \in Seq(Byte) /\ d \in Seq(Byte)
    BY <1>1, <1>4
  <2> HIDE DEF b
  <2>2. (consumed \o b) \o d = consumed \o (b \o d)
    BY <2>1, ConcatAssociative, SMTT(30)
  <2> USE DEF b
  <2>3. accepted = consumed \o stream.buffer
    BY DEF Inv, Fifo
  <2>4. accepted' = consumed' \o stream'.buffer
    BY <1>6, <1>10, <2>2, <2>3
  <2> QED
    BY <2>4 DEF Fifo
<1>13. Accounting'
  <2>1. /\ stream'.written_bytes = Len(accepted') /\ stream'.read_bytes = Len(consumed')
        /\ Len(stream'.buffer) = stream'.written_bytes - stream'.read_bytes
    BY <1>1, <1>2, <1>3, <1>4, <1>6, <1>7, <1>8, <1>10
  <2>2. stream'.capacity - Len(stream'.buffer) \in 0..Capacity
    BY <1>1, <1>2, <1>3, <1>4, <1>7, <1>10, ByteStreamAssumption
  <2> QED
    BY <2>1, <2>2
       DEF Accounting, bytes_written, bytes_read, buffer_size, remaining_capacity
<1> QED
  BY <1>11, <1>12, <1>13 DEF Inv

\* Steps that change neither the buffer nor the counters keep the invariant.
LEMMA FlagStep ==
    ASSUME Inv, UNCHANGED <<accepted, consumed>>,
           stream' \in {end_input(stream), set_error(stream), stream}
    PROVE  Inv'
<1>1. stream \in ByteStreamType(Byte)
  BY DEF Inv, TypeOK
<1>2. /\ stream' \in ByteStreamType(Byte)
      /\ stream'.buffer = stream.buffer /\ stream'.capacity = stream.capacity
      /\ stream'.written_bytes = stream.written_bytes
      /\ stream'.read_bytes = stream.read_bytes
  BY <1>1 DEF ByteStreamType, end_input, set_error
<1> QED
  BY <1>2 DEF Inv, TypeOK, Fifo, Accounting, bytes_written, bytes_read, buffer_size,
              remaining_capacity

\* What pop_output() and read() do when they are not refused.
Take(len) ==
    /\ stream' = [stream EXCEPT
                    !.buffer = SubSeq(stream.buffer, len + 1, Len(stream.buffer)),
                    !.read_bytes = stream.read_bytes + len]
    /\ consumed' = consumed \o SubSeq(stream.buffer, 1, len)
    /\ accepted' = accepted

\* Taking len bytes from the front keeps the invariant.
LEMMA TakeStep ==
    ASSUME Inv, NEW len \in 0..Len(stream.buffer), Take(len)
    PROVE  Inv'
<1> DEFINE b == stream.buffer
           t == SubSeq(stream.buffer, 1, len)
           r == SubSeq(stream.buffer, len + 1, Len(stream.buffer))
<1>1. /\ stream \in ByteStreamType(Byte) /\ stream.capacity = Capacity
      /\ b \in Seq(Byte) /\ Len(b) \in Nat
      /\ stream.written_bytes \in Nat /\ stream.read_bytes \in Nat
      /\ accepted \in Seq(Byte) /\ consumed \in Seq(Byte)
  BY DEF Inv, TypeOK, ByteStreamType
<1>2. /\ Len(b) <= Capacity
      /\ stream.written_bytes = Len(accepted) /\ stream.read_bytes = Len(consumed)
      /\ Len(b) = stream.written_bytes - stream.read_bytes
  BY <1>1, ByteStreamAssumption
     DEF Inv, Accounting, remaining_capacity, bytes_written, bytes_read, buffer_size
<1>3. t \in Seq(Byte) /\ Len(t) = len /\ r \in Seq(Byte) /\ Len(r) = Len(b) - len
  BY <1>1, SplitSeq
<1>4. t \o r = b
  BY <1>1, SplitSeq
<1>5. stream' = [stream EXCEPT !.buffer = r, !.read_bytes = stream.read_bytes + len]
  BY DEF Take
<1>6. consumed' = consumed \o t /\ accepted' = accepted
  BY DEF Take
<1>7. accepted = consumed \o b
  BY DEF Inv, Fifo
<1>8. len \in Nat /\ len <= Len(b)
  BY <1>1
<1>9. stream.read_bytes + len \in Nat
  BY <1>1, <1>8
<1> HIDE DEF t, r
<1>10. /\ stream' \in ByteStreamType(Byte)
      /\ stream'.buffer = r
      /\ stream'.read_bytes = stream.read_bytes + len
      /\ stream'.capacity = stream.capacity /\ stream'.written_bytes = stream.written_bytes
  BY <1>1, <1>3, <1>5, <1>9 DEF ByteStreamType
<1>11. consumed \o t \in Seq(Byte) /\ Len(consumed \o t) = Len(consumed) + len
  BY <1>1, <1>3, ConcatProperties
<1>12. TypeOK'
  BY <1>1, <1>6, <1>10, <1>11 DEF TypeOK
<1>13. Fifo'
  <2>1. consumed \in Seq(Byte) /\ t \in Seq(Byte) /\ r \in Seq(Byte)
    BY <1>1, <1>3
  <2>2. (consumed \o t) \o r = consumed \o (t \o r)
    BY <2>1, ConcatAssociative
  <2>3. accepted' = consumed' \o stream'.buffer
    BY <1>6, <1>7, <1>10, <1>4, <2>2
  <2> QED
    BY <2>3 DEF Fifo
<1>14. Accounting'
  <2>1. /\ stream'.written_bytes = Len(accepted') /\ stream'.read_bytes = Len(consumed')
        /\ Len(stream'.buffer) = stream'.written_bytes - stream'.read_bytes
    BY <1>1, <1>2, <1>3, <1>6, <1>8, <1>10, <1>11
  <2>2. stream'.capacity - Len(stream'.buffer) \in 0..Capacity
    BY <1>1, <1>2, <1>3, <1>8, <1>10, ByteStreamAssumption
  <2> QED
    BY <2>1, <2>2
       DEF Accounting, bytes_written, bytes_read, buffer_size, remaining_capacity
<1> QED
  BY <1>12, <1>13, <1>14 DEF Inv

\* pop_output() and read() take the bytes, or are refused.
LEMMA ReadRefused ==
    ASSUME Inv, NEW len \in Nat, PopOutput(len) \/ Read(len), len > Len(stream.buffer)
    PROVE  stream' = set_error(stream) /\ UNCHANGED <<accepted, consumed>>
<1>1. stream.buffer \in Seq(Byte) /\ Len(stream.buffer) \in Nat /\ consumed \in Seq(Byte)
  BY DEF Inv, TypeOK, ByteStreamType
<1>2. stream' = set_error(stream) /\ accepted' = accepted
  BY DEF PopOutput, Read, read, pop_output
<1>3. consumed' = consumed
  <2>1. CASE PopOutput(len)
    BY <1>1, <2>1 DEF PopOutput, buffer_size
  <2>2. CASE Read(len)
    BY <1>1, <2>2, ConcatEmptySeq DEF Read, read_result
  <2> QED
    BY <2>1, <2>2
<1> QED
  BY <1>2, <1>3

LEMMA ReadTakes ==
    ASSUME Inv, NEW len \in Nat, PopOutput(len) \/ Read(len), len <= Len(stream.buffer)
    PROVE  len \in 0..Len(stream.buffer) /\ Take(len)
<1>1. stream.buffer \in Seq(Byte) /\ Len(stream.buffer) \in Nat
  BY DEF Inv, TypeOK, ByteStreamType
<1>2. len \in 0..Len(stream.buffer) /\ ~(len > Len(stream.buffer))
  BY <1>1
<1>3. min(len, Len(stream.buffer)) = len
  BY DEF min
<1>4. stream' = [stream EXCEPT
                   !.buffer = SubSeq(stream.buffer, len + 1, Len(stream.buffer)),
                   !.read_bytes = stream.read_bytes + len]
  BY <1>2 DEF PopOutput, Read, read, pop_output
<1>5. consumed' = consumed \o SubSeq(stream.buffer, 1, len) /\ accepted' = accepted
  BY <1>2, <1>3 DEF PopOutput, Read, peek_output, read_result, buffer_size
<1> QED
  BY <1>2, <1>4, <1>5 DEF Take

LEMMA ReadStep ==
    ASSUME Inv, NEW len \in Nat, PopOutput(len) \/ Read(len)
    PROVE  Inv'
<1>1. Len(stream.buffer) \in Nat
  BY DEF Inv, TypeOK, ByteStreamType
<1>2. CASE len > Len(stream.buffer)
  BY <1>2, ReadRefused, FlagStep
<1>3. CASE len <= Len(stream.buffer)
  BY <1>3, ReadTakes, TakeStep
<1> QED
  BY <1>1, <1>2, <1>3

-----------------------------------------------------------------------------
\* A ByteStream is a FIFO within its capacity: for any set of bytes, any
\* capacity and any sequence of calls of write(), end_input(), set_error(),
\* pop_output() and read(), the bytes accepted are the bytes consumed followed
\* by the bytes buffered, and the counters say how many there are of each.
THEOREM StreamIsFifo == Spec => [](TypeOK /\ Fifo /\ Accounting)
<1>1. Init => Inv
  <2>1. NewByteStream(Capacity) \in ByteStreamType(Byte)
    BY ByteStreamAssumption DEF NewByteStream, ByteStreamType
  <2> QED
    BY <2>1, ByteStreamAssumption, ConcatEmptySeq
       DEF Init, Inv, TypeOK, Fifo, Accounting, NewByteStream, bytes_written, bytes_read,
           buffer_size, remaining_capacity
<1>2. Inv /\ [Next]_vars => Inv'
  <2> SUFFICES ASSUME Inv, [Next]_vars PROVE Inv'
    OBVIOUS
  <2>1. CASE UNCHANGED vars
    BY <2>1, FlagStep DEF vars
  <2>2. ASSUME NEW data \in Strings, Write(data) PROVE Inv'
    <3>1. data \in Seq(Byte)
      BY <2>2, ByteStreamAssumption DEF Strings
    <3> QED
      BY <2>2, <3>1, WriteStep
  <2>3. CASE EndInput \/ SetError
    BY <2>3, FlagStep DEF EndInput, SetError
  <2>4. ASSUME NEW len \in 0..(Capacity + 1), PopOutput(len) \/ Read(len) PROVE Inv'
    BY <2>4, ReadStep, ByteStreamAssumption
  <2> QED
    BY <2>1, <2>2, <2>3, <2>4 DEF Next
<1> QED
  BY <1>1, <1>2, PTL DEF Spec, Inv

-----------------------------------------------------------------------------
\* Each step is one of the pipe, or none.

\* A sequence starts with what it was extended from.
LEMMA StartsWithPart ==
    ASSUME NEW S, NEW s \in Seq(S), NEW t \in Seq(S)
    PROVE  Pipe!StartsWith(s \o t, s)
BY ConcatProperties DEF Pipe!StartsWith

LEMMA WriteSends ==
    ASSUME Inv, WriterStopsAtEnd, NEW data \in Seq(Byte), Write(data)
    PROVE  Pipe!Send
<1> DEFINE d == SubSeq(data, 1, realWrite(stream, data))
<1>1. /\ stream \in ByteStreamType(Byte) /\ accepted \in Seq(Byte)
      /\ stream.capacity = Capacity /\ Len(stream.buffer) <= Capacity
  BY ByteStreamAssumption
     DEF Inv, TypeOK, Accounting, remaining_capacity, ByteStreamType
<1>2. d \in Seq(Byte)
  BY <1>1, RealWriteRange, SplitSeq
<1>3. accepted' = accepted \o d /\ consumed' = consumed /\ ~stream.end_write
  BY DEF Write, input_ended
<1>4. Pipe!StartsWith(accepted', accepted)
  BY <1>1, <1>2, <1>3, StartsWithPart
<1>5. stream'.end_write = stream.end_write
  BY <1>1 DEF Write, write, ByteStreamType
<1> QED
  BY <1>3, <1>4, <1>5 DEF Pipe!Send, input_ended, eof

LEMMA EndInputCloses ==
    ASSUME Inv, EndInput
    PROVE  Pipe!Close
<1>1. /\ stream \in ByteStreamType(Byte) /\ stream.buffer \in Seq(Byte)
      /\ consumed \in Seq(Byte) /\ accepted = consumed \o stream.buffer
  BY DEF Inv, TypeOK, Fifo, ByteStreamType
<1>2. stream'.end_write = TRUE /\ stream'.buffer = stream.buffer
  BY <1>1 DEF EndInput, end_input, ByteStreamType
<1>3. stream.buffer = <<>> <=> consumed = accepted
  <2>1. stream.buffer = <<>> => consumed = accepted
    BY <1>1, ConcatEmptySeq
  <2>2. consumed = accepted => Len(stream.buffer) = 0
    BY <1>1, ConcatProperties, LenProperties
  <2> QED
    BY <1>1, <2>1, <2>2, EmptySeq
<1>4. eof(stream)' = (consumed = accepted)
  BY <1>2, <1>3 DEF eof, buffer_empty
<1> QED
  BY <1>2, <1>4 DEF Pipe!Close, EndInput, input_ended

LEMMA TakeDelivers ==
    ASSUME Inv, Inv', NEW len \in 0..Len(stream.buffer), Take(len)
    PROVE  Pipe!Deliver
<1> DEFINE t == SubSeq(stream.buffer, 1, len)
<1>1. /\ stream \in ByteStreamType(Byte) /\ stream.buffer \in Seq(Byte)
      /\ consumed \in Seq(Byte) /\ consumed' \in Seq(Byte) /\ stream'.buffer \in Seq(Byte)
      /\ accepted' = consumed' \o stream'.buffer
  BY DEF Inv, TypeOK, Fifo, ByteStreamType
<1>2. t \in Seq(Byte) /\ Len(t) = len
  BY <1>1, SplitSeq
<1>3. /\ consumed' = consumed \o t /\ accepted' = accepted
      /\ stream'.end_write = stream.end_write
  BY <1>1 DEF Take, ByteStreamType
<1> HIDE DEF t
<1>4. Pipe!StartsWith(consumed', consumed)
  BY <1>1, <1>2, <1>3, StartsWithPart
<1>5. Pipe!StartsWith(accepted, consumed')
  BY <1>1, <1>3, StartsWithPart
<1>6. eof(stream) => eof(stream)' /\ consumed' = consumed
  <2> SUFFICES ASSUME eof(stream) PROVE eof(stream)' /\ consumed' = consumed
    OBVIOUS
  <2>1. stream.buffer = <<>> /\ stream.end_write
    BY DEF eof, buffer_empty
  <2>2. len = 0
    BY <2>1
  <2>3. t = <<>> /\ consumed' = consumed
    BY <1>1, <1>2, <1>3, <2>2, EmptySeq, ConcatEmptySeq
  <2>4. stream'.buffer = SubSeq(stream.buffer, len + 1, Len(stream.buffer))
    BY <1>1 DEF Take, ByteStreamType
  <2>5. stream'.buffer = <<>>
    <3>1. Len(stream'.buffer) = 0
      BY <1>1, <2>1, <2>2, <2>4, SplitSeq
    <3> QED
      BY <1>1, <3>1, EmptySeq
  <2> QED
    BY <1>3, <2>1, <2>3, <2>5 DEF eof, buffer_empty
<1>7. eof(stream)' => input_ended(stream) /\ consumed' = accepted
  BY <1>1, <1>3, ConcatEmptySeq DEF eof, buffer_empty, input_ended
<1>8. eof(stream)' \in BOOLEAN
  BY DEF eof
<1> QED
  BY <1>3, <1>4, <1>5, <1>6, <1>7, <1>8 DEF Pipe!Deliver, input_ended

LEMMA ReadDelivers ==
    ASSUME Inv, Inv', NEW len \in Nat, PopOutput(len) \/ Read(len)
    PROVE  Pipe!Deliver \/ UNCHANGED Pipe!pipeVars
<1>1. stream.buffer \in Seq(Byte) /\ Len(stream.buffer) \in Nat /\ consumed \in Seq(Byte)
      /\ stream \in ByteStreamType(Byte)
  BY DEF Inv, TypeOK, ByteStreamType
<1>2. CASE len > Len(stream.buffer)
  BY <1>1, <1>2, ReadRefused DEF Pipe!pipeVars, set_error, ByteStreamType, input_ended, eof, buffer_empty
<1>3. CASE len <= Len(stream.buffer)
  BY <1>1, <1>3, ReadTakes, TakeDelivers
<1> QED
  BY <1>1, <1>2, <1>3

\* A ByteStream whose writer does not write after end_input() is a reliable
\* pipe: for any capacity and any calls, bytes come out in order and once each,
\* and eof() is seen after the last of them and never taken back.
THEOREM StreamIsPipe == WriterStopsAtEnd => (Spec => ImplementsPipe)
<1> SUFFICES ASSUME WriterStopsAtEnd PROVE Spec => ImplementsPipe
  OBVIOUS
<1>1. Init => Pipe!PipeInit
  BY DEF Init, Pipe!PipeInit, NewByteStream, input_ended, eof, buffer_empty
<1>2. Inv /\ Inv' /\ [Next]_vars => [Pipe!PipeNext]_(Pipe!pipeVars)
  <2> SUFFICES ASSUME Inv, Inv', [Next]_vars
               PROVE  Pipe!PipeNext \/ UNCHANGED Pipe!pipeVars
    OBVIOUS
  <2>1. CASE UNCHANGED vars
    BY <2>1 DEF vars, Pipe!pipeVars, input_ended, eof, buffer_empty
  <2>2. ASSUME NEW data \in Strings, Write(data) PROVE Pipe!PipeNext
    <3>1. data \in Seq(Byte)
      BY <2>2, ByteStreamAssumption DEF Strings
    <3> QED
      BY <2>2, <3>1, WriteSends DEF Pipe!PipeNext
  <2>3. CASE EndInput
    BY <2>3, EndInputCloses DEF Pipe!PipeNext
  <2>4. CASE SetError
    <3>1. stream \in ByteStreamType(Byte)
      BY DEF Inv, TypeOK
    <3> QED
      BY <2>4, <3>1 DEF SetError, set_error, ByteStreamType, Pipe!pipeVars, input_ended, eof, buffer_empty
  <2>5. ASSUME NEW len \in 0..(Capacity + 1), PopOutput(len) \/ Read(len)
        PROVE  Pipe!PipeNext \/ UNCHANGED Pipe!pipeVars
    BY <2>5, ReadDelivers, ByteStreamAssumption DEF Pipe!PipeNext
  <2> QED
    BY <2>1, <2>2, <2>3, <2>4, <2>5 DEF Next
<1>3. Spec => []Inv
  BY StreamIsFifo, PTL DEF Inv
<1> QED
  BY <1>1, <1>2, <1>3, PTL DEF Spec, ImplementsPipe, Pipe!PipeSpec

=============================================================================
