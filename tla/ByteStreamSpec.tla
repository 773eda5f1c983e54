--------------------------- MODULE ByteStreamSpec ---------------------------
(***************************************************************************)
(* One ByteStream between one writer and one reader, each calling the      *)
(* methods of the class in any order the interface allows.  `accepted' is  *)
(* what write() has told the writer it took, `consumed' is what the reader *)
(* has been handed: neither exists in the code, both are what the two      *)
(* sides can observe.                                                      *)
(***************************************************************************)
EXTENDS ByteStream

CONSTANTS
    Byte,              \* the values a byte can take
    Capacity,          \* the constructor's argument
    MaxData,           \* bound: the longest string passed to write()
    MaxWritten,        \* bound: bytes_written() in an explored state
    WriterStopsAtEnd   \* whether the writer refrains from writing after end_input()

ASSUME ByteStreamAssumption ==
    /\ Capacity \in Nat
    /\ MaxData \in Nat
    /\ MaxWritten \in Nat
    /\ WriterStopsAtEnd \in BOOLEAN

VARIABLES stream, accepted, consumed

vars == <<stream, accepted, consumed>>

Init ==
    /\ stream = NewByteStream(Capacity)
    /\ accepted = <<>>
    /\ consumed = <<>>

\* The strings of at most MaxData bytes.
Strings == UNION {[1..n -> Byte] : n \in 0..MaxData}

-----------------------------------------------------------------------------
\* The writer's calls.

Write(data) ==
    /\ WriterStopsAtEnd => ~input_ended(stream)
    /\ bytes_written(stream) + realWrite(stream, data) <= MaxWritten
    /\ stream' = write(stream, data)
    /\ accepted' = accepted \o SubSeq(data, 1, realWrite(stream, data))
    /\ UNCHANGED consumed

EndInput ==
    /\ stream' = end_input(stream)
    /\ UNCHANGED <<accepted, consumed>>

SetError ==
    /\ stream' = set_error(stream)
    /\ UNCHANGED <<accepted, consumed>>

\* The reader's calls.  A reader that pops len bytes has peeked at len bytes.

PopOutput(len) ==
    /\ stream' = pop_output(stream, len)
    /\ consumed' = IF len <= buffer_size(stream)
                   THEN consumed \o peek_output(stream, len)
                   ELSE consumed
    /\ UNCHANGED accepted

Read(len) ==
    /\ stream' = read(stream, len)
    /\ consumed' = consumed \o read_result(stream, len)
    /\ UNCHANGED accepted

Next ==
    \/ \E data \in Strings : Write(data)
    \/ EndInput
    \/ SetError
    \/ \E len \in 0..(Capacity + 1) : PopOutput(len)
    \/ \E len \in 0..(Capacity + 1) : Read(len)

Spec == Init /\ [][Next]_vars

-----------------------------------------------------------------------------
\* The members of the class keep their types.
TypeOK ==
    /\ stream \in ByteStreamType(Byte)
    /\ stream.capacity = Capacity
    /\ accepted \in Seq(Byte)
    /\ consumed \in Seq(Byte)

\* The bytes write() took come out of read() and pop_output() in order, once
\* each: what has been consumed, followed by what is buffered, is what was
\* accepted.
Fifo == accepted = consumed \o stream.buffer

\* The counters, from which push_substring() computes its window, agree with
\* what the two sides observe and with each other, also after writes that were
\* cut short and reads that were refused, and the capacity is never exceeded.
Accounting ==
    /\ bytes_written(stream) = Len(accepted)
    /\ bytes_read(stream) = Len(consumed)
    /\ buffer_size(stream) = bytes_written(stream) - bytes_read(stream)
    /\ remaining_capacity(stream) \in 0..Capacity

\* A ByteStream whose writer respects the end of the input is a reliable pipe
\* whose reader sees eof() exactly after the last byte.
Pipe == INSTANCE BytePipe WITH
            sent <- accepted, closed <- input_ended(stream),
            received <- consumed, ended <- eof(stream)
ImplementsPipe == Pipe!PipeSpec

=============================================================================
