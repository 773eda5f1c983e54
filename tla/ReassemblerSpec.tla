--------------------------- MODULE ReassemblerSpec ---------------------------
(***************************************************************************)
(* A StreamReassembler fed with substrings of one stream, Source, in any   *)
(* order, overlapping, repeated and beyond its window, while a reader      *)
(* takes bytes from its output at its own pace.                            *)
(***************************************************************************)
EXTENDS StreamReassembler, SourceStream

ASSUME ReassemblerAssumption ==
    /\ Source \in Seq(Byte)
    /\ Capacity \in Nat \ {0}
    /\ Len(Source) < AbsMod

VARIABLE reas

reas_out == stream_out(reas)

ReasInit == reas = NewStreamReassembler(Capacity)

\* push_substring() is called with bytes i..j-1 of the stream; only a substring
\* that reaches the end of the stream may say so.
PushSubstring(i, j, is_eof) ==
    /\ i <= j
    /\ is_eof => j = N
    /\ reas' = push_substring(reas, SubSeq(Source, i + 1, j), i, is_eof)

\* The reader asks the output for len bytes, possibly for more than it has.
ReadOutput(len) ==
    reas' = [reas EXCEPT !.output = read(@, len)]

ReasNext ==
    \/ \E i, j \in 0..N, is_eof \in BOOLEAN : PushSubstring(i, j, is_eof)
    \/ \E len \in 1..(Capacity + 1) : ReadOutput(len)

ReasSpec == ReasInit /\ [][ReasNext]_reas

\* The peer retransmits what has not been acknowledged, so that every byte is
\* pushed again and again until it has been assembled; the application keeps
\* reading what is there.
ReasFairness ==
    /\ \A i \in 0..N : WF_reas(PushSubstring(i, min(i + 1, N), i + 1 >= N))
    /\ WF_reas(~buffer_empty(reas_out) /\ ReadOutput(1))

ReasFairSpec == ReasSpec /\ ReasFairness

-----------------------------------------------------------------------------
\* The members of the class keep their types; in particular no unsigned
\* counter goes below zero.
ReasTypeOK == reas \in ReassemblerType(Byte, Capacity)

\* What is in the output is the next part of Source: nothing is lost, repeated,
\* reordered or taken from the wrong place of a segment, and the write() whose
\* result push_substring() ignores never truncates.
OutputIsPrefix ==
    /\ bytes_read(reas_out) <= bytes_written(reas_out)
    /\ bytes_written(reas_out) <= N
    /\ buffer_size(reas_out) = bytes_written(reas_out) - bytes_read(reas_out)
    /\ \A i \in 1..buffer_size(reas_out) : reas_out.buffer[i] = Source[bytes_read(reas_out) + i]

\* The window holds the right byte at every marked position, none of them
\* beyond the first unacceptable byte or beyond the end of the stream.
WindowHoldsSource ==
    \A k \in 0..(Capacity - 1) :
        reas.bitmap[k] =>
            /\ bytes_written(reas_out) + k < N
            /\ bytes_written(reas_out) + k < bytes_read(reas_out) + Capacity
            /\ reas.buffer[k] = Source[bytes_written(reas_out) + k + 1]

\* Between two calls the byte that is needed next is never in the window: every
\* call writes out all that has become contiguous.
NothingLeftBehind == ~reas.bitmap[0]

\* A byte submitted several times counts once (stream_reassembler.hh), and what
\* is buffered, assembled or not, stays within the capacity.
CapacityRespected ==
    /\ unassembled_bytes(reas) =
           Cardinality({k \in 0..(Capacity - 1) : reas.bitmap[k]})
    /\ buffer_size(reas_out) + unassembled_bytes(reas) <= Capacity

\* The output is ended exactly when the end of the stream has been announced
\* and every byte has been written, in whatever order the two came.
EndedExactly ==
    input_ended(reas_out) <=> reas.eof_flag /\ bytes_written(reas_out) = N

\* The reassembler does what its interface promises about indexes.
Abs == INSTANCE AbstractReassembler WITH
           consumed  <- bytes_read(reas_out),
           assembled <- bytes_written(reas_out),
           held      <- {bytes_written(reas_out) + k :
                            k \in {k \in 0..(Capacity - 1) : reas.bitmap[k]}},
           knowsEnd  <- reas.eof_flag,
           ended     <- input_ended(reas_out)
ImplementsAbstract == Abs!AbsSpec

\* If every byte keeps being offered and the reader keeps reading, the whole
\* stream arrives and ends: no order of arrival and no fill level of the window
\* blocks it for ever.
WholeStreamArrives == <>(eof(reas_out) /\ bytes_read(reas_out) = N)

=============================================================================
